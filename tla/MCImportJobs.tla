------------------------------ MODULE MCImportJobs ------------------------------
EXTENDS ImportJobs, TLC

CONSTANTS c1, c2, c3, u1, u2

(* The first two commands are one user's. *)
IssuerDef == (c1 :> u1) @@ (c2 :> u1) @@ (c3 :> u2)
=============================================================================
