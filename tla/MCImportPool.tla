---------------------------- MODULE MCImportPool ----------------------------
(* Instances of ImportPool for TLC. *)
EXTENDS ImportPool
=============================================================================
