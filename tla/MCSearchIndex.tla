----------------------------- MODULE MCSearchIndex -----------------------------
EXTENDS SearchIndex

CONSTANTS p1, p2

(* The first pack has all the stickers but the last. *)
PackOfDef == [s \in Stickers |-> IF s < Total THEN p1 ELSE p2]
=============================================================================
