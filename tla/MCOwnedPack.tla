------------------------------ MODULE MCOwnedPack ------------------------------
EXTENDS OwnedPack, TLC

CONSTANTS p1, p2, a, b, c

Symmetric == Permutations(Names)
=============================================================================
