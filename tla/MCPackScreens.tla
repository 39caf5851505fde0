----------------------------- MODULE MCPackScreens -----------------------------
EXTENDS PackScreens, TLC

Symmetric == Permutations(Stickers) \union Permutations(Presses)
=============================================================================
