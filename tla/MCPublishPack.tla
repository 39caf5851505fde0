----------------------------- MODULE MCPublishPack -----------------------------
EXTENDS PublishPack, TLC

Symmetric == Permutations(Packs) \union Permutations(Rows)
=============================================================================
