--------------------------- MODULE MCTelegramLibrary ---------------------------
EXTENDS TelegramLibrary, TLC

Symmetric ==
  Permutations(Keys) \union Permutations(RowIds) \union Permutations(TpIds)
    \union Permutations(PackIds) \union Permutations(Users)
=============================================================================
