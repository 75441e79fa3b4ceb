\* The database under crashes, on a node that may prune.
SPECIFICATION FairSpec
CONSTANTS
  Blocks <- MCBlocks
  Genesis = "g"
  Parent <- MCParent
  Ancestors <- MCAncestors
  Height <- MCHeight
  NullHash = "null"
  Pruning = TRUE
  KeepBlocks = 1
  OutPoints <- MCOutPoints
  Coins <- MCCoins
  Spent = "spent"
  Creates <- MCCreates
  Spends <- MCSpends
  UTXO <- MCUTXO
INVARIANTS ConsistentWhenMarked ViewIsUTXO ReplaySucceedsUnpruned
PROPERTIES Recovers
