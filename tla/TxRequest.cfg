\* One transaction, announced by three peers.
SPECIFICATION FairSpec
CONSTANTS
  Peers = {0, 1, 2}
  TxHashes = {"tx1"}
  Times = {0, 1, 2}
  None = None
  Salt <- MCSalt
  High = 4
INVARIANTS NotOnlyCompleted OneSelected RequestableIsBest
PROPERTIES ImplementsTxRequests Returns
