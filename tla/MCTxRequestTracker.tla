------------------------- MODULE MCTxRequestTracker -------------------------
(***************************************************************************)
(* An instance of TxRequestTracker, peers numbered by their priority.      *)
(***************************************************************************)
EXTENDS TxRequestTracker

MCSalt == [h \in TxHashes |-> [p \in Peers |-> p]]
=============================================================================
