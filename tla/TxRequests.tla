----------------------------- MODULE TxRequests -----------------------------
(***************************************************************************)
(* What txrequest.h promises of TxRequestTracker: announcements of         *)
(* transactions by peers are candidates until they are requested, and      *)
(* completed when the request was answered or has expired.  Completed      *)
(* announcements are kept only while another one of the same transaction   *)
(* is not completed.                                                       *)
(***************************************************************************)
EXTENDS Integers

CONSTANTS Peers, TxHashes, Times, None

VARIABLES status, \* of each transaction and peer
          now     \* the time of the GetRequestable call in progress, or None

reqVars == <<status, now>>

Statuses == [state : {"CANDIDATE", "REQUESTED", "COMPLETED"}, preferred : BOOLEAN, time : Times]

Purged(s) ==
    IF \E p \in Peers : s[p] # None /\ s[p].state # "COMPLETED" THEN s
    ELSE [p \in Peers |-> None]

Init == status = [h \in TxHashes |-> [p \in Peers |-> None]] /\ now = None

ReceivedInv(p, h, preferred, reqtime) ==
    /\ now = None /\ status[h][p] = None
    /\ status' = [status EXCEPT ![h][p] =
                    [state |-> "CANDIDATE", preferred |-> preferred, time |-> reqtime]]
    /\ UNCHANGED now

DisconnectedPeer(p) ==
    /\ now = None
    /\ status' = [h \in TxHashes |-> Purged([status[h] EXCEPT ![p] = None])]
    /\ UNCHANGED now

ForgetTxHash(h) ==
    /\ now = None
    /\ status' = [status EXCEPT ![h] = [p \in Peers |-> None]]
    /\ UNCHANGED now

\* A candidate is requested; no other request for it stays outstanding.
RequestedTx(p, h, expiry) ==
    /\ now = None
    /\ status[h][p] # None /\ status[h][p].state = "CANDIDATE"
    /\ status' = [status EXCEPT ![h] = [q \in Peers |->
         IF q = p THEN [status[h][p] EXCEPT !.state = "REQUESTED", !.time = expiry]
         ELSE IF status[h][q] # None /\ status[h][q].state = "REQUESTED"
              THEN [status[h][q] EXCEPT !.state = "COMPLETED"]
              ELSE status[h][q]]]
    /\ UNCHANGED now

Complete(p, h) ==
    /\ status[h][p] # None /\ status[h][p].state # "COMPLETED"
    /\ status' = [status EXCEPT ![h] = Purged([status[h] EXCEPT ![p].state = "COMPLETED"])]

ReceivedResponse(p, h) == now = None /\ Complete(p, h) /\ UNCHANGED now

\* GetRequestable is called, requests time out, and it returns.
GetRequestable(t) == now = None /\ now' = t /\ UNCHANGED status

Expired(p, h) == status[h][p] # None /\ status[h][p].state = "REQUESTED" /\ status[h][p].time <= now

Expire(p, h) == now # None /\ Expired(p, h) /\ Complete(p, h) /\ UNCHANGED now

Return == /\ now # None /\ \A p \in Peers, h \in TxHashes : ~Expired(p, h)
          /\ now' = None /\ UNCHANGED status

Next == \/ \E p \in Peers, h \in TxHashes :
             \/ \E preferred \in BOOLEAN, t \in Times : ReceivedInv(p, h, preferred, t)
             \/ \E t \in Times : RequestedTx(p, h, t)
             \/ ReceivedResponse(p, h) \/ Expire(p, h)
        \/ \E p \in Peers : DisconnectedPeer(p)
        \/ \E h \in TxHashes : ForgetTxHash(h)
        \/ \E t \in Times : GetRequestable(t)
        \/ Return

Spec == Init /\ [][Next]_reqVars
=============================================================================
