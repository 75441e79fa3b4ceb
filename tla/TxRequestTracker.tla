-------------------------- MODULE TxRequestTracker --------------------------
(***************************************************************************)
(* TxRequestTracker::Impl: which announcement of a transaction to request  *)
(* next is kept up to date in the announcements themselves, as the state   *)
(* CANDIDATE_BEST, by steps that look only at the neighbours of an         *)
(* announcement in the ByTxHash index.                                     *)
(*                                                                         *)
(* GetRequestable is split into its call, one step for each turn of the    *)
(* loops of SetTimePoint, and its return.  It is the only operation that   *)
(* takes more than one step, and no other runs meanwhile (cs_main).        *)
(* Sequence numbers, which only sort what is returned, and m_peerinfo,     *)
(* which caches counts, are left out.                                      *)
(***************************************************************************)
EXTENDS Integers

CONSTANTS Peers, TxHashes,
          Times,  \* points in time
          None,
          Salt,   \* Salt[h][p]: the salted hash in a priority
          High    \* its high bit

States == {"DELAYED", "READY", "BEST", "REQUESTED", "COMPLETED"}
Announcement == [state : States, preferred : BOOLEAN, time : Times]

ASSUME PriorityAssumption ==
    /\ Times \subseteq Int /\ None \notin Times \cup Announcement
    /\ None \notin [state : {"CANDIDATE"}, preferred : BOOLEAN, time : Times]
    /\ High \in Nat /\ Salt \in [TxHashes -> [Peers -> 0 .. (High - 1)]]
    /\ \A h \in TxHashes : \A p, q \in Peers : Salt[h][p] = Salt[h][q] => p = q

VARIABLES m_index, \* m_index[h][p]: the announcement of h by p, or None
          now      \* the time of the GetRequestable call in progress, or None

vars == <<m_index, now>>

NoAnnouncements == [p \in Peers |-> None]

\* Below, a is m_index[h] for one transaction h.
Has(a, p, S) == a[p] # None /\ a[p].state \in S
Candidate == {"DELAYED", "READY", "BEST"}
IsSelected == {"BEST", "REQUESTED"}
IsWaiting == {"DELAYED", "REQUESTED"}
IsSelectable == {"READY", "BEST"}

Priority(h, a, p) == Salt[h][p] + IF a[p].preferred THEN High ELSE 0

SetState(a, p, s) == [a EXCEPT ![p].state = s]

\* The order of the ByTxHash index: by state, the READY ones by priority.
StateOrder == [s \in States |-> CASE s = "DELAYED" -> 0 [] s = "READY" -> 1 [] s = "BEST" -> 2
                                  [] s = "REQUESTED" -> 3 [] s = "COMPLETED" -> 4]

Before(h, a, p, q) ==
    \/ StateOrder[a[p].state] < StateOrder[a[q].state]
    \/ a[p].state = "READY" /\ a[q].state = "READY" /\ Priority(h, a, p) < Priority(h, a, q)

\* The announcements that may follow, or precede, that of p in the index.
NextTo(h, a, p) ==
    LET after == {q \in Peers : a[q] # None /\ Before(h, a, p, q)}
    IN  {q \in after : \A r \in after : ~Before(h, a, r, q)}

PrevTo(h, a, p) ==
    LET before == {q \in Peers : a[q] # None /\ Before(h, a, q, p)}
    IN  {q \in before : \A r \in before : ~Before(h, a, q, r)}
-----------------------------------------------------------------------------
\* A DELAYED announcement is now READY, and BEST if there is none better.
PromoteCandidateReady(h, a, p) ==
    LET r == SetState(a, p, "READY")
        next == NextTo(h, r, p)
    IN  IF \A q \in next : r[q].state = "COMPLETED" THEN SetState(r, p, "BEST")
        ELSE IF \E q \in next : r[q].state = "BEST" /\ Priority(h, r, p) > Priority(h, r, q)
        THEN [q \in Peers |-> IF q = p THEN [r[q] EXCEPT !.state = "BEST"]
                              ELSE IF q \in next THEN [r[q] EXCEPT !.state = "READY"]
                              ELSE r[q]]
        ELSE r

\* Variant that selects no other announcement.
ChangeAndReselectNone(h, a, p, s) == SetState(a, p, s)

\* The announcement of p becomes s; the next best one is selected instead.
ChangeAndReselect(h, a, p, s) ==
    LET prev == {q \in PrevTo(h, a, p) : a[p].state \in IsSelected /\ a[q].state = "READY"}
    IN  SetState([q \in Peers |-> IF q \in prev THEN [a[q] EXCEPT !.state = "BEST"] ELSE a[q]], p, s)

IsOnlyNonCompleted(a, p) == \A q \in Peers \ {p} : ~Has(a, q, States \ {"COMPLETED"})

\* Variant that keeps the COMPLETED announcements when nothing else is left.
MakeCompletedKeepsAll(h, a, p) ==
    IF a[p].state = "COMPLETED" THEN a ELSE ChangeAndReselect(h, a, p, "COMPLETED")

\* The announcement of p is COMPLETED; if all are, they are deleted.
MakeCompleted(h, a, p) ==
    IF a[p].state = "COMPLETED" THEN a
    ELSE IF IsOnlyNonCompleted(a, p) THEN NoAnnouncements
    ELSE ChangeAndReselect(h, a, p, "COMPLETED")
-----------------------------------------------------------------------------
Init == m_index = [h \in TxHashes |-> NoAnnouncements] /\ now = None

\* Variant of ReceivedInv that takes the announcement anew.
ReceivedInvAgain(p, h, preferred, reqtime) ==
    /\ now = None
    /\ m_index' = [m_index EXCEPT ![h][p] =
                     [state |-> "DELAYED", preferred |-> preferred, time |-> reqtime]]
    /\ UNCHANGED now

ReceivedInv(p, h, preferred, reqtime) ==
    /\ now = None
    /\ m_index[h][p] = None
    /\ m_index' = [m_index EXCEPT ![h][p] =
                     [state |-> "DELAYED", preferred |-> preferred, time |-> reqtime]]
    /\ UNCHANGED now

\* The loop over the announcements of a peer meets each transaction once.
DisconnectedPeer(p) ==
    /\ now = None
    /\ m_index' = [h \in TxHashes |->
         IF m_index[h][p] = None THEN m_index[h]
         ELSE [MakeCompleted(h, m_index[h], p) EXCEPT ![p] = None]]
    /\ UNCHANGED now

ForgetTxHash(h) ==
    /\ now = None
    /\ m_index' = [m_index EXCEPT ![h] = NoAnnouncements]
    /\ UNCHANGED now

\* What RequestedTx does first, unless p is BEST: no other one stays selected.
Unselected(a) ==
    [q \in Peers |-> IF Has(a, q, {"BEST"}) THEN [a[q] EXCEPT !.state = "READY"]
                     ELSE IF Has(a, q, {"REQUESTED"}) THEN [a[q] EXCEPT !.state = "COMPLETED"]
                     ELSE a[q]]

\* Variant of RequestedTx that does not look for another selected one.
RequestedTxOnly(p, h, expiry) ==
    /\ now = None
    /\ Has(m_index[h], p, Candidate)
    /\ m_index' = [m_index EXCEPT ![h][p].state = "REQUESTED", ![h][p].time = expiry]
    /\ UNCHANGED now

RequestedTx(p, h, expiry) ==
    /\ now = None
    /\ Has(m_index[h], p, Candidate)
    /\ LET a == IF m_index[h][p].state = "BEST" THEN m_index[h] ELSE Unselected(m_index[h])
       IN  m_index' = [m_index EXCEPT ![h] =
             [a EXCEPT ![p].state = "REQUESTED", ![p].time = expiry]]
    /\ UNCHANGED now

ReceivedResponse(p, h) ==
    /\ now = None
    /\ m_index[h][p] # None
    /\ m_index' = [m_index EXCEPT ![h] = MakeCompleted(h, @, p)]
    /\ UNCHANGED now
-----------------------------------------------------------------------------
\* GetRequestable at time t: SetTimePoint begins.
GetRequestable(t) == now = None /\ now' = t /\ UNCHANGED m_index

Due(p, h) == Has(m_index[h], p, IsWaiting) /\ m_index[h][p].time <= now

\* The first loop of SetTimePoint: the first waiting announcement, if due.
PromoteOrExpire(p, h) ==
    /\ now # None /\ Due(p, h)
    /\ \A q \in Peers, g \in TxHashes : Due(q, g) => m_index[h][p].time <= m_index[g][q].time
    /\ m_index' = [m_index EXCEPT ![h] = IF @[p].state = "DELAYED"
                                         THEN PromoteCandidateReady(h, @, p)
                                         ELSE MakeCompleted(h, @, p)]
    /\ UNCHANGED now

Early(p, h) == Has(m_index[h], p, IsSelectable) /\ m_index[h][p].time > now

NoneDue == \A p \in Peers, h \in TxHashes : ~Due(p, h)
NoneEarly == \A p \in Peers, h \in TxHashes : ~Early(p, h)

\* Variant of Demote that finds such an announcement and leaves it alone.
DemoteNothing(p, h) == now # None /\ NoneDue /\ Early(p, h) /\ UNCHANGED vars

\* The second loop: time went backwards.
Demote(p, h) ==
    /\ now # None /\ NoneDue /\ Early(p, h)
    /\ \A q \in Peers, g \in TxHashes : Early(q, g) => m_index[g][q].time <= m_index[h][p].time
    /\ m_index' = [m_index EXCEPT ![h] = ChangeAndReselect(h, @, p, "DELAYED")]
    /\ UNCHANGED now

\* GetRequestable returns the BEST announcements of its peer.
Return == now # None /\ NoneDue /\ NoneEarly /\ now' = None /\ UNCHANGED m_index
-----------------------------------------------------------------------------
Next == \/ \E p \in Peers, h \in TxHashes :
             \/ \E preferred \in BOOLEAN, t \in Times : ReceivedInv(p, h, preferred, t)
             \/ \E t \in Times : RequestedTx(p, h, t)
             \/ ReceivedResponse(p, h) \/ PromoteOrExpire(p, h) \/ Demote(p, h)
        \/ \E p \in Peers : DisconnectedPeer(p)
        \/ \E h \in TxHashes : ForgetTxHash(h)
        \/ \E t \in Times : GetRequestable(t)
        \/ Return

Spec == Init /\ [][Next]_vars

\* A call of GetRequestable that has begun is carried on.
FairSpec == Spec /\ WF_vars(Return \/ \E p \in Peers, h \in TxHashes : PromoteOrExpire(p, h) \/ Demote(p, h))
-----------------------------------------------------------------------------
TypeOK == /\ m_index \in [TxHashes -> [Peers -> Announcement \cup {None}]]
          /\ now \in Times \cup {None}

\* SanityCheck: "Cannot have only COMPLETED peer (txhash should have been
\* forgotten already)".
NotOnlyCompleted ==
    \A h \in TxHashes : (\E p \in Peers : m_index[h][p] # None)
                          => \E p \in Peers : Has(m_index[h], p, States \ {"COMPLETED"})

\* SanityCheck: "Can have at most 1 CANDIDATE_BEST/REQUESTED peer", and "If
\* there are any CANDIDATE_READY announcements, there must be exactly one".
OneSelected ==
    \A h \in TxHashes :
      /\ \A p, q \in Peers : Has(m_index[h], p, IsSelected) /\ Has(m_index[h], q, IsSelected) => p = q
      /\ (\E p \in Peers : Has(m_index[h], p, {"READY"}))
           => \E p \in Peers : Has(m_index[h], p, IsSelected)

\* SanityCheck: a CANDIDATE_BEST announcement is at least as good as every
\* CANDIDATE_READY one of its transaction.
BestIsBest ==
    \A h \in TxHashes : \A p, q \in Peers :
      Has(m_index[h], p, {"BEST"}) /\ Has(m_index[h], q, {"READY"})
        => Priority(h, m_index[h], p) > Priority(h, m_index[h], q)

\* The candidate that the rules in txrequest.h pick for h at time t.
Best(p, h, t) ==
    LET viable == {q \in Peers : Has(m_index[h], q, Candidate) /\ m_index[h][q].time <= t}
    IN  /\ p \in viable
        /\ \A q \in Peers : ~Has(m_index[h], q, {"REQUESTED"})
        /\ \A q \in viable : Priority(h, m_index[h], q) <= Priority(h, m_index[h], p)

\* What GetRequestable returns, whether time went forward or backward and
\* whatever was requested out of turn, is what its documentation promises:
\* the candidates with reqtime <= now for which nothing is requested and that
\* are the best choice among all such candidates.
RequestableIsBest ==
    now # None /\ NoneDue /\ NoneEarly =>
      \A p \in Peers, h \in TxHashes : Has(m_index[h], p, {"BEST"}) <=> Best(p, h, now)

\* Every call of GetRequestable ends: SetTimePoint never moves an announcement
\* back and forth.
Returns == now # None ~> now = None

\* txrequest.h tells no candidates apart.
Shown(x) == IF x # None /\ x.state \in Candidate THEN [x EXCEPT !.state = "CANDIDATE"] ELSE x
Status == [h \in TxHashes |-> [p \in Peers |-> Shown(m_index[h][p])]]

Abstract == INSTANCE TxRequests WITH status <- Status

\* The tracker does what txrequest.h says of each operation: in particular a
\* completed announcement is not requested again unless it was forgotten.
ImplementsTxRequests == Abstract!Spec
=============================================================================
