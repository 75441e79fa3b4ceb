----------------------- MODULE TxRequestTrackerProofs -----------------------
(***************************************************************************)
(* The invariants of TxRequestTracker, and that GetRequestable returns     *)
(* what it promises, for any number of peers, transactions and times.      *)
(***************************************************************************)
EXTENDS TxRequestTracker, WellFoundedInduction, TLAPS

\* Every nonempty set of naturals has a least element ...
LEMMA NatMin ==
    ASSUME NEW T \in SUBSET Nat, T # {}
    PROVE  \E x \in T : \A y \in T : x <= y
<1> DEFINE R == OpToRel(<, Nat)
<1>1. \E x \in T : \A y \in T : ~(<<y, x>> \in R)
  BY WFMin, NatLessThanWellFounded
<1>2. ASSUME NEW x \in T, NEW y \in T, ~(<<y, x>> \in R) PROVE x <= y
  BY <1>2 DEF OpToRel
<1> QED BY <1>1, <1>2

\* ... and, if it is bounded, a greatest one.
LEMMA NatMax ==
    ASSUME NEW n \in Nat, NEW T \in SUBSET (0 .. n), T # {}
    PROVE  \E x \in T : \A y \in T : y <= x
<1> DEFINE D == {n - x : x \in T}
<1>0. PICK z \in T : TRUE
  OBVIOUS
<1>1. D \in SUBSET Nat /\ D # {}
  <2>1. ASSUME NEW x \in T PROVE n - x \in Nat
    OBVIOUS
  <2>2. n - z \in D
    BY <1>0
  <2> QED BY <2>1, <2>2
<1>2. PICK d \in D : \A e \in D : d <= e
  BY <1>1, NatMin
<1>3. PICK x \in T : d = n - x
  OBVIOUS
<1>4. ASSUME NEW y \in T PROVE y <= x
  <2>1. n - y \in D /\ d <= n - y
    BY <1>2
  <2> QED BY <2>1, <1>3
<1> QED BY <1>4
-----------------------------------------------------------------------------
(* The announcements of one transaction.                                   *)

Slots == [Peers -> Announcement \cup {None}]

St(a, p) == IF a[p] = None THEN "NONE" ELSE a[p].state

Active == {"DELAYED", "READY", "BEST", "REQUESTED"}

\* SanityCheck, of one transaction.
Good(h, a) ==
    /\ \A p \in Peers : St(a, p) # "NONE" => \E q \in Peers : St(a, q) \in Active
    /\ \A p, q \in Peers : St(a, p) \in IsSelected /\ St(a, q) \in IsSelected => p = q
    /\ \A p \in Peers : St(a, p) = "READY" => \E q \in Peers : St(a, q) \in IsSelected
    /\ \A p, q \in Peers : St(a, p) = "BEST" /\ St(a, q) = "READY"
                             => Priority(h, a, p) > Priority(h, a, q)

\* The announcements in b are those in a, some deleted, in other states.
From(a, b) == \A p \in Peers : b[p] # None => a[p] # None /\ b[p].preferred = a[p].preferred

LEMMA SlotType ==
    ASSUME NEW a \in Slots, NEW p \in Peers
    PROVE  /\ St(a, p) \in States \cup {"NONE"}
           /\ St(a, p) = "NONE" <=> a[p] = None
           /\ a[p] # None => a[p] \in Announcement /\ St(a, p) = a[p].state
BY DEF Slots, St, States, Announcement

LEMMA PriorityType ==
    ASSUME NEW h \in TxHashes, NEW a \in Slots, NEW p \in Peers, a[p] # None
    PROVE  Priority(h, a, p) \in 0 .. (2 * High)
<1>1. Salt[h][p] \in 0 .. (High - 1) /\ High \in Nat
  BY PriorityAssumption
<1>2. a[p].preferred \in BOOLEAN
  BY DEF Slots, Announcement
<1> QED BY <1>1, <1>2 DEF Priority

LEMMA PriorityDiffers ==
    ASSUME NEW h \in TxHashes, NEW a \in Slots, NEW p \in Peers, NEW q \in Peers,
           a[p] # None, a[q] # None, p # q
    PROVE  Priority(h, a, p) # Priority(h, a, q)
<1>1. /\ Salt[h][p] \in 0 .. (High - 1) /\ Salt[h][q] \in 0 .. (High - 1) /\ High \in Nat
      /\ Salt[h][p] # Salt[h][q]
  BY PriorityAssumption
<1> QED BY <1>1 DEF Priority

LEMMA PriorityKept ==
    ASSUME NEW h, NEW a, NEW b, From(a, b), NEW p \in Peers, b[p] # None
    PROVE  Priority(h, b, p) = Priority(h, a, p)
BY DEF From, Priority

\* b is a, with the announcement of p in state s.
IsSet(a, b, p, s) ==
    /\ b \in Slots /\ From(a, b)
    /\ \A q \in Peers : St(b, q) = IF q = p THEN s ELSE St(a, q)

LEMMA SetStateEffect ==
    ASSUME NEW a \in Slots, NEW p \in Peers, a[p] # None, NEW s \in States
    PROVE  IsSet(a, SetState(a, p, s), p, s)
<1> DEFINE b == SetState(a, p, s)
<1>1. a[p] \in Announcement /\ [a[p] EXCEPT !.state = s] \in Announcement
  BY DEF Slots, Announcement
<1>2. [a[p] EXCEPT !.state = s] # None /\ [a[p] EXCEPT !.state = s].state = s
      /\ [a[p] EXCEPT !.state = s].preferred = a[p].preferred
  BY <1>1, PriorityAssumption DEF Announcement
<1>3. b[p] = [a[p] EXCEPT !.state = s] /\ \A q \in Peers : q # p => b[q] = a[q]
  BY DEF SetState, Slots
<1>4. b \in Slots
  BY <1>1 DEF SetState, Slots
<1>5. From(a, b)
  BY <1>2, <1>3 DEF From
<1>6. \A q \in Peers : St(b, q) = IF q = p THEN s ELSE St(a, q)
  BY <1>2, <1>3 DEF St
<1> HIDE DEF b
<1> QED BY <1>4, <1>5, <1>6 DEF b, IsSet

\* Every position in the index that is not the last has a next one.
Key(h, a, p) == StateOrder[a[p].state] * (2 * High + 1)
                  + IF a[p].state = "READY" THEN Priority(h, a, p) ELSE 0

LEMMA KeyOrder ==
    ASSUME NEW h \in TxHashes, NEW a \in Slots, NEW p \in Peers, NEW q \in Peers,
           a[p] # None, a[q] # None
    PROVE  /\ Key(h, a, p) \in Nat
           /\ Before(h, a, p, q) <=> Key(h, a, p) < Key(h, a, q)
<1>1. /\ Priority(h, a, p) \in 0 .. (2 * High) /\ Priority(h, a, q) \in 0 .. (2 * High)
      /\ High \in Nat
  BY PriorityType, PriorityAssumption
<1>2. a[p].state \in States /\ a[q].state \in States
  BY DEF Slots, Announcement
<1>3. /\ StateOrder["DELAYED"] = 0 /\ StateOrder["READY"] = 1 /\ StateOrder["BEST"] = 2
      /\ StateOrder["REQUESTED"] = 3 /\ StateOrder["COMPLETED"] = 4
  BY DEF StateOrder, States
<1>4. PICK K \in Nat : K = 2 * High + 1
  BY <1>1
<1>5. Key(h, a, p) = StateOrder[a[p].state] * K + IF a[p].state = "READY" THEN Priority(h, a, p) ELSE 0
  BY <1>4 DEF Key
<1>6. Key(h, a, q) = StateOrder[a[q].state] * K + IF a[q].state = "READY" THEN Priority(h, a, q) ELSE 0
  BY <1>4 DEF Key
<1>7. Priority(h, a, p) \in Nat /\ Priority(h, a, p) < K /\ Priority(h, a, q) \in Nat /\ Priority(h, a, q) < K
  BY <1>1, <1>4
<1> QED BY <1>2, <1>3, <1>5, <1>6, <1>7 DEF Before, States

LEMMA NextExists ==
    ASSUME NEW h \in TxHashes, NEW a \in Slots, NEW p \in Peers, a[p] # None,
           NEW q \in Peers, a[q] # None, Before(h, a, p, q)
    PROVE  \E r \in NextTo(h, a, p) : TRUE
<1> DEFINE after == {r \in Peers : a[r] # None /\ Before(h, a, p, r)}
           keys == {Key(h, a, r) : r \in after}
<1>1. keys \in SUBSET Nat /\ keys # {}
  <2>1. ASSUME NEW r \in after PROVE Key(h, a, r) \in Nat
    BY KeyOrder
  <2>2. q \in after
    OBVIOUS
  <2> QED BY <2>1, <2>2
<1>2. PICK k \in keys : \A l \in keys : k <= l
  BY <1>1, NatMin
<1>3. PICK m \in after : k = Key(h, a, m)
  OBVIOUS
<1>4. ASSUME NEW r \in after PROVE ~Before(h, a, r, m)
  <2>1. Key(h, a, r) \in keys /\ Key(h, a, r) \in Nat /\ Key(h, a, m) \in Nat
    BY KeyOrder
  <2>2. Key(h, a, m) <= Key(h, a, r)
    BY <1>2, <1>3, <2>1
  <2> QED BY <2>1, <2>2, KeyOrder
<1> QED BY <1>3, <1>4 DEF NextTo

\* PromoteCandidateReady keeps the invariants.
LEMMA PromoteGood ==
    ASSUME NEW h \in TxHashes, NEW a \in Slots, Good(h, a),
           NEW p \in Peers, St(a, p) = "DELAYED"
    PROVE  LET b == PromoteCandidateReady(h, a, p) IN b \in Slots /\ From(a, b) /\ Good(h, b)
<1> DEFINE r == SetState(a, p, "READY")
           next == NextTo(h, r, p)
           b == PromoteCandidateReady(h, a, p)
<1> SUFFICES b \in Slots /\ From(a, b) /\ Good(h, b)
  OBVIOUS
<1>1. a[p] # None
  BY SlotType
<1>2. /\ r \in Slots /\ From(a, r) /\ r[p] # None
      /\ \A q \in Peers : St(r, q) = IF q = p THEN "READY" ELSE St(a, q)
  <2>1. IsSet(a, r, p, "READY")
    BY <1>1, SetStateEffect DEF States
  <2> HIDE DEF r
  <2>2. St(r, p) = "READY"
    BY <2>1 DEF IsSet
  <2> QED BY <2>1, <2>2 DEF IsSet, St
<1>3. \A q \in Peers : r[q] # None => Priority(h, r, q) = Priority(h, a, q)
  BY <1>2, PriorityKept
<1>4. \A q \in Peers : r[q] # None => Priority(h, r, q) \in Nat
  BY <1>2, PriorityType
<1>5. \A q \in Peers : St(r, q) # "NONE" <=> r[q] # None
  BY <1>2, SlotType
<1>6. \A q \in Peers : r[q] # None => St(r, q) = r[q].state /\ r[q].state \in States
  BY <1>2, SlotType DEF Announcement
<1>7. \A q \in next : /\ q \in Peers /\ r[q] # None /\ Before(h, r, p, q)
                      /\ \A x \in Peers : r[x] # None /\ Before(h, r, p, x) => ~Before(h, r, x, q)
  BY DEF NextTo
<1>8. /\ StateOrder["DELAYED"] = 0 /\ StateOrder["READY"] = 1 /\ StateOrder["BEST"] = 2
      /\ StateOrder["REQUESTED"] = 3 /\ StateOrder["COMPLETED"] = 4
  BY DEF StateOrder, States
<1> HIDE DEF r, next, b
<1>9. CASE \A q \in next : r[q].state = "COMPLETED"
  <2>1. ASSUME NEW q \in Peers, St(a, q) \in IsSelected PROVE FALSE
    <3>1. q # p /\ St(r, q) \in IsSelected /\ r[q] # None /\ r[q].state = St(r, q)
      BY <2>1, <1>2, <1>5, <1>6 DEF IsSelected
    <3>2. r[p].state = "READY"
      BY <1>2, <1>6
    <3>3. Before(h, r, p, q)
      BY <3>1, <3>2, <1>8 DEF Before, IsSelected
    <3>4. PICK x \in next : TRUE
      BY <1>2, <3>1, <3>3, NextExists DEF next
    <3>5. r[x].state = "COMPLETED" /\ ~Before(h, r, q, x)
      BY <1>7, <1>9, <3>1, <3>3, <3>4
    <3> QED BY <3>1, <3>5, <1>8 DEF Before, IsSelected
  <2>2. b = SetState(r, p, "BEST")
    BY <1>9 DEF PromoteCandidateReady, r, next, b
  <2>3. /\ b \in Slots /\ From(r, b)
        /\ \A q \in Peers : St(b, q) = IF q = p THEN "BEST" ELSE St(r, q)
    <3>1. IsSet(r, b, p, "BEST")
      BY <2>2, <1>2, SetStateEffect DEF States
    <3> QED BY <3>1 DEF IsSet
  <2>4. From(a, b)
    BY <2>3, <1>2 DEF From
  <2>5. \A q \in Peers : St(b, q) = IF q = p THEN "BEST" ELSE St(a, q)
    BY <2>3, <1>2
  <2>6. \A q \in Peers : St(a, q) # "READY" /\ St(a, q) \notin IsSelected
    BY <2>1 DEF Good
  <2>7. Good(h, b)
    BY <2>5, <2>6 DEF Good, IsSelected, Active
  <2> QED BY <2>3, <2>4, <2>7
<1>10. CASE /\ ~\A q \in next : r[q].state = "COMPLETED"
            /\ \E q \in next : r[q].state = "BEST" /\ Priority(h, r, p) > Priority(h, r, q)
  <2>1. PICK q \in next : r[q].state = "BEST" /\ Priority(h, r, p) > Priority(h, r, q)
    BY <1>10
  <2>2. q \in Peers /\ r[q] # None /\ q # p /\ St(a, q) = "BEST"
    BY <2>1, <1>2, <1>6, <1>7
  <2>3. \A x \in next : x = q
    <3> SUFFICES ASSUME NEW x \in next, x # q PROVE FALSE
      OBVIOUS
    <3>1. x \in Peers /\ r[x] # None /\ ~Before(h, r, q, x) /\ ~Before(h, r, x, q) /\ x # p
      BY <1>2, <1>7, <2>1, <2>2 DEF Before
    <3>2. r[x].state = "BEST"
      BY <3>1, <2>1, <1>6, <1>8 DEF Before, States
    <3> QED BY <3>1, <3>2, <2>2, <1>2, <1>6 DEF Good, IsSelected
  <2>4. b = [x \in Peers |-> IF x = p THEN [r[x] EXCEPT !.state = "BEST"]
                             ELSE IF x = q THEN [r[x] EXCEPT !.state = "READY"]
                             ELSE r[x]]
    BY <1>10, <2>1, <2>2, <2>3 DEF PromoteCandidateReady, r, next, b
  <2>5. b = SetState(SetState(r, q, "READY"), p, "BEST")
    BY <2>2, <2>4, <1>2 DEF SetState, Slots
  <2> DEFINE c == SetState(r, q, "READY")
  <2>6. /\ c \in Slots /\ From(r, c) /\ c[p] # None
        /\ \A x \in Peers : St(c, x) = IF x = q THEN "READY" ELSE St(r, x)
    <3>1. IsSet(r, c, q, "READY")
      BY <2>2, <1>2, SetStateEffect DEF States
    <3> HIDE DEF c
    <3>2. St(c, p) = "READY"
      BY <2>2, <3>1, <1>2 DEF IsSet
    <3> QED BY <3>1, <3>2 DEF IsSet, St
  <2> HIDE DEF c
  <2>7. /\ b \in Slots /\ From(c, b)
        /\ \A x \in Peers : St(b, x) = IF x = p THEN "BEST" ELSE St(c, x)
    <3>1. b = SetState(c, p, "BEST")
      BY <2>5 DEF c
    <3>2. IsSet(c, b, p, "BEST")
      BY <3>1, <2>6, SetStateEffect DEF States
    <3> QED BY <3>2 DEF IsSet
  <2>8. From(a, b)
    BY <2>6, <2>7, <1>2 DEF From
  <2>9. \A x \in Peers : St(b, x) = IF x = p THEN "BEST" ELSE IF x = q THEN "READY" ELSE St(a, x)
    BY <2>2, <2>6, <2>7, <1>2
  <2>10. \A x \in Peers : St(b, x) # "NONE" => Priority(h, b, x) = Priority(h, a, x)
    BY <2>7, <2>8, PriorityKept, SlotType
  <2>11. \A x \in Peers : St(a, x) \in {"READY", "BEST", "DELAYED"} => Priority(h, a, x) \in Nat
    BY PriorityType, SlotType
  <2>12. Priority(h, a, p) > Priority(h, a, q)
    BY <2>1, <2>2, <1>2, <1>3
  <2>13. \A x \in Peers : St(a, x) = "READY" => Priority(h, a, x) < Priority(h, a, p)
    BY <2>2, <2>11, <2>12 DEF Good
  <2>14. \A x \in Peers : St(a, x) \in IsSelected => x = q
    BY <2>2 DEF Good, IsSelected
  <2>15. Good(h, b)
    BY <2>2, <2>9, <2>10, <2>11, <2>12, <2>13, <2>14 DEF Good, IsSelected, Active
  <2> QED BY <2>7, <2>8, <2>15
<1>11. CASE /\ ~\A q \in next : r[q].state = "COMPLETED"
            /\ ~\E q \in next : r[q].state = "BEST" /\ Priority(h, r, p) > Priority(h, r, q)
  <2>1. b = r
    BY <1>11 DEF PromoteCandidateReady, r, next, b
  <2>2. PICK q \in next : r[q].state # "COMPLETED"
    BY <1>11
  <2>3. /\ q \in Peers /\ r[q] # None /\ Before(h, r, p, q) /\ q # p
        /\ r[q].state \in {"READY", "BEST", "REQUESTED"} /\ r[p].state = "READY"
    BY <2>2, <1>2, <1>6, <1>7, <1>8 DEF Before, States
  <2>4. St(a, q) = r[q].state
    BY <2>3, <1>2, <1>6
  <2>5. \E x \in Peers : St(a, x) \in IsSelected
    BY <2>3, <2>4 DEF Good, IsSelected
  <2>6. ASSUME NEW x \in Peers, St(a, x) = "BEST" PROVE Priority(h, a, x) > Priority(h, a, p)
    <3>1. x # p /\ r[x] # None /\ r[x].state = "BEST"
      BY <2>6, <1>2, <1>5, <1>6
    <3>2. CASE r[q].state = "READY"
      <4>1. Priority(h, a, p) < Priority(h, a, q)
        BY <2>3, <3>2, <1>2, <1>3, <1>8 DEF Before
      <4>2. Priority(h, a, q) < Priority(h, a, x)
        BY <2>3, <2>4, <2>6, <3>2 DEF Good
      <4>3. /\ Priority(h, a, p) \in Nat /\ Priority(h, a, q) \in Nat
            /\ Priority(h, a, x) \in Nat
        BY <3>1, <2>3, <1>2, <1>3, <1>4
      <4> QED BY <4>1, <4>2, <4>3
    <3>3. CASE r[q].state # "READY"
      <4>1. q = x
        BY <2>3, <2>4, <2>6, <3>3 DEF Good, IsSelected
      <4>2. ~(Priority(h, a, p) > Priority(h, a, x))
        BY <4>1, <2>2, <2>3, <2>4, <2>6, <1>2, <1>3, <1>11
      <4>3. Priority(h, a, p) # Priority(h, a, x)
        BY <3>1, <1>1, <2>6, PriorityDiffers, SlotType
      <4>4. Priority(h, a, p) \in Nat /\ Priority(h, a, x) \in Nat
        BY <3>1, <1>2, <1>3, <1>4
      <4> QED BY <4>2, <4>3, <4>4
    <3> QED BY <3>2, <3>3
  <2>7. \A x \in Peers : St(r, x) # "NONE" => Priority(h, r, x) = Priority(h, a, x)
    BY <1>3, <1>5
  <2>8. Good(h, r)
    BY <1>2, <2>5, <2>6, <2>7 DEF Good, IsSelected, Active
  <2> QED BY <1>2, <2>1, <2>8
<1> QED BY <1>9, <1>10, <1>11

\* The READY announcement before a selected one is the best of them.
LEMMA PrevIsBest ==
    ASSUME NEW h \in TxHashes, NEW a \in Slots, Good(h, a),
           NEW p \in Peers, St(a, p) \in IsSelected,
           NEW q \in Peers, St(a, q) = "READY"
    PROVE  \E m \in PrevTo(h, a, p) :
             /\ St(a, m) = "READY"
             /\ \A x \in Peers : St(a, x) = "READY" => Priority(h, a, x) <= Priority(h, a, m)
<1> DEFINE ready == {x \in Peers : St(a, x) = "READY"}
           prios == {Priority(h, a, x) : x \in ready}
<1>1. prios \in SUBSET (0 .. (2 * High)) /\ prios # {}
  <2>1. ASSUME NEW x \in ready PROVE Priority(h, a, x) \in 0 .. (2 * High)
    BY PriorityType, SlotType
  <2>2. q \in ready
    OBVIOUS
  <2> QED BY <2>1, <2>2
<1>2. 2 * High \in Nat
  BY PriorityAssumption
<1>3. PICK k \in prios : \A l \in prios : l <= k
  BY <1>1, <1>2, NatMax
<1>4. PICK m \in ready : k = Priority(h, a, m)
  OBVIOUS
<1>5. \A x \in ready : Priority(h, a, x) <= Priority(h, a, m)
  BY <1>3, <1>4
<1>6. /\ StateOrder["DELAYED"] = 0 /\ StateOrder["READY"] = 1 /\ StateOrder["BEST"] = 2
      /\ StateOrder["REQUESTED"] = 3 /\ StateOrder["COMPLETED"] = 4
  BY DEF StateOrder, States
<1>7. \A x \in Peers : a[x] # None => St(a, x) = a[x].state /\ a[x].state \in States
  BY SlotType DEF Announcement
<1>8. a[m] # None /\ a[m].state = "READY" /\ a[p] # None /\ a[p].state \in IsSelected
  BY <1>7, SlotType DEF IsSelected
<1>9. Before(h, a, m, p)
  BY <1>6, <1>8 DEF Before, IsSelected
<1>10. ASSUME NEW r \in Peers, a[r] # None, Before(h, a, r, p) PROVE ~Before(h, a, m, r)
  <2>1. r # p
    BY <1>6, <1>7, <1>8, <1>10 DEF Before, IsSelected
  <2>2. a[r].state \notin IsSelected
    BY <1>7, <1>8, <1>10, <2>1 DEF Good
  <2>3. a[r].state \in {"DELAYED", "READY"}
    BY <1>6, <1>7, <1>8, <1>10, <2>2 DEF Before, IsSelected, States
  <2>4. CASE a[r].state = "READY"
    <3>1. r \in ready /\ Priority(h, a, r) \in Nat /\ Priority(h, a, m) \in Nat
      BY <2>4, <1>7, <1>8, <1>10, PriorityType, PriorityAssumption
    <3>2. Priority(h, a, r) <= Priority(h, a, m)
      BY <3>1, <1>5
    <3> QED BY <2>4, <3>1, <3>2, <1>6, <1>8 DEF Before
  <2>5. CASE a[r].state = "DELAYED"
    BY <2>5, <1>6, <1>8 DEF Before
  <2> QED BY <2>3, <2>4, <2>5
<1>11. m \in PrevTo(h, a, p)
  BY <1>8, <1>9, <1>10 DEF PrevTo
<1> QED BY <1>5, <1>11

\* ChangeAndReselect keeps the invariants.
LEMMA ChangeGood ==
    ASSUME NEW h \in TxHashes, NEW a \in Slots, Good(h, a),
           NEW p \in Peers, a[p] # None, NEW s \in {"DELAYED", "COMPLETED"},
           s = "COMPLETED" => \E q \in Peers \ {p} : St(a, q) \in Active
    PROVE  LET b == ChangeAndReselect(h, a, p, s)
           IN  b \in Slots /\ From(a, b) /\ Good(h, b) /\ St(b, p) = s
<1> DEFINE prev == {q \in PrevTo(h, a, p) : a[p].state \in IsSelected /\ a[q].state = "READY"}
           c == [q \in Peers |-> IF q \in prev THEN [a[q] EXCEPT !.state = "BEST"] ELSE a[q]]
           b == ChangeAndReselect(h, a, p, s)
<1> SUFFICES b \in Slots /\ From(a, b) /\ Good(h, b) /\ St(b, p) = s
  OBVIOUS
<1>1. b = SetState(c, p, s)
  BY DEF ChangeAndReselect
<1>2. \A q \in Peers : a[q] # None => a[q] \in Announcement /\ St(a, q) = a[q].state
  BY SlotType
<1>3. \A q \in prev : q \in Peers /\ a[q] # None /\ St(a, q) = "READY" /\ St(a, p) \in IsSelected
  BY <1>2 DEF PrevTo
<1>4. \A q \in prev : \A r \in Peers : a[r] # None /\ Before(h, a, r, p) => ~Before(h, a, q, r)
  BY DEF PrevTo
<1>5. p \notin prev
  BY <1>3 DEF IsSelected
<1>6. ASSUME NEW q \in prev
      PROVE  /\ [a[q] EXCEPT !.state = "BEST"] \in Announcement
             /\ [a[q] EXCEPT !.state = "BEST"].state = "BEST"
             /\ [a[q] EXCEPT !.state = "BEST"].preferred = a[q].preferred
             /\ [a[q] EXCEPT !.state = "BEST"] # None
  <2>1. a[q] \in Announcement
    BY <1>2, <1>3
  <2>2. [a[q] EXCEPT !.state = "BEST"] \in Announcement
    BY <2>1 DEF Announcement, States
  <2> QED BY <2>1, <2>2, PriorityAssumption DEF Announcement
<1> HIDE DEF prev
<1>7. c \in Slots
  BY <1>6 DEF Slots
<1>8. From(a, c) /\ c[p] # None
  BY <1>3, <1>5, <1>6 DEF From
<1>9. \A q \in Peers : St(c, q) = IF q \in prev THEN "BEST" ELSE St(a, q)
  BY <1>6 DEF St
<1> HIDE DEF c, b
<1>10. IsSet(c, b, p, s)
  BY <1>1, <1>7, <1>8, SetStateEffect DEF States
<1>11. b \in Slots /\ From(a, b)
  BY <1>8, <1>10 DEF IsSet, From
<1>12. \A q \in Peers : St(b, q) = IF q = p THEN s ELSE IF q \in prev THEN "BEST" ELSE St(a, q)
  BY <1>9, <1>10 DEF IsSet
<1>13. \A q \in Peers : St(b, q) # "NONE" => Priority(h, b, q) = Priority(h, a, q)
  BY <1>11, PriorityKept, SlotType
<1>14. \A q \in Peers : St(a, q) # "NONE" => Priority(h, a, q) \in Nat
  BY PriorityType, SlotType, PriorityAssumption
<1>15. CASE St(a, p) \notin IsSelected
  <2>1. prev = {}
    BY <1>3, <1>15
  <2>2. \A q \in Peers : St(b, q) = IF q = p THEN s ELSE St(a, q)
    BY <1>12, <2>1
  <2>3. Good(h, b)
    BY <2>2, <1>13, <1>15 DEF Good, IsSelected, Active
  <2> QED BY <1>11, <1>12, <2>3
<1>16. CASE St(a, p) \in IsSelected
  <2>1. \A q \in Peers : St(a, q) \in IsSelected => q = p
    BY <1>16 DEF Good
  <2>2. CASE \A q \in Peers : St(a, q) # "READY"
    <3>1. prev = {}
      BY <1>3, <2>2
    <3>2. \A q \in Peers : St(b, q) = IF q = p THEN s ELSE St(a, q)
      BY <1>12, <3>1
    <3>3. Good(h, b)
      BY <2>1, <2>2, <3>2 DEF Good, IsSelected, Active
    <3> QED BY <1>11, <1>12, <3>3
  <2>3. CASE \E q \in Peers : St(a, q) = "READY"
    <3>1. PICK m \in PrevTo(h, a, p) :
            /\ St(a, m) = "READY"
            /\ \A x \in Peers : St(a, x) = "READY" => Priority(h, a, x) <= Priority(h, a, m)
      BY <1>16, <2>3, PrevIsBest
    <3>2. m \in Peers /\ a[m] # None /\ Before(h, a, m, p)
      BY <3>1 DEF PrevTo
    <3>3. m \in prev
      BY <1>2, <1>16, <3>1, <3>2 DEF prev
    <3>4. ASSUME NEW x \in prev PROVE x = m
      <4>1. x \in Peers /\ a[x] # None /\ St(a, x) = "READY" /\ ~Before(h, a, x, m)
        BY <1>3, <1>4, <3>2
      <4>2. ~(Priority(h, a, x) < Priority(h, a, m))
        BY <4>1, <3>1, <3>2, <1>2 DEF Before
      <4>3. Priority(h, a, x) <= Priority(h, a, m)
        BY <4>1, <3>1
      <4>4. Priority(h, a, x) \in Nat /\ Priority(h, a, m) \in Nat
        BY <4>1, <3>1, <3>2, <1>14
      <4>5. Priority(h, a, x) = Priority(h, a, m)
        BY <4>2, <4>3, <4>4
      <4> QED BY <4>1, <4>5, <3>2, PriorityDiffers
    <3>5. \A q \in Peers : St(b, q) = IF q = p THEN s ELSE IF q = m THEN "BEST" ELSE St(a, q)
      BY <1>12, <3>3, <3>4
    <3>6. m # p /\ St(b, m) = "BEST"
      BY <1>5, <3>2, <3>3, <3>5
    <3>7. \A q \in Peers : St(b, q) \in IsSelected => q = m
      BY <2>1, <3>5 DEF IsSelected
    <3>8. \A q \in Peers : St(b, q) = "READY" => Priority(h, b, m) > Priority(h, b, q)
      <4> SUFFICES ASSUME NEW q \in Peers, St(b, q) = "READY"
                   PROVE  Priority(h, b, m) > Priority(h, b, q)
        OBVIOUS
      <4>1. St(a, q) = "READY" /\ q # m /\ a[q] # None
        BY <3>5, <3>6, SlotType
      <4>2. /\ Priority(h, b, m) = Priority(h, a, m) /\ Priority(h, b, q) = Priority(h, a, q)
            /\ Priority(h, a, m) \in Nat /\ Priority(h, a, q) \in Nat
        BY <1>13, <1>14, <3>1, <3>2, <3>6, <4>1
      <4>3. Priority(h, a, q) # Priority(h, a, m) /\ Priority(h, a, q) <= Priority(h, a, m)
        BY <3>1, <3>2, <4>1, PriorityDiffers
      <4> QED BY <4>2, <4>3
    <3>9. Good(h, b)
      BY <3>2, <3>6, <3>7, <3>8 DEF Good, IsSelected, Active
    <3> QED BY <1>11, <1>12, <3>9
  <2> QED BY <2>2, <2>3
<1> QED BY <1>15, <1>16

LEMMA NoneGood ==
    ASSUME NEW h, NEW a
    PROVE  NoAnnouncements \in Slots /\ From(a, NoAnnouncements) /\ Good(h, NoAnnouncements)
<1>1. \A p \in Peers : NoAnnouncements[p] = None /\ St(NoAnnouncements, p) = "NONE"
  BY DEF NoAnnouncements, St
<1> QED BY <1>1 DEF NoAnnouncements, Slots, From, Good, IsSelected

\* MakeCompleted keeps the invariants.
LEMMA CompletedGood ==
    ASSUME NEW h \in TxHashes, NEW a \in Slots, Good(h, a), NEW p \in Peers, a[p] # None
    PROVE  LET b == MakeCompleted(h, a, p)
           IN  b \in Slots /\ From(a, b) /\ Good(h, b) /\ St(b, p) \in {"NONE", "COMPLETED"}
<1> DEFINE b == MakeCompleted(h, a, p)
<1> SUFFICES b \in Slots /\ From(a, b) /\ Good(h, b) /\ St(b, p) \in {"NONE", "COMPLETED"}
  OBVIOUS
<1>1. CASE a[p].state = "COMPLETED"
  BY <1>1 DEF MakeCompleted, From, St
<1>2. CASE a[p].state # "COMPLETED" /\ IsOnlyNonCompleted(a, p)
  BY <1>2, NoneGood DEF MakeCompleted, NoAnnouncements, St
<1>3. CASE a[p].state # "COMPLETED" /\ ~IsOnlyNonCompleted(a, p)
  <2>1. PICK q \in Peers \ {p} : a[q] # None /\ a[q].state \in States \ {"COMPLETED"}
    BY <1>3 DEF IsOnlyNonCompleted, Has
  <2>2. St(a, q) \in Active
    BY <2>1 DEF St, Active, States
  <2>3. b = ChangeAndReselect(h, a, p, "COMPLETED")
    BY <1>3 DEF MakeCompleted
  <2> HIDE DEF b
  <2> QED BY <2>1, <2>2, <2>3, ChangeGood
<1> QED BY <1>1, <1>2, <1>3

\* A new announcement keeps the invariants.
LEMMA ReceivedGood ==
    ASSUME NEW h \in TxHashes, NEW a \in Slots, Good(h, a), NEW p \in Peers, a[p] = None,
           NEW n \in Announcement, n.state = "DELAYED"
    PROVE  LET b == [a EXCEPT ![p] = n] IN b \in Slots /\ Good(h, b)
<1> DEFINE b == [a EXCEPT ![p] = n]
<1> SUFFICES b \in Slots /\ Good(h, b)
  OBVIOUS
<1>1. b \in Slots /\ \A q \in Peers : b[q] = IF q = p THEN n ELSE a[q]
  BY DEF Slots
<1>2. n # None
  BY PriorityAssumption
<1> HIDE DEF b
<1>3. \A q \in Peers : St(b, q) = IF q = p THEN "DELAYED" ELSE St(a, q)
  BY <1>1, <1>2 DEF St
<1>4. \A q \in Peers : q # p => Priority(h, b, q) = Priority(h, a, q)
  BY <1>1 DEF Priority
<1>5. St(a, p) = "NONE"
  BY DEF St
<1>6. Good(h, b)
  BY <1>3, <1>4, <1>5 DEF Good, IsSelected, Active
<1> QED BY <1>1, <1>6

\* Deleting the completed announcement of a peer keeps the invariants.
LEMMA EraseGood ==
    ASSUME NEW h \in TxHashes, NEW a \in Slots, Good(h, a), NEW p \in Peers,
           St(a, p) \in {"NONE", "COMPLETED"}
    PROVE  LET b == [a EXCEPT ![p] = None] IN b \in Slots /\ Good(h, b)
<1> DEFINE b == [a EXCEPT ![p] = None]
<1> SUFFICES b \in Slots /\ Good(h, b)
  OBVIOUS
<1>1. b \in Slots /\ \A q \in Peers : b[q] = IF q = p THEN None ELSE a[q]
  BY DEF Slots
<1> HIDE DEF b
<1>2. \A q \in Peers : St(b, q) = IF q = p THEN "NONE" ELSE St(a, q)
  BY <1>1 DEF St
<1>3. \A q \in Peers : q # p => Priority(h, b, q) = Priority(h, a, q)
  BY <1>1 DEF Priority
<1>4. Good(h, b)
  BY <1>2, <1>3 DEF Good, IsSelected, Active
<1> QED BY <1>1, <1>4

\* RequestedTx leaves one announcement selected, the requested one.
LEMMA RequestedGood ==
    ASSUME NEW h \in TxHashes, NEW a \in Slots, Good(h, a), NEW p \in Peers,
           Has(a, p, Candidate), NEW t \in Times
    PROVE  LET c == IF a[p].state = "BEST" THEN a ELSE Unselected(a)
               b == [c EXCEPT ![p].state = "REQUESTED", ![p].time = t]
           IN  b \in Slots /\ Good(h, b)
<1> DEFINE c == IF a[p].state = "BEST" THEN a ELSE Unselected(a)
           b == [c EXCEPT ![p].state = "REQUESTED", ![p].time = t]
<1> SUFFICES b \in Slots /\ Good(h, b)
  OBVIOUS
<1>1. \A q \in Peers : a[q] # None => a[q] \in Announcement /\ St(a, q) = a[q].state
  BY SlotType
<1>2. ASSUME NEW q \in Peers, a[q] # None, NEW s \in States
      PROVE  /\ [a[q] EXCEPT !.state = s] \in Announcement
             /\ [a[q] EXCEPT !.state = s] # None
             /\ [a[q] EXCEPT !.state = s].state = s
  <2>1. a[q] \in Announcement
    BY <1>1, <1>2
  <2>2. [a[q] EXCEPT !.state = s] \in Announcement /\ [a[q] EXCEPT !.state = s].state = s
    BY <2>1 DEF Announcement
  <2> QED BY <2>2, PriorityAssumption
<1>3. Unselected(a) \in Slots
  BY <1>2 DEF Unselected, Slots, Has, States
<1>4. \A q \in Peers : /\ Unselected(a)[q] = None <=> a[q] = None
                       /\ St(Unselected(a), q) \notin IsSelected
  <2> SUFFICES ASSUME NEW q \in Peers
               PROVE  /\ Unselected(a)[q] = None <=> a[q] = None
                      /\ St(Unselected(a), q) \notin IsSelected
    OBVIOUS
  <2>1. Unselected(a)[q] = IF Has(a, q, {"BEST"}) THEN [a[q] EXCEPT !.state = "READY"]
                           ELSE IF Has(a, q, {"REQUESTED"}) THEN [a[q] EXCEPT !.state = "COMPLETED"]
                           ELSE a[q]
    BY DEF Unselected
  <2>2. CASE a[q] = None
    BY <2>1, <2>2 DEF Has, St, IsSelected
  <2>3. CASE a[q] # None /\ a[q].state \in IsSelected
    <3> DEFINE s == IF a[q].state = "BEST" THEN "READY" ELSE "COMPLETED"
    <3>1. Unselected(a)[q] = [a[q] EXCEPT !.state = s]
      BY <2>1, <2>3 DEF Has, IsSelected
    <3>2. s \in States /\ s \notin IsSelected
      BY DEF States, IsSelected
    <3> HIDE DEF s
    <3>3. Unselected(a)[q] # None /\ Unselected(a)[q].state = s
      BY <2>3, <3>1, <3>2, <1>2
    <3> QED BY <2>3, <3>2, <3>3 DEF St
  <2>4. CASE a[q] # None /\ a[q].state \notin IsSelected
    BY <2>1, <2>4 DEF Has, St, IsSelected
  <2> QED BY <2>2, <2>3, <2>4
<1>5. c \in Slots /\ c[p] # None
  BY <1>3, <1>4 DEF Has
<1>6. \A q \in Peers \ {p} : St(c, q) \notin IsSelected
  <2>1. CASE a[p].state = "BEST"
    <3>1. St(a, p) \in IsSelected
      BY <2>1, <1>1 DEF Has, IsSelected
    <3> QED BY <2>1, <3>1 DEF Good
  <2>2. CASE a[p].state # "BEST"
    BY <2>2, <1>4
  <2> QED BY <2>1, <2>2
<1> HIDE DEF c
<1>7. c[p] \in Announcement
  BY <1>5, SlotType
<1> DEFINE n == [c[p] EXCEPT !.state = "REQUESTED", !.time = t]
<1>8. n \in Announcement /\ n.state = "REQUESTED" /\ n # None
  <2>1. n \in Announcement /\ n.state = "REQUESTED"
    BY <1>7 DEF Announcement, States
  <2> QED BY <2>1, PriorityAssumption
<1>9. b = [c EXCEPT ![p] = n]
  BY <1>5 DEF Slots
<1> HIDE DEF n, b
<1>10. b \in Slots /\ \A q \in Peers : b[q] = IF q = p THEN n ELSE c[q]
  BY <1>5, <1>8, <1>9 DEF Slots
<1>11. \A q \in Peers : St(b, q) = IF q = p THEN "REQUESTED" ELSE St(c, q)
  BY <1>8, <1>10 DEF St
<1>12. Good(h, b)
  BY <1>6, <1>11 DEF Good, IsSelected, Active
<1> QED BY <1>10, <1>12
-----------------------------------------------------------------------------
(* The invariants.                                                         *)

\* SanityCheck holds of every transaction.
IInv == TypeOK /\ \A h \in TxHashes : Good(h, m_index[h])

\* All that a step does to the announcements of a transaction keeps IInv.
LEMMA OneTx ==
    ASSUME IInv, NEW h \in TxHashes, NEW b \in Slots, Good(h, b),
           m_index' = [m_index EXCEPT ![h] = b], now' = now
    PROVE  IInv'
<1>1. m_index' \in [TxHashes -> Slots]
  BY DEF IInv, TypeOK, Slots
<1>2. \A g \in TxHashes : m_index'[g] = IF g = h THEN b ELSE m_index[g]
  BY DEF IInv, TypeOK
<1>3. \A g \in TxHashes : Good(g, m_index'[g])
  BY <1>2 DEF IInv
<1>4. TypeOK'
  BY <1>1 DEF IInv, TypeOK, Slots
<1>5. (\A g \in TxHashes : Good(g, m_index[g]))'
  BY <1>3 DEF Good, St, Priority
<1> QED BY <1>4, <1>5 DEF IInv

LEMMA InitInv == Init => IInv
<1> SUFFICES ASSUME Init PROVE IInv
  OBVIOUS
<1>1. \A h \in TxHashes : m_index[h] = NoAnnouncements
  BY DEF Init
<1>2. \A h \in TxHashes : Good(h, m_index[h])
  BY <1>1, NoneGood
<1>3. TypeOK
  BY DEF Init, TypeOK, NoAnnouncements
<1> QED BY <1>2, <1>3 DEF IInv

LEMMA NextInv == IInv /\ [Next]_vars => IInv'
<1> SUFFICES ASSUME IInv, [Next]_vars PROVE IInv'
  OBVIOUS
<1>1. \A h \in TxHashes : m_index[h] \in Slots /\ Good(h, m_index[h])
  BY DEF IInv, TypeOK, Slots
<1>2. m_index \in [TxHashes -> Slots]
  BY DEF IInv, TypeOK, Slots
<1>3. ASSUME NEW p \in Peers, NEW h \in TxHashes, NEW preferred \in BOOLEAN, NEW t \in Times,
             ReceivedInv(p, h, preferred, t)
      PROVE  IInv'
  <2> DEFINE n == [state |-> "DELAYED", preferred |-> preferred, time |-> t]
             b == [m_index[h] EXCEPT ![p] = n]
  <2>1. n \in Announcement /\ n.state = "DELAYED"
    BY DEF Announcement, States
  <2>2. b \in Slots /\ Good(h, b)
    BY <1>1, <1>3, <2>1, ReceivedGood DEF ReceivedInv
  <2>3. m_index' = [m_index EXCEPT ![h] = b] /\ now' = now
    BY <1>3, <1>2 DEF ReceivedInv
  <2> HIDE DEF b, n
  <2> QED BY <2>2, <2>3, OneTx
<1>4. ASSUME NEW p \in Peers, NEW h \in TxHashes, NEW t \in Times, RequestedTx(p, h, t)
      PROVE  IInv'
  <2> DEFINE c == IF m_index[h][p].state = "BEST" THEN m_index[h] ELSE Unselected(m_index[h])
             b == [c EXCEPT ![p].state = "REQUESTED", ![p].time = t]
  <2>1. b \in Slots /\ Good(h, b)
    BY <1>1, <1>4, RequestedGood DEF RequestedTx
  <2>2. m_index' = [m_index EXCEPT ![h] = b] /\ now' = now
    BY <1>4 DEF RequestedTx
  <2> HIDE DEF b, c
  <2> QED BY <2>1, <2>2, OneTx
<1>5. ASSUME NEW p \in Peers, NEW h \in TxHashes, ReceivedResponse(p, h) PROVE IInv'
  <2> DEFINE b == MakeCompleted(h, m_index[h], p)
  <2>1. b \in Slots /\ Good(h, b)
    BY <1>1, <1>5, CompletedGood DEF ReceivedResponse
  <2>2. m_index' = [m_index EXCEPT ![h] = b] /\ now' = now
    BY <1>5, <1>2 DEF ReceivedResponse
  <2> HIDE DEF b
  <2> QED BY <2>1, <2>2, OneTx
<1>6. ASSUME NEW p \in Peers, NEW h \in TxHashes, PromoteOrExpire(p, h) PROVE IInv'
  <2> DEFINE b == IF m_index[h][p].state = "DELAYED" THEN PromoteCandidateReady(h, m_index[h], p)
                  ELSE MakeCompleted(h, m_index[h], p)
  <2>1. m_index[h][p] # None
    BY <1>6 DEF PromoteOrExpire, Due, Has
  <2>2. m_index[h][p].state = "DELAYED" => St(m_index[h], p) = "DELAYED"
    BY <2>1 DEF St
  <2>3. b \in Slots /\ Good(h, b)
    BY <1>1, <2>1, <2>2, CompletedGood, PromoteGood
  <2>4. m_index' = [m_index EXCEPT ![h] = b] /\ now' = now
    BY <1>6, <1>2 DEF PromoteOrExpire
  <2> HIDE DEF b
  <2> QED BY <2>3, <2>4, OneTx
<1>7. ASSUME NEW p \in Peers, NEW h \in TxHashes, Demote(p, h) PROVE IInv'
  <2> DEFINE b == ChangeAndReselect(h, m_index[h], p, "DELAYED")
  <2>1. m_index[h][p] # None
    BY <1>7 DEF Demote, Early, Has
  <2>2. b \in Slots /\ Good(h, b)
    BY <1>1, <2>1, ChangeGood
  <2>3. m_index' = [m_index EXCEPT ![h] = b] /\ now' = now
    BY <1>7, <1>2 DEF Demote
  <2> HIDE DEF b
  <2> QED BY <2>2, <2>3, OneTx
<1>8. ASSUME NEW p \in Peers, DisconnectedPeer(p) PROVE IInv'
  <2> DEFINE b(h) == IF m_index[h][p] = None THEN m_index[h]
                     ELSE [MakeCompleted(h, m_index[h], p) EXCEPT ![p] = None]
  <2>1. ASSUME NEW h \in TxHashes PROVE b(h) \in Slots /\ Good(h, b(h))
    <3>1. CASE m_index[h][p] = None
      BY <1>1, <3>1
    <3>2. CASE m_index[h][p] # None
      <4> DEFINE c == MakeCompleted(h, m_index[h], p)
      <4>1. c \in Slots /\ Good(h, c) /\ St(c, p) \in {"NONE", "COMPLETED"}
        BY <1>1, <3>2, CompletedGood
      <4>2. b(h) = [c EXCEPT ![p] = None]
        BY <3>2
      <4> HIDE DEF c, b
      <4> QED BY <4>1, <4>2, EraseGood
    <3> QED BY <3>1, <3>2
  <2>2. m_index' = [h \in TxHashes |-> b(h)] /\ now' = now
    BY <1>8 DEF DisconnectedPeer
  <2> HIDE DEF b
  <2>3. TypeOK'
    BY <2>1, <2>2 DEF IInv, TypeOK, Slots
  <2>4. \A h \in TxHashes : Good(h, m_index'[h])
    BY <2>1, <2>2
  <2>5. (\A h \in TxHashes : Good(h, m_index[h]))'
    BY <2>4 DEF Good, St, Priority
  <2> QED BY <2>3, <2>5 DEF IInv
<1>9. ASSUME NEW h \in TxHashes, ForgetTxHash(h) PROVE IInv'
  BY <1>9, NoneGood, OneTx DEF ForgetTxHash
<1>10. ASSUME m_index' = m_index, now' \in Times \cup {None} PROVE IInv'
  <2>1. TypeOK'
    BY <1>10 DEF IInv, TypeOK
  <2>2. \A h \in TxHashes : Good(h, m_index'[h])
    BY <1>1, <1>10
  <2>3. (\A h \in TxHashes : Good(h, m_index[h]))'
    BY <2>2 DEF Good, St, Priority
  <2> QED BY <2>1, <2>3 DEF IInv
<1>11. CASE UNCHANGED vars
  BY <1>10, <1>11 DEF vars, IInv, TypeOK
<1>12. ASSUME NEW t \in Times, GetRequestable(t) PROVE IInv'
  BY <1>10, <1>12 DEF GetRequestable
<1>13. CASE Return
  BY <1>10, <1>13 DEF Return
<1> QED BY <1>3, <1>4, <1>5, <1>6, <1>7, <1>8, <1>9, <1>11, <1>12, <1>13 DEF Next

\* SanityCheck passes after every operation and between the steps of
\* SetTimePoint.
THEOREM Invariance == Spec => []IInv
BY InitInv, NextInv, PTL DEF Spec

\* What the tracker holds has its type.
THEOREM TypeCorrect == Spec => []TypeOK
<1>1. IInv => TypeOK
  BY DEF IInv
<1> QED BY <1>1, Invariance, PTL

LEMMA HasSt ==
    ASSUME TypeOK, NEW h \in TxHashes, NEW p \in Peers, NEW S \in SUBSET States
    PROVE  Has(m_index[h], p, S) <=> St(m_index[h], p) \in S
BY DEF Has, St, States

\* SanityCheck: a transaction is never left with COMPLETED announcements
\* only, at most one announcement is selected and one is if any is READY, and
\* the BEST one beats the READY ones.
THEOREM SanitySafe == Spec => [](NotOnlyCompleted /\ OneSelected /\ BestIsBest)
<1>1. ASSUME IInv PROVE NotOnlyCompleted /\ OneSelected /\ BestIsBest
  <2>1. TypeOK /\ \A h \in TxHashes : Good(h, m_index[h])
    BY <1>1 DEF IInv
  <2>2. NotOnlyCompleted
    <3>1. ASSUME NEW h \in TxHashes, NEW p \in Peers, m_index[h][p] # None
          PROVE  \E q \in Peers : Has(m_index[h], q, States \ {"COMPLETED"})
      <4>1. m_index[h] \in Slots
        BY <2>1 DEF TypeOK, Slots
      <4>2. St(m_index[h], p) # "NONE"
        BY <3>1, <4>1, SlotType
      <4>3. PICK q \in Peers : St(m_index[h], q) \in Active
        BY <2>1, <4>2 DEF Good
      <4> QED BY <4>3, <2>1, HasSt DEF Active, States
    <3> QED BY <3>1 DEF NotOnlyCompleted
  <2>3. OneSelected
    <3>1. \A h \in TxHashes, p \in Peers :
            /\ Has(m_index[h], p, IsSelected) <=> St(m_index[h], p) \in IsSelected
            /\ Has(m_index[h], p, {"READY"}) <=> St(m_index[h], p) = "READY"
      BY <2>1, HasSt DEF IsSelected, States
    <3> QED BY <2>1, <3>1 DEF OneSelected, Good
  <2>4. BestIsBest
    <3>1. \A h \in TxHashes, p \in Peers :
            /\ Has(m_index[h], p, {"BEST"}) <=> St(m_index[h], p) = "BEST"
            /\ Has(m_index[h], p, {"READY"}) <=> St(m_index[h], p) = "READY"
      BY <2>1, HasSt DEF States
    <3> QED BY <2>1, <3>1 DEF BestIsBest, Good
  <2> QED BY <2>2, <2>3, <2>4
<1> QED BY <1>1, Invariance, PTL

\* "Cannot have only COMPLETED peer (txhash should have been forgotten
\* already)": MakeCompleted deletes the last announcements in time.
THEOREM NotOnlyCompletedSafe == Spec => []NotOnlyCompleted
BY SanitySafe, PTL

\* What GetRequestable returns is exactly the candidates that are the best
\* choice at that time, for transactions with no request in flight.
THEOREM RequestableSafe == Spec => []RequestableIsBest
<1>1. ASSUME IInv PROVE RequestableIsBest
  <2> SUFFICES ASSUME now # None, NoneDue, NoneEarly, NEW p \in Peers, NEW h \in TxHashes
               PROVE  Has(m_index[h], p, {"BEST"}) <=> Best(p, h, now)
    BY DEF RequestableIsBest
  <2> DEFINE a == m_index[h]
  <2>1. a \in Slots /\ Good(h, a) /\ now \in Int
    BY <1>1, PriorityAssumption DEF IInv, TypeOK, Slots
  <2>2. \A q \in Peers : a[q] # None => a[q].time \in Int /\ a[q].state = St(a, q)
    BY <2>1, SlotType, PriorityAssumption DEF Announcement
  <2>3. \A q \in Peers : St(a, q) \in IsSelectable => a[q] # None /\ a[q].time <= now
    <3>1. \A q \in Peers : ~Early(q, h)
      BY DEF NoneEarly
    <3>2. \A q \in Peers : St(a, q) \in IsSelectable => a[q] # None
      BY DEF St, IsSelectable
    <3> QED BY <2>1, <2>2, <3>1, <3>2 DEF Early, Has
  <2>4. \A q \in Peers : a[q] # None /\ St(a, q) = "DELAYED" => ~(a[q].time <= now)
    <3>1. \A q \in Peers : ~Due(q, h)
      BY DEF NoneDue
    <3> QED BY <2>2, <3>1 DEF Due, Has, IsWaiting
  <2>5. \A q \in Peers, S \in SUBSET States : Has(a, q, S) <=> St(a, q) \in S
    BY <1>1, HasSt DEF IInv
  <2>6. \A q \in Peers : Has(a, q, Candidate) /\ a[q].time <= now <=> St(a, q) \in IsSelectable
    <3> SUFFICES ASSUME NEW q \in Peers
                 PROVE  Has(a, q, Candidate) /\ a[q].time <= now <=> St(a, q) \in IsSelectable
      OBVIOUS
    <3>1. Has(a, q, Candidate) <=> St(a, q) \in Candidate
      BY <2>5 DEF Candidate, States
    <3>2. St(a, q) \in Candidate => a[q] # None
      BY DEF St, Candidate
    <3> QED BY <3>1, <3>2, <2>3, <2>4 DEF Candidate, IsSelectable
  <2>7. /\ Has(a, p, {"BEST"}) <=> St(a, p) = "BEST"
        /\ \A q \in Peers : Has(a, q, {"REQUESTED"}) <=> St(a, q) = "REQUESTED"
    BY <2>5 DEF States
  <2>8. \A q \in Peers : St(a, q) \in IsSelectable => Priority(h, a, q) \in Int
    BY <2>1, <2>3, PriorityType, PriorityAssumption
  <2> HIDE DEF a
  <2>9. Best(p, h, now) <=>
          /\ St(a, p) \in IsSelectable
          /\ \A q \in Peers : St(a, q) # "REQUESTED"
          /\ \A q \in Peers : St(a, q) \in IsSelectable => Priority(h, a, q) <= Priority(h, a, p)
    <3>1. Best(p, h, now) <=>
            /\ Has(a, p, Candidate) /\ a[p].time <= now
            /\ \A q \in Peers : ~Has(a, q, {"REQUESTED"})
            /\ \A q \in Peers : Has(a, q, Candidate) /\ a[q].time <= now
                                  => Priority(h, a, q) <= Priority(h, a, p)
      BY DEF Best, a
    <3> QED BY <3>1, <2>6, <2>7
  <2>10. ASSUME St(a, p) = "BEST" PROVE Best(p, h, now)
    <3>1. \A q \in Peers : St(a, q) \in IsSelected => q = p
      BY <2>1, <2>10 DEF Good, IsSelected
    <3>2. \A q \in Peers : St(a, q) # "REQUESTED"
      BY <3>1, <2>10 DEF IsSelected
    <3>3. ASSUME NEW q \in Peers, St(a, q) \in IsSelectable
          PROVE  Priority(h, a, q) <= Priority(h, a, p)
      <4>1. CASE St(a, q) = "BEST"
        <5>1. q = p
          BY <4>1, <3>1 DEF IsSelected
        <5> QED BY <5>1, <2>8, <3>3
      <4>2. CASE St(a, q) = "READY"
        <5>1. Priority(h, a, p) > Priority(h, a, q)
          BY <4>2, <2>1, <2>10 DEF Good
        <5>2. Priority(h, a, p) \in Int /\ Priority(h, a, q) \in Int
          BY <2>8, <2>10, <3>3 DEF IsSelectable
        <5> QED BY <5>1, <5>2
      <4> QED BY <3>3, <4>1, <4>2 DEF IsSelectable
    <3> QED BY <2>9, <2>10, <3>2, <3>3 DEF IsSelectable
  <2>11. ASSUME Best(p, h, now), St(a, p) # "BEST" PROVE FALSE
    <3>1. St(a, p) = "READY"
      BY <2>9, <2>11 DEF IsSelectable
    <3>2. PICK r \in Peers : St(a, r) \in IsSelected
      BY <3>1, <2>1 DEF Good
    <3>3. St(a, r) = "BEST"
      BY <3>2, <2>9, <2>11 DEF IsSelected
    <3>4. Priority(h, a, r) > Priority(h, a, p)
      BY <3>1, <3>3, <2>1 DEF Good
    <3>5. Priority(h, a, r) <= Priority(h, a, p)
      BY <3>3, <2>9, <2>11 DEF IsSelectable
    <3>6. Priority(h, a, r) \in Int /\ Priority(h, a, p) \in Int
      BY <3>1, <3>3, <2>8 DEF IsSelectable
    <3> QED BY <3>4, <3>5, <3>6
  <2> QED BY <2>7, <2>10, <2>11 DEF a
<1> QED BY <1>1, Invariance, PTL
-----------------------------------------------------------------------------
(* What txrequest.h says of each operation.                                *)

LEMMA ShownOf ==
    ASSUME NEW x \in Announcement
    PROVE  /\ x # None /\ Shown(x) # None
           /\ Shown(x) = [state |-> IF x.state \in Candidate THEN "CANDIDATE" ELSE x.state,
                          preferred |-> x.preferred, time |-> x.time]
<1>1. x # None
  BY PriorityAssumption
<1>2. /\ x.state \in States /\ x.preferred \in BOOLEAN /\ x.time \in Times
      /\ x = [state |-> x.state, preferred |-> x.preferred, time |-> x.time]
      /\ [x EXCEPT !.state = "CANDIDATE"]
           = [state |-> "CANDIDATE", preferred |-> x.preferred, time |-> x.time]
  BY DEF Announcement
<1>3. CASE x.state \in Candidate
  <2>1. Shown(x) = [state |-> "CANDIDATE", preferred |-> x.preferred, time |-> x.time]
    BY <1>1, <1>2, <1>3 DEF Shown
  <2>2. Shown(x) \in [state : {"CANDIDATE"}, preferred : BOOLEAN, time : Times]
    BY <1>2, <2>1
  <2> QED BY <1>1, <1>3, <2>1, <2>2, PriorityAssumption
<1>4. CASE x.state \notin Candidate
  <2>1. Shown(x) = x
    BY <1>4 DEF Shown
  <2> QED BY <1>1, <1>2, <1>4, <2>1
<1> QED BY <1>3, <1>4

\* Candidates move among their states unseen.
LEMMA ShownMoves ==
    ASSUME NEW x \in Announcement, x.state \in Candidate, NEW s \in Candidate
    PROVE  Shown([x EXCEPT !.state = s]) = Shown(x)
<1> DEFINE y == [x EXCEPT !.state = s]
<1>1. y \in Announcement /\ y.state = s /\ y.preferred = x.preferred /\ y.time = x.time
  BY DEF Announcement, Candidate, States
<1> HIDE DEF y
<1> QED BY <1>1, ShownOf DEF y

LEMMA ShownCompleted ==
    ASSUME NEW x \in Announcement
    PROVE  Shown([x EXCEPT !.state = "COMPLETED"]) = [Shown(x) EXCEPT !.state = "COMPLETED"]
<1> DEFINE y == [x EXCEPT !.state = "COMPLETED"]
<1>1. y \in Announcement /\ y.state = "COMPLETED" /\ y.preferred = x.preferred /\ y.time = x.time
  BY DEF Announcement, States
<1> HIDE DEF y
<1>2. Shown(y) = [state |-> "COMPLETED", preferred |-> x.preferred, time |-> x.time]
  BY <1>1, ShownOf DEF Candidate
<1>3. [Shown(x) EXCEPT !.state = "COMPLETED"]
        = [state |-> "COMPLETED", preferred |-> x.preferred, time |-> x.time]
  BY ShownOf
<1> QED BY <1>2, <1>3 DEF y

LEMMA ShownNone == Shown(None) = None
BY DEF Shown

LEMMA PromoteShown ==
    ASSUME NEW h \in TxHashes, NEW a \in Slots, NEW p \in Peers, St(a, p) = "DELAYED"
    PROVE  \A q \in Peers : Shown(PromoteCandidateReady(h, a, p)[q]) = Shown(a[q])
<1> DEFINE r == SetState(a, p, "READY")
           next == NextTo(h, r, p)
           b == PromoteCandidateReady(h, a, p)
<1> SUFFICES ASSUME NEW q \in Peers PROVE Shown(b[q]) = Shown(a[q])
  OBVIOUS
<1>1. a[p] \in Announcement /\ a[p] # None /\ a[p].state = "DELAYED"
  BY SlotType
<1>2. r \in Slots /\ r[p] # None /\ r[p].state = "READY"
  <2>1. IsSet(a, r, p, "READY")
    BY <1>1, SetStateEffect DEF States
  <2> HIDE DEF r
  <2> QED BY <2>1 DEF IsSet, St
<1>3. \A x \in Peers : r[x] = IF x = p THEN [a[p] EXCEPT !.state = "READY"] ELSE a[x]
  BY DEF SetState, Slots
<1>4. \A x \in Peers : Shown(r[x]) = Shown(a[x])
  BY <1>1, <1>3, ShownMoves DEF Candidate
<1>5. \A x \in Peers : r[x] # None => r[x] \in Announcement /\ r[x].state \in States
  BY <1>2, SlotType DEF Announcement
<1>6. /\ StateOrder["DELAYED"] = 0 /\ StateOrder["READY"] = 1 /\ StateOrder["BEST"] = 2
      /\ StateOrder["REQUESTED"] = 3 /\ StateOrder["COMPLETED"] = 4
  BY DEF StateOrder, States
<1>7. \A x, y \in next : x \in Peers /\ r[x] # None /\ ~Before(h, r, x, y)
  BY DEF NextTo
<1>8. CASE \A x \in next : r[x].state = "COMPLETED"
  <2>1. b = SetState(r, p, "BEST")
    BY <1>8 DEF PromoteCandidateReady
  <2> HIDE DEF r, b
  <2>2. b[q] = IF q = p THEN [r[p] EXCEPT !.state = "BEST"] ELSE r[q]
    BY <2>1, <1>2 DEF SetState, Slots
  <2>3. Shown([r[p] EXCEPT !.state = "BEST"]) = Shown(r[p])
    BY <1>2, <1>5, ShownMoves DEF Candidate
  <2> QED BY <2>2, <2>3, <1>4
<1>9. CASE /\ ~\A x \in next : r[x].state = "COMPLETED"
           /\ \E x \in next : r[x].state = "BEST" /\ Priority(h, r, p) > Priority(h, r, x)
  <2>1. PICK x \in next : r[x].state = "BEST"
    BY <1>9
  <2>2. b = [y \in Peers |-> IF y = p THEN [r[y] EXCEPT !.state = "BEST"]
                             ELSE IF y \in next THEN [r[y] EXCEPT !.state = "READY"]
                             ELSE r[y]]
    BY <1>9 DEF PromoteCandidateReady
  <2> HIDE DEF r, b, next
  <2>3. \A y \in next : r[y].state = "BEST"
    BY <2>1, <1>5, <1>6, <1>7 DEF Before, States
  <2>4. b[q] = IF q = p THEN [r[q] EXCEPT !.state = "BEST"]
               ELSE IF q \in next THEN [r[q] EXCEPT !.state = "READY"] ELSE r[q]
    BY <2>2
  <2>5. Shown([r[p] EXCEPT !.state = "BEST"]) = Shown(r[p])
    BY <1>2, <1>5, ShownMoves DEF Candidate
  <2>6. ASSUME q \in next PROVE Shown([r[q] EXCEPT !.state = "READY"]) = Shown(r[q])
    <3>1. r[q] \in Announcement /\ r[q].state \in Candidate
      BY <2>3, <2>6, <1>5, <1>7 DEF Candidate
    <3> QED BY <3>1, ShownMoves DEF Candidate
  <2> QED BY <2>4, <2>5, <2>6, <1>4
<1>10. CASE /\ ~\A x \in next : r[x].state = "COMPLETED"
            /\ ~\E x \in next : r[x].state = "BEST" /\ Priority(h, r, p) > Priority(h, r, x)
  <2>1. b = r
    BY <1>10 DEF PromoteCandidateReady
  <2> QED BY <2>1, <1>4
<1> QED BY <1>8, <1>9, <1>10

LEMMA ChangeShown ==
    ASSUME NEW h \in TxHashes, NEW a \in Slots, NEW p \in Peers, a[p] # None, NEW s \in States,
           NEW b, b = ChangeAndReselect(h, a, p, s)
    PROVE  /\ \A q \in Peers \ {p} : Shown(b[q]) = Shown(a[q])
           /\ Shown(b[p]) = Shown([a[p] EXCEPT !.state = s])
<1> DEFINE prev == {q \in PrevTo(h, a, p) : a[p].state \in IsSelected /\ a[q].state = "READY"}
           c == [q \in Peers |-> IF q \in prev THEN [a[q] EXCEPT !.state = "BEST"] ELSE a[q]]
<1>1. \A q \in prev : q \in Peers /\ a[q] # None /\ a[q].state = "READY"
  BY DEF PrevTo
<1>2. \A q \in Peers : a[q] # None => a[q] \in Announcement
  BY SlotType
<1>3. b = SetState(c, p, s)
  BY DEF ChangeAndReselect
<1>4. \A q \in Peers : c[q] = IF q \in prev THEN [a[q] EXCEPT !.state = "BEST"] ELSE a[q]
  OBVIOUS
<1>5. \A q \in Peers : b[q] = IF q = p THEN [c[p] EXCEPT !.state = s] ELSE c[q]
  BY <1>3 DEF SetState
<1> HIDE DEF prev, c
<1>6. ASSUME NEW q \in Peers \ {p} PROVE Shown(b[q]) = Shown(a[q])
  BY <1>1, <1>2, <1>4, <1>5, ShownMoves DEF Candidate
<1>7. b[p] = [a[p] EXCEPT !.state = s]
  <2>1. a[p] \in Announcement
    BY <1>2
  <2> QED BY <2>1, <1>4, <1>5 DEF Announcement
<1> QED BY <1>6, <1>7
\* The announcements of one transaction, as txrequest.h tells them apart.
ShownSlots(a) == [p \in Peers |-> Shown(a[p])]

LEMMA ShownActive ==
    ASSUME NEW a \in Slots, NEW q \in Peers
    PROVE  /\ Shown(a[q]) = None <=> a[q] = None
           /\ Shown(a[q]) # None /\ Shown(a[q]).state # "COMPLETED"
                <=> Has(a, q, States \ {"COMPLETED"})
<1>1. CASE a[q] = None
  BY <1>1, ShownNone DEF Has
<1>2. CASE a[q] # None
  <2>1. a[q] \in Announcement /\ a[q].state \in States
    BY <1>2, SlotType DEF Announcement
  <2>2. Shown(a[q]) # None
    BY <2>1, ShownOf
  <2>3. Shown(a[q]).state = IF a[q].state \in Candidate THEN "CANDIDATE" ELSE a[q].state
    BY <2>1, ShownOf
  <2> QED BY <1>2, <2>1, <2>2, <2>3 DEF Has, Candidate, States
<1> QED BY <1>1, <1>2

LEMMA CompletedShown ==
    ASSUME NEW h \in TxHashes, NEW a \in Slots, NEW p \in Peers, a[p] # None,
           a[p].state # "COMPLETED"
    PROVE  ShownSlots(MakeCompleted(h, a, p))
             = Abstract!Purged([ShownSlots(a) EXCEPT ![p].state = "COMPLETED"])
<1> DEFINE s == [ShownSlots(a) EXCEPT ![p].state = "COMPLETED"]
           b == MakeCompleted(h, a, p)
           x == [Shown(a[p]) EXCEPT !.state = "COMPLETED"]
<1>1. a[p] \in Announcement
  BY SlotType
<1>2. s = [q \in Peers |-> IF q = p THEN x ELSE Shown(a[q])]
  BY DEF ShownSlots
<1>3. x = Shown([a[p] EXCEPT !.state = "COMPLETED"])
  BY <1>1, ShownCompleted
<1>4. x.state = "COMPLETED"
  BY <1>1, ShownOf
<1> HIDE DEF s, b, x
<1>5. (\E q \in Peers : s[q] # None /\ s[q].state # "COMPLETED") <=> ~IsOnlyNonCompleted(a, p)
  <2>1. \A q \in Peers \ {p} : s[q] # None /\ s[q].state # "COMPLETED"
                                 <=> Has(a, q, States \ {"COMPLETED"})
    BY <1>2, ShownActive
  <2>2. s[p].state = "COMPLETED"
    BY <1>2, <1>4
  <2> QED BY <2>1, <2>2 DEF IsOnlyNonCompleted
<1>6. CASE IsOnlyNonCompleted(a, p)
  <2>1. b = NoAnnouncements
    BY <1>6 DEF b, MakeCompleted
  <2>2. ShownSlots(b) = [q \in Peers |-> None]
    BY <2>1, ShownNone DEF ShownSlots, NoAnnouncements
  <2>3. Abstract!Purged(s) = [q \in Peers |-> None]
    BY <1>5, <1>6 DEF Abstract!Purged
  <2> QED BY <2>2, <2>3 DEF s, b
<1>7. CASE ~IsOnlyNonCompleted(a, p)
  <2>1. b = ChangeAndReselect(h, a, p, "COMPLETED")
    BY <1>7 DEF b, MakeCompleted
  <2>2. /\ \A q \in Peers \ {p} : Shown(b[q]) = Shown(a[q])
        /\ Shown(b[p]) = x
    <3>1. "COMPLETED" \in States
      BY DEF States
    <3> QED BY <2>1, <1>3, <3>1, ChangeShown
  <2>3. ShownSlots(b) = s
    BY <1>2, <2>2 DEF ShownSlots
  <2>4. Abstract!Purged(s) = s
    BY <1>5, <1>7 DEF Abstract!Purged
  <2> QED BY <2>3, <2>4 DEF s, b
<1> QED BY <1>6, <1>7

\* What DisconnectedPeer does to one transaction.
LEMMA DisconnectedShown ==
    ASSUME NEW h \in TxHashes, NEW a \in Slots, Good(h, a), NEW p \in Peers
    PROVE  ShownSlots(IF a[p] = None THEN a ELSE [MakeCompleted(h, a, p) EXCEPT ![p] = None])
             = Abstract!Purged([ShownSlots(a) EXCEPT ![p] = None])
<1> DEFINE d == [ShownSlots(a) EXCEPT ![p] = None]
           b == IF a[p] = None THEN a ELSE [MakeCompleted(h, a, p) EXCEPT ![p] = None]
<1>1. d = [q \in Peers |-> IF q = p THEN None ELSE Shown(a[q])]
  BY DEF ShownSlots
<1> HIDE DEF d
<1>2. (\E q \in Peers : d[q] # None /\ d[q].state # "COMPLETED") <=> ~IsOnlyNonCompleted(a, p)
  <2>1. \A q \in Peers \ {p} : d[q] # None /\ d[q].state # "COMPLETED"
                                 <=> Has(a, q, States \ {"COMPLETED"})
    BY <1>1, ShownActive
  <2>2. d[p] = None
    BY <1>1
  <2> QED BY <2>1, <2>2 DEF IsOnlyNonCompleted
<1>3. ASSUME NEW c \in Slots, \A q \in Peers \ {p} : Shown(c[q]) = Shown(a[q])
      PROVE  ShownSlots([c EXCEPT ![p] = None]) = d
  <2>1. \A q \in Peers : [c EXCEPT ![p] = None][q] = IF q = p THEN None ELSE c[q]
    BY DEF Slots
  <2> QED BY <1>1, <1>3, <2>1, ShownNone DEF ShownSlots
<1>4. ASSUME a[p] = None \/ a[p].state = "COMPLETED", NEW q \in Peers, q # p, a[q] # None
      PROVE  ~IsOnlyNonCompleted(a, p)
  <2>1. St(a, q) # "NONE"
    BY <1>4, SlotType
  <2>2. PICK r \in Peers : St(a, r) \in Active
    BY <2>1 DEF Good
  <2>3. r # p
    BY <1>4, <2>2 DEF St, Active
  <2>4. Has(a, r, States \ {"COMPLETED"})
    BY <2>2 DEF Has, St, Active, States
  <2> QED BY <2>3, <2>4 DEF IsOnlyNonCompleted
<1>5. IsOnlyNonCompleted(a, p) => Abstract!Purged(d) = [q \in Peers |-> None]
  BY <1>2 DEF Abstract!Purged
<1>6. ~IsOnlyNonCompleted(a, p) => Abstract!Purged(d) = d
  BY <1>2 DEF Abstract!Purged
<1>7. CASE a[p] = None \/ a[p].state = "COMPLETED"
  <2>1. b = [a EXCEPT ![p] = None]
    BY <1>7 DEF MakeCompleted, Slots
  <2> HIDE DEF b
  <2>2. ShownSlots(b) = d
    BY <1>3, <2>1
  <2>3. CASE IsOnlyNonCompleted(a, p)
    <3>1. \A q \in Peers \ {p} : a[q] = None
      BY <1>4, <1>7, <2>3
    <3>2. d = [q \in Peers |-> None]
      BY <1>1, <3>1, ShownNone
    <3> QED BY <1>5, <2>2, <2>3, <3>2 DEF b, d
  <2>4. CASE ~IsOnlyNonCompleted(a, p)
    BY <1>6, <2>2, <2>4 DEF b, d
  <2> QED BY <2>3, <2>4
<1>8. CASE a[p] # None /\ a[p].state # "COMPLETED" /\ IsOnlyNonCompleted(a, p)
  <2>1. b = [NoAnnouncements EXCEPT ![p] = None]
    BY <1>8 DEF MakeCompleted
  <2>2. \A q \in Peers : b[q] = None
    BY <2>1 DEF NoAnnouncements
  <2> HIDE DEF b
  <2>3. ShownSlots(b) = [q \in Peers |-> None]
    BY <2>2, ShownNone DEF ShownSlots
  <2> QED BY <1>5, <1>8, <2>3 DEF b, d
<1>9. CASE a[p] # None /\ a[p].state # "COMPLETED" /\ ~IsOnlyNonCompleted(a, p)
  <2> DEFINE c == ChangeAndReselect(h, a, p, "COMPLETED")
  <2>1. b = [c EXCEPT ![p] = None]
    BY <1>9 DEF MakeCompleted
  <2>2. \A q \in Peers \ {p} : Shown(c[q]) = Shown(a[q])
    <3>1. "COMPLETED" \in States
      BY DEF States
    <3> HIDE DEF c
    <3>2. c = ChangeAndReselect(h, a, p, "COMPLETED")
      BY DEF c
    <3>3. a[p] # None
      BY <1>9
    <3>4. /\ \A q \in Peers \ {p} : Shown(c[q]) = Shown(a[q])
          /\ Shown(c[p]) = Shown([a[p] EXCEPT !.state = "COMPLETED"])
      BY <3>1, <3>2, <3>3, ChangeShown
    <3> QED BY <3>4
  <2>3. c \in Slots
    <3>1. c = MakeCompleted(h, a, p)
      BY <1>9 DEF MakeCompleted
    <3> HIDE DEF c
    <3> QED BY <1>9, <3>1, CompletedGood
  <2> HIDE DEF b, c
  <2> QED BY <1>3, <1>6, <1>9, <2>1, <2>2, <2>3 DEF b, d
<1> QED BY <1>7, <1>8, <1>9

\* What RequestedTx does to one transaction.
RequestedSlots(s, p, t) ==
    [q \in Peers |-> IF q = p THEN [s[p] EXCEPT !.state = "REQUESTED", !.time = t]
                     ELSE IF s[q] # None /\ s[q].state = "REQUESTED"
                     THEN [s[q] EXCEPT !.state = "COMPLETED"] ELSE s[q]]

LEMMA RequestedShown ==
    ASSUME NEW h \in TxHashes, NEW a \in Slots, Good(h, a), NEW p \in Peers,
           Has(a, p, Candidate), NEW t \in Times,
           NEW b, b = [IF a[p].state = "BEST" THEN a ELSE Unselected(a)
                         EXCEPT ![p].state = "REQUESTED", ![p].time = t],
           NEW s, s = ShownSlots(a)
    PROVE  ShownSlots(b) = RequestedSlots(s, p, t)
<1> DEFINE c == IF a[p].state = "BEST" THEN a ELSE Unselected(a)
           x == [s[p] EXCEPT !.state = "REQUESTED", !.time = t]
           e(q) == IF s[q] # None /\ s[q].state = "REQUESTED"
                   THEN [s[q] EXCEPT !.state = "COMPLETED"] ELSE s[q]
<1> SUFFICES ShownSlots(b) = [q \in Peers |-> IF q = p THEN x ELSE e(q)]
  BY DEF RequestedSlots
<1>1. \A q \in Peers : /\ a[q] # None => a[q] \in Announcement
                       /\ s[q] = Shown(a[q])
  BY SlotType DEF ShownSlots
<1>2. a[p] \in Announcement /\ a[p].state \in Candidate
  BY <1>1 DEF Has
<1>3. \A q \in Peers : s[q] # None /\ s[q].state = "REQUESTED" <=> Has(a, q, {"REQUESTED"})
  <2> SUFFICES ASSUME NEW q \in Peers
               PROVE  s[q] # None /\ s[q].state = "REQUESTED" <=> Has(a, q, {"REQUESTED"})
    OBVIOUS
  <2>1. CASE a[q] = None
    BY <2>1, <1>1, ShownNone DEF Has
  <2>2. CASE a[q] # None
    <3>1. s[q] # None /\ s[q].state = IF a[q].state \in Candidate THEN "CANDIDATE" ELSE a[q].state
      BY <2>2, <1>1, ShownOf
    <3> QED BY <2>2, <3>1 DEF Has, Candidate
  <2> QED BY <2>1, <2>2
<1>4. b \in Slots /\ c \in [Peers -> Announcement \cup {None}]
  <2>1. b \in Slots
    BY RequestedGood
  <2>2. Unselected(a) \in [Peers -> Announcement \cup {None}]
    <3>1. ASSUME NEW q \in Peers, Has(a, q, {"BEST", "REQUESTED"}), NEW z \in {"READY", "COMPLETED"}
          PROVE  [a[q] EXCEPT !.state = z] \in Announcement
      BY <1>1, <3>1 DEF Has, Announcement, States
    <3>2. ASSUME NEW q \in Peers PROVE a[q] \in Announcement \cup {None}
      BY <1>1
    <3> QED BY <3>1, <3>2 DEF Unselected, Has
  <2> QED BY <2>1, <2>2 DEF Slots
<1>5. \A q \in Peers \ {p} : b[q] = c[q]
  BY <1>4
<1>6. ASSUME NEW q \in Peers \ {p} PROVE Shown(b[q]) = e(q)
  <2>1. CASE a[p].state = "BEST"
    <3>1. ~Has(a, q, {"REQUESTED"})
      BY <2>1, <1>2 DEF Good, Has, St, IsSelected
    <3>2. b[q] = a[q]
      BY <2>1, <1>5
    <3> HIDE DEF c
    <3> QED BY <3>1, <3>2, <1>1, <1>3
  <2>2. CASE a[p].state # "BEST"
    <3>1. b[q] = IF Has(a, q, {"BEST"}) THEN [a[q] EXCEPT !.state = "READY"]
                 ELSE IF Has(a, q, {"REQUESTED"}) THEN [a[q] EXCEPT !.state = "COMPLETED"]
                 ELSE a[q]
      BY <2>2, <1>5 DEF Unselected
    <3> HIDE DEF c
    <3>2. CASE Has(a, q, {"BEST"})
      <4>1. a[q] \in Announcement /\ a[q].state \in Candidate /\ ~Has(a, q, {"REQUESTED"})
        BY <3>2, <1>1 DEF Has, Candidate
      <4>2. Shown([a[q] EXCEPT !.state = "READY"]) = Shown(a[q])
        BY <4>1, ShownMoves DEF Candidate
      <4> QED BY <3>1, <3>2, <4>1, <4>2, <1>1, <1>3
    <3>3. CASE Has(a, q, {"REQUESTED"})
      <4>1. a[q] \in Announcement /\ ~Has(a, q, {"BEST"})
        BY <3>3, <1>1 DEF Has
      <4>2. Shown([a[q] EXCEPT !.state = "COMPLETED"]) = [Shown(a[q]) EXCEPT !.state = "COMPLETED"]
        BY <4>1, ShownCompleted
      <4> QED BY <3>1, <3>3, <4>1, <4>2, <1>1, <1>3
    <3>4. CASE ~Has(a, q, {"BEST"}) /\ ~Has(a, q, {"REQUESTED"})
      BY <3>1, <3>4, <1>1, <1>3
    <3> QED BY <3>2, <3>3, <3>4
  <2> QED BY <2>1, <2>2
<1>7. Shown(b[p]) = x
  <2>1. c[p] # None /\ c[p].preferred = a[p].preferred
    BY <1>2 DEF Unselected, Has, Announcement, Candidate
  <2>2. c[p] \in Announcement
    BY <2>1, <1>4
  <2>3. b[p] = [state |-> "REQUESTED", preferred |-> a[p].preferred, time |-> t]
    BY <1>4, <2>1, <2>2 DEF Announcement
  <2>4. b[p] \in Announcement
    BY <1>2, <2>3 DEF Announcement, States
  <2> HIDE DEF c
  <2>5. Shown(b[p]) = [state |-> "REQUESTED", preferred |-> a[p].preferred, time |-> t]
    BY <2>3, <2>4, ShownOf DEF Candidate
  <2>6. s[p] = [state |-> "CANDIDATE", preferred |-> a[p].preferred, time |-> a[p].time]
    BY <1>1, <1>2, ShownOf
  <2>7. x = [state |-> "REQUESTED", preferred |-> a[p].preferred, time |-> t]
    <3> DEFINE y == [s[p] EXCEPT !.state = "REQUESTED"]
    <3>1. y = [state |-> "REQUESTED", preferred |-> a[p].preferred, time |-> a[p].time]
      BY <2>6
    <3>2. x = [y EXCEPT !.time = t]
      OBVIOUS
    <3> HIDE DEF y, x
    <3> QED BY <3>1, <3>2
  <2> QED BY <2>5, <2>7
<1> HIDE DEF x, e
<1> QED BY <1>6, <1>7 DEF ShownSlots
LEMMA StatusOf == \A h \in TxHashes : Status[h] = ShownSlots(m_index[h])
BY DEF Status, ShownSlots

\* A step that changes the announcements of one transaction.
LEMMA StatusChanges ==
    ASSUME IInv, NEW h \in TxHashes, NEW b, m_index' = [m_index EXCEPT ![h] = b]
    PROVE  Status' = [Status EXCEPT ![h] = ShownSlots(b)]
<1>1. \A g \in TxHashes : m_index'[g] = IF g = h THEN b ELSE m_index[g]
  BY DEF IInv, TypeOK
<1>2. Status' = [g \in TxHashes |-> [p \in Peers |-> Shown(m_index'[g][p])]]
  BY DEF Status, Shown
<1>3. Status' = [g \in TxHashes |-> IF g = h THEN ShownSlots(b) ELSE Status[g]]
  <2>1. \A g \in TxHashes :
          [p \in Peers |-> Shown(m_index'[g][p])] = IF g = h THEN ShownSlots(b) ELSE Status[g]
    BY <1>1 DEF Status, ShownSlots
  <2> QED BY <1>2, <2>1
<1> QED BY <1>3 DEF Status

LEMMA InitShown == Init => Abstract!Init
<1> SUFFICES ASSUME Init PROVE Abstract!Init
  OBVIOUS
<1>1. \A h \in TxHashes, p \in Peers : Shown(m_index[h][p]) = None
  BY ShownNone DEF Init, NoAnnouncements
<1>2. Status = [h \in TxHashes |-> [p \in Peers |-> None]]
  BY <1>1 DEF Status
<1> QED BY <1>2 DEF Init, Abstract!Init

LEMMA NextShown == IInv /\ [Next]_vars => [Abstract!Next]_(Abstract!reqVars)
<1> SUFFICES ASSUME IInv, [Next]_vars PROVE [Abstract!Next]_(Abstract!reqVars)
  OBVIOUS
<1>1. \A h \in TxHashes : m_index[h] \in Slots /\ Good(h, m_index[h]) /\ Status[h] = ShownSlots(m_index[h])
  BY StatusOf DEF IInv, TypeOK, Slots
<1>2. m_index \in [TxHashes -> Slots]
  BY DEF IInv, TypeOK, Slots
<1>3. \A h \in TxHashes, p \in Peers : Status[h][p] = Shown(m_index[h][p])
  BY DEF Status
<1>4. ASSUME m_index' = m_index PROVE Status' = Status
  BY <1>4 DEF Status, Shown
<1>5. ASSUME NEW h \in TxHashes, NEW b, m_index' = [m_index EXCEPT ![h] = b], now' = now,
             ShownSlots(b) = ShownSlots(m_index[h])
      PROVE  UNCHANGED Abstract!reqVars
  <2>1. Status' = [Status EXCEPT ![h] = ShownSlots(m_index[h])]
    BY <1>5, StatusChanges
  <2>2. Status' = Status
    BY <1>1, <2>1 DEF Status
  <2> QED BY <1>5, <2>2 DEF Abstract!reqVars
<1>6. ASSUME NEW p \in Peers, NEW h \in TxHashes, NEW b, m_index[h][p] # None,
             m_index[h][p].state # "COMPLETED", b = MakeCompleted(h, m_index[h], p),
             m_index' = [m_index EXCEPT ![h] = b]
      PROVE  Abstract!Complete(p, h)
  <2>1. Status' = [Status EXCEPT ![h] = Abstract!Purged([Status[h] EXCEPT ![p].state = "COMPLETED"])]
    <3>1. Status' = [Status EXCEPT ![h] = ShownSlots(b)]
      BY <1>6, StatusChanges
    <3>2. ShownSlots(b) = Abstract!Purged([ShownSlots(m_index[h]) EXCEPT ![p].state = "COMPLETED"])
      BY <1>1, <1>6, CompletedShown, Zenon
    <3> QED BY <1>1, <3>1, <3>2, Zenon
  <2>2. Status[h][p] # None /\ Status[h][p].state # "COMPLETED"
    <3>1. m_index[h][p] \in Announcement /\ m_index[h][p].state \in States
      BY <1>1, <1>6, SlotType DEF Announcement
    <3>2. Has(m_index[h], p, States \ {"COMPLETED"})
      BY <1>6, <3>1 DEF Has
    <3> QED BY <1>1, <1>3, <3>2, ShownActive
  <2> QED BY <2>1, <2>2 DEF Abstract!Complete
<1>7. ASSUME NEW p \in Peers, NEW h \in TxHashes, NEW preferred \in BOOLEAN, NEW t \in Times,
             ReceivedInv(p, h, preferred, t)
      PROVE  Abstract!Next
  <2> DEFINE n == [state |-> "DELAYED", preferred |-> preferred, time |-> t]
             m == [state |-> "CANDIDATE", preferred |-> preferred, time |-> t]
             b == [m_index[h] EXCEPT ![p] = n]
  <2>1. n \in Announcement /\ Shown(n) = m
    <3>1. n \in Announcement
      BY DEF Announcement, States
    <3> QED BY <3>1, ShownOf DEF Candidate
  <2>2. now = None /\ now' = now /\ m_index[h][p] = None /\ m_index' = [m_index EXCEPT ![h] = b]
    BY <1>2, <1>7 DEF ReceivedInv
  <2> HIDE DEF n, m
  <2>3. ShownSlots(b) = [Status[h] EXCEPT ![p] = m]
    BY <1>1, <2>1 DEF ShownSlots, Slots
  <2> HIDE DEF b
  <2>4. Status' = [Status EXCEPT ![h] = [Status[h] EXCEPT ![p] = m]]
    BY <2>2, <2>3, StatusChanges
  <2>5. Status' = [Status EXCEPT ![h][p] = m]
    BY <2>4 DEF Status
  <2>6. Status[h][p] = None
    BY <2>2, <1>3, ShownNone
  <2>7. Abstract!ReceivedInv(p, h, preferred, t)
    BY <2>2, <2>5, <2>6 DEF Abstract!ReceivedInv, m
  <2> QED BY <2>7 DEF Abstract!Next
<1>8. ASSUME NEW p \in Peers, NEW h \in TxHashes, NEW t \in Times, RequestedTx(p, h, t)
      PROVE  Abstract!Next
  <2> DEFINE a == m_index[h]
             c == IF a[p].state = "BEST" THEN a ELSE Unselected(a)
             b == [c EXCEPT ![p].state = "REQUESTED", ![p].time = t]
             s == ShownSlots(a)
             e == RequestedSlots(s, p, t)
  <2>1. now = None /\ now' = now /\ Has(a, p, Candidate) /\ m_index' = [m_index EXCEPT ![h] = b]
    BY <1>8 DEF RequestedTx
  <2>2. ShownSlots(b) = e
    <3>1. a \in Slots /\ Good(h, a)
      BY <1>1
    <3> HIDE DEF a, s
    <3>2. b = [IF a[p].state = "BEST" THEN a ELSE Unselected(a)
                 EXCEPT ![p].state = "REQUESTED", ![p].time = t]
      OBVIOUS
    <3>3. s = ShownSlots(a)
      BY DEF s
    <3> HIDE DEF b
    <3> QED BY <2>1, <3>1, <3>2, <3>3, RequestedShown
  <2>3. s = Status[h]
    BY <1>1
  <2> HIDE DEF b, c
  <2>4. Status' = [Status EXCEPT ![h] = e]
    BY <2>1, <2>2, StatusChanges
  <2>5. Status[h][p] # None /\ Status[h][p].state = "CANDIDATE"
    <3>1. a[p] \in Announcement /\ a[p].state \in Candidate
      BY <1>1, <2>1, SlotType DEF Has
    <3> QED BY <1>3, <3>1, ShownOf
  <2> HIDE DEF s
  <2>6. Abstract!RequestedTx(p, h, t)
    BY <2>1, <2>3, <2>4, <2>5 DEF Abstract!RequestedTx, RequestedSlots
  <2> QED BY <2>6 DEF Abstract!Next
<1>9. ASSUME NEW p \in Peers, NEW h \in TxHashes, ReceivedResponse(p, h)
      PROVE  [Abstract!Next]_(Abstract!reqVars)
  <2> DEFINE b == MakeCompleted(h, m_index[h], p)
  <2>1. now = None /\ now' = now /\ m_index[h][p] # None /\ m_index' = [m_index EXCEPT ![h] = b]
    BY <1>2, <1>9 DEF ReceivedResponse
  <2>2. CASE m_index[h][p].state = "COMPLETED"
    <3>1. b = m_index[h]
      BY <2>2 DEF MakeCompleted
    <3> QED BY <1>5, <2>1, <3>1
  <2>3. CASE m_index[h][p].state # "COMPLETED"
    <3>1. Abstract!Complete(p, h)
      BY <1>6, <2>1, <2>3
    <3>2. Abstract!ReceivedResponse(p, h)
      BY <2>1, <3>1 DEF Abstract!ReceivedResponse
    <3> QED BY <3>2 DEF Abstract!Next
  <2> QED BY <2>2, <2>3
<1>10. ASSUME NEW p \in Peers, NEW h \in TxHashes, PromoteOrExpire(p, h)
       PROVE  [Abstract!Next]_(Abstract!reqVars)
  <2>1. /\ now # None /\ now' = now
        /\ m_index[h][p] # None /\ m_index[h][p].state \in IsWaiting /\ m_index[h][p].time <= now
        /\ m_index[h][p] \in Announcement
    BY <1>1, <1>10, SlotType DEF PromoteOrExpire, Due, Has
  <2>2. CASE m_index[h][p].state = "DELAYED"
    <3> DEFINE b == PromoteCandidateReady(h, m_index[h], p)
    <3>1. m_index' = [m_index EXCEPT ![h] = b]
      BY <1>2, <1>10, <2>2 DEF PromoteOrExpire
    <3>2. St(m_index[h], p) = "DELAYED"
      BY <2>1, <2>2 DEF St
    <3>3. \A q \in Peers : Shown(b[q]) = Shown(m_index[h][q])
      BY <1>1, <3>2, PromoteShown
    <3> HIDE DEF b
    <3>4. ShownSlots(b) = ShownSlots(m_index[h])
      BY <3>3 DEF ShownSlots
    <3> QED BY <1>5, <2>1, <3>1, <3>4
  <2>3. CASE m_index[h][p].state = "REQUESTED"
    <3>1. m_index' = [m_index EXCEPT ![h] = MakeCompleted(h, m_index[h], p)]
      BY <1>2, <1>10, <2>3 DEF PromoteOrExpire
    <3>2. Abstract!Complete(p, h)
      BY <1>6, <2>1, <2>3, <3>1
    <3>3. Status[h][p] = m_index[h][p]
      BY <1>3, <2>3 DEF Shown, Candidate
    <3>4. Abstract!Expired(p, h)
      BY <2>1, <2>3, <3>3 DEF Abstract!Expired
    <3>5. Abstract!Expire(p, h)
      BY <2>1, <3>2, <3>4 DEF Abstract!Expire
    <3> QED BY <3>5 DEF Abstract!Next
  <2> QED BY <2>1, <2>2, <2>3 DEF IsWaiting
<1>11. ASSUME NEW p \in Peers, NEW h \in TxHashes, Demote(p, h)
       PROVE  UNCHANGED Abstract!reqVars
  <2> DEFINE b == ChangeAndReselect(h, m_index[h], p, "DELAYED")
  <2>1. /\ now' = now /\ m_index' = [m_index EXCEPT ![h] = b]
        /\ m_index[h][p] # None /\ m_index[h][p].state \in IsSelectable
    BY <1>2, <1>11 DEF Demote, Early, Has
  <2>2. /\ \A q \in Peers \ {p} : Shown(b[q]) = Shown(m_index[h][q])
        /\ Shown(b[p]) = Shown([m_index[h][p] EXCEPT !.state = "DELAYED"])
    <3>1. "DELAYED" \in States
      BY DEF States
    <3>2. m_index[h] \in Slots /\ m_index[h][p] # None
      BY <1>1, <2>1
    <3> HIDE DEF b
    <3>3. b = ChangeAndReselect(h, m_index[h], p, "DELAYED")
      BY DEF b
    <3> QED BY <3>1, <3>2, <3>3, ChangeShown
  <2>3. Shown([m_index[h][p] EXCEPT !.state = "DELAYED"]) = Shown(m_index[h][p])
    <3>1. m_index[h][p] \in Announcement /\ m_index[h][p].state \in Candidate
      BY <1>1, <2>1, SlotType DEF IsSelectable, Candidate
    <3> QED BY <3>1, ShownMoves DEF Candidate
  <2> HIDE DEF b
  <2>4. ShownSlots(b) = ShownSlots(m_index[h])
    BY <2>2, <2>3 DEF ShownSlots
  <2> QED BY <1>5, <2>1, <2>4
<1>12. ASSUME NEW p \in Peers, DisconnectedPeer(p) PROVE Abstract!Next
  <2> DEFINE b(h) == IF m_index[h][p] = None THEN m_index[h]
                     ELSE [MakeCompleted(h, m_index[h], p) EXCEPT ![p] = None]
  <2>1. now = None /\ now' = now /\ m_index' = [h \in TxHashes |-> b(h)]
    BY <1>12 DEF DisconnectedPeer
  <2>2. ASSUME NEW h \in TxHashes
        PROVE  ShownSlots(b(h)) = Abstract!Purged([Status[h] EXCEPT ![p] = None])
    BY <1>1, DisconnectedShown
  <2> HIDE DEF b
  <2>3. Status' = [h \in TxHashes |-> ShownSlots(b(h))]
    <3>1. Status' = [h \in TxHashes |-> [q \in Peers |-> Shown(m_index'[h][q])]]
      BY DEF Status, Shown
    <3> QED BY <2>1, <3>1 DEF ShownSlots
  <2>4. Status' = [h \in TxHashes |-> Abstract!Purged([Status[h] EXCEPT ![p] = None])]
    BY <2>2, <2>3
  <2>5. Abstract!DisconnectedPeer(p)
    BY <2>1, <2>4 DEF Abstract!DisconnectedPeer
  <2> QED BY <2>5 DEF Abstract!Next
<1>13. ASSUME NEW h \in TxHashes, ForgetTxHash(h) PROVE Abstract!Next
  <2>1. now = None /\ now' = now /\ m_index' = [m_index EXCEPT ![h] = NoAnnouncements]
    BY <1>13 DEF ForgetTxHash
  <2>2. ShownSlots(NoAnnouncements) = [p \in Peers |-> None]
    BY ShownNone DEF ShownSlots, NoAnnouncements
  <2>3. Status' = [Status EXCEPT ![h] = [p \in Peers |-> None]]
    BY <2>1, <2>2, StatusChanges
  <2>4. Abstract!ForgetTxHash(h)
    BY <2>1, <2>3 DEF Abstract!ForgetTxHash
  <2> QED BY <2>4 DEF Abstract!Next
<1>14. ASSUME NEW t \in Times, GetRequestable(t) PROVE Abstract!Next
  <2>1. Abstract!GetRequestable(t)
    BY <1>4, <1>14 DEF GetRequestable, Abstract!GetRequestable
  <2> QED BY <2>1 DEF Abstract!Next
<1>15. CASE Return
  <2>1. ASSUME NEW p \in Peers, NEW h \in TxHashes, Abstract!Expired(p, h) PROVE FALSE
    <3>1. Status[h][p] # None /\ Status[h][p].state = "REQUESTED" /\ Status[h][p].time <= now
      BY <2>1 DEF Abstract!Expired
    <3>2. m_index[h][p] # None
      BY <3>1, <1>3, ShownNone
    <3>3. m_index[h][p] \in Announcement
      BY <3>2, <1>1, SlotType
    <3>4. m_index[h][p].state = "REQUESTED" /\ m_index[h][p].time <= now
      BY <3>1, <3>3, <1>3, ShownOf
    <3>5. Due(p, h)
      BY <3>2, <3>4 DEF Due, Has, IsWaiting
    <3> QED BY <1>15, <3>5 DEF Return, NoneDue
  <2>2. Abstract!Return
    BY <1>4, <1>15, <2>1 DEF Return, Abstract!Return
  <2> QED BY <2>2 DEF Abstract!Next
<1>16. CASE UNCHANGED vars
  BY <1>4, <1>16 DEF vars, Abstract!reqVars
<1> QED BY <1>7, <1>8, <1>9, <1>10, <1>11, <1>12, <1>13, <1>14, <1>15, <1>16 DEF Next

\* TxRequestTracker does what txrequest.h says of each operation, however many
\* peers and transactions there are: promoting, demoting and reselecting
\* candidates is unseen, a response or an expiry completes one announcement,
\* and a transaction is forgotten once all of its announcements are completed.
THEOREM Refinement == Spec => ImplementsTxRequests
BY InitShown, NextShown, Invariance, PTL DEF Spec, ImplementsTxRequests, Abstract!Spec
=============================================================================
