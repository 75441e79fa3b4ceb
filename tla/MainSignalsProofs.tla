------------------------- MODULE MainSignalsProofs --------------------------
(***************************************************************************)
(* For any number of threads, subscribers and entries, the reference       *)
(* counts of m_list are exact, and Iterate reaches every subscriber.       *)
(***************************************************************************)
EXTENDS MainSignals, FiniteSetTheorems, WellFoundedInduction, TLAPS

\* The entries up to the one that is executing were notified.
Progress ==
    \A t \in Threads : it[t] # End => \A e \in list : e <= it[t] => e \in notified[t]

IInv == TypeOK /\ CountExact /\ NothingDangles /\ Progress

\* The threads that execute entry e, of an iteration state f.
Ex(f, e) == {t \in Threads : f[t] = e}
One(e, S) == IF e \in S THEN 1 ELSE 0

LEMMA ExFinite ==
    \A f, e : /\ IsFiniteSet(Ex(f, e)) /\ Cardinality(Ex(f, e)) \in Nat
              /\ Cardinality(Ex(f, e)) = 0 <=> \A t \in Threads : f[t] # e
<1> TAKE f, e
<1>1. Ex(f, e) \in SUBSET Threads
  BY DEF Ex
<1>2. IsFiniteSet(Ex(f, e))
  BY <1>1, FS_Subset, MainSignalsAssumption
<1>3. Cardinality(Ex(f, e)) \in Nat /\ (Cardinality(Ex(f, e)) = 0 <=> Ex(f, e) = {})
  BY <1>2, FS_CardinalityType, FS_EmptySet
<1>4. Ex(f, e) = {} <=> \A t \in Threads : f[t] # e
  BY DEF Ex
<1> QED BY <1>2, <1>3, <1>4

\* A thread that moves from one entry to another.
Jump(f, g, t, n) == f[t] # n /\ g[t] = n /\ \A u \in Threads \ {t} : g[u] = f[u]

LEMMA ExMove ==
    ASSUME NEW t \in Threads
    PROVE  \A f, g, n, e : Jump(f, g, t, n) =>
             Cardinality(Ex(g, e)) = Cardinality(Ex(f, e)) - One(e, {f[t]}) + One(e, {n})
<1> SUFFICES ASSUME NEW f, NEW g, NEW n, NEW e, Jump(f, g, t, n)
             PROVE  Cardinality(Ex(g, e)) = Cardinality(Ex(f, e)) - One(e, {f[t]}) + One(e, {n})
  OBVIOUS
<1>1. f[t] # n /\ g[t] = n /\ \A u \in Threads \ {t} : g[u] = f[u]
  BY DEF Jump
<1>2. IsFiniteSet(Ex(f, e)) /\ Cardinality(Ex(f, e)) \in Nat
  BY ExFinite
<1>3. CASE e = f[t]
  <2>1. Ex(g, e) = Ex(f, e) \ {t} /\ t \in Ex(f, e)
    BY <1>1, <1>3 DEF Ex
  <2>2. Cardinality(Ex(g, e)) = Cardinality(Ex(f, e)) - 1
    BY <1>2, <2>1, FS_RemoveElement
  <2>3. One(e, {f[t]}) = 1 /\ One(e, {n}) = 0
    BY <1>1, <1>3 DEF One
  <2> QED BY <1>2, <2>2, <2>3
<1>4. CASE e = n
  <2>1. Ex(g, e) = Ex(f, e) \cup {t} /\ t \notin Ex(f, e)
    BY <1>1, <1>4 DEF Ex
  <2>2. Cardinality(Ex(g, e)) = Cardinality(Ex(f, e)) + 1
    BY <1>2, <2>1, FS_AddElement
  <2>3. One(e, {f[t]}) = 0 /\ One(e, {n}) = 1
    BY <1>1, <1>4 DEF One
  <2> QED BY <1>2, <2>2, <2>3
<1>5. CASE e # f[t] /\ e # n
  <2>1. Ex(g, e) = Ex(f, e)
    BY <1>1, <1>5 DEF Ex
  <2>3. One(e, {f[t]}) = 0 /\ One(e, {n}) = 0
    BY <1>5 DEF One
  <2> QED BY <1>2, <2>1, <2>3
<1> QED BY <1>3, <1>4, <1>5

\* A set of natural numbers that is not empty has a least element.
LEMMA LeastEntry ==
    ASSUME NEW T, T \subseteq Nat, T # {}
    PROVE  \E x \in T : \A y \in T : x <= y
<1>1. PICK x \in T : \A y \in T : ~(<<y, x>> \in OpToRel(<, Nat))
  BY WFMin, NatLessThanWellFounded, Zenon
<1>2. ASSUME NEW y \in T PROVE x <= y
  <2>1. y < x => <<y, x>> \in OpToRel(<, Nat)
    BY DEF OpToRel
  <2>2. ~(y < x)
    BY <1>1, <2>1
  <2>3. x \in Nat /\ y \in Nat
    OBVIOUS
  <2> QED BY <2>2, <2>3
<1> QED BY <1>2

LEMMA NextEntryIs ==
    ASSUME NEW S, S \subseteq Entries, NEW e \in Nat
    PROVE  \/ NextEntry(S, e) = End /\ \A f \in S : f <= e
           \/ /\ NextEntry(S, e) \in S /\ NextEntry(S, e) > e
              /\ \A f \in S : f > e => NextEntry(S, e) <= f
<1>0. S \subseteq Nat
  BY MainSignalsAssumption DEF Entries
<1>1. CASE \A f \in S : f <= e
  BY <1>1 DEF NextEntry
<1>2. CASE ~ \A f \in S : f <= e
  <2> DEFINE T == {f \in S : f > e}
  <2>0. PICK f \in S : ~(f <= e)
    BY <1>2
  <2>01. f \in Nat /\ f > e
    BY <1>0, <2>0
  <2>1. T \subseteq Nat /\ f \in T
    BY <1>0, <2>01
  <2>2. PICK x \in T : \A y \in T : x <= y
    BY <2>1, LeastEntry
  <2>3. x \in S /\ x > e /\ \A g \in S : g > e => x <= g
    BY <2>2
  <2>4. NextEntry(S, e) = CHOOSE h \in S : h > e /\ \A g \in S : g > e => h <= g
    BY <1>2, Zenon DEF NextEntry
  <2> QED BY <2>3, <2>4
<1> QED BY <1>1, <1>2
-----------------------------------------------------------------------------
LEMMA InitInv == Init => IInv
BY MainSignalsAssumption DEF Init, IInv, TypeOK, CountExact, NothingDangles, Progress, Entries, End

\* What the invariant says of the count of an entry.
LEMMA Counts ==
    ASSUME IInv
    PROVE  /\ list \subseteq Entries /\ End \notin Entries /\ Entries \subseteq Nat
           /\ \A e \in list : /\ count[e] \in Nat \ {0}
                              /\ count[e] = Cardinality(Ex(it, e)) + One(e, Registered)
                              /\ Cardinality(Ex(it, e)) \in Nat
           /\ Registered \subseteq list
<1>1. list \subseteq Entries /\ End \notin Entries /\ Entries \subseteq Nat
  BY MainSignalsAssumption DEF IInv, TypeOK, Entries, End
<1>2. ASSUME NEW e \in list
      PROVE  /\ count[e] \in Nat \ {0}
             /\ count[e] = Cardinality(Ex(it, e)) + One(e, Registered)
  BY <1>1 DEF IInv, TypeOK, CountExact, Executions, Ex, One
<1>3. Registered \subseteq list
  BY DEF IInv, NothingDangles, Registered
<1> QED BY <1>1, <1>2, <1>3, ExFinite

\* The count is exact after a step if it is so in these terms.
LEMMA CountExactIs ==
    ASSUME \A e \in list' : /\ count'[e] = Cardinality(Ex(it', e)) + One(e, Registered')
                            /\ count'[e] # 0
    PROVE  CountExact'
BY DEF CountExact, Executions, Ex, One

LEMMA RegisterInv ==
    ASSUME IInv, NEW s \in Subscribers, Register(s)
    PROVE  IInv'
<1> DEFINE n == created + 1
<1>1. n \in Entries /\ n \notin list /\ created \in Nat /\ \A e \in list : e < n /\ e \in Nat
  BY MainSignalsAssumption DEF IInv, TypeOK, Register, Entries
<1>2. /\ created' = n /\ list' = list \cup {n} /\ map' = [map EXCEPT ![s] = n]
      /\ callbacks' = [callbacks EXCEPT ![n] = s] /\ count' = [count EXCEPT ![n] = 1]
      /\ it' = it /\ notified' = notified /\ map[s] = End
  BY DEF Register
<1> HIDE DEF n
<1>3. TypeOK'
  <2>1. list' \subseteq 1 .. created' /\ created' \in 0 .. MaxEntries
    BY <1>1, <1>2, MainSignalsAssumption DEF IInv, TypeOK, Entries, n
  <2> QED BY <1>1, <1>2, <2>1 DEF IInv, TypeOK
<1>4. n # End
  BY <1>1, MainSignalsAssumption DEF Entries, End
<1>5. map'[s] = n /\ \A r \in Subscribers \ {s} : map'[r] = map[r]
  BY <1>2 DEF IInv, TypeOK
<1>6. NothingDangles'
  BY <1>1, <1>2, <1>5 DEF IInv, TypeOK, NothingDangles
<1>7. \A e \in list : (e \in Registered') <=> (e \in Registered)
  BY <1>1, <1>2, <1>5, Counts DEF Registered
<1>8. n \in Registered'
  BY <1>4, <1>5 DEF Registered
<1>9. Cardinality(Ex(it, n)) = 0
  BY <1>1, <1>4, ExFinite DEF IInv, NothingDangles
<1>10. count'[n] = 1 /\ \A e \in list : count'[e] = count[e]
  BY <1>1, <1>2, Counts DEF IInv, TypeOK
<1>11. CountExact'
  BY <1>2, <1>7, <1>8, <1>9, <1>10, Counts, CountExactIs DEF One
<1>12. Progress'
  <2>1. \A t \in Threads : it[t] # End => it[t] < n /\ it[t] \in Nat
    BY <1>1 DEF IInv, NothingDangles
  <2>2. \A t \in Threads : it[t] # End => ~(n <= it[t])
    BY <1>1, <2>1 DEF n
  <2> QED BY <1>2, <2>2 DEF IInv, Progress
<1> QED BY <1>3, <1>6, <1>11, <1>12 DEF IInv

\* Unregister and Clear take a reference from the entries in D.
LEMMA ReleaseInv ==
    ASSUME IInv, NEW D, D \subseteq Registered, Registered' = Registered \ D,
           count' = [e \in Entries |-> IF e \in D THEN count[e] - 1 ELSE count[e]],
           list' = {e \in list : e \in D => count'[e] # 0},
           map' \in [Subscribers -> Entries \cup {End}],
           \A s \in Subscribers : map'[s] # End => map'[s] = map[s],
           UNCHANGED <<callbacks, created, it, notified>>
    PROVE  IInv'
<1>1. \A e \in list : count'[e] = IF e \in D THEN count[e] - 1 ELSE count[e]
  BY Counts
<1>2. count' \in [Entries -> Nat]
  <2>1. \A e \in Entries : (IF e \in D THEN count[e] - 1 ELSE count[e]) \in Nat
    BY Counts DEF IInv, TypeOK
  <2> QED BY <2>1
<1>3. TypeOK'
  BY <1>2 DEF IInv, TypeOK
<1>4. CountExact'
  <2> SUFFICES ASSUME NEW e \in list'
               PROVE  /\ count'[e] = Cardinality(Ex(it', e)) + One(e, Registered')
                      /\ count'[e] # 0
    BY CountExactIs
  <2>1. e \in list /\ it' = it /\ (e \in D => count'[e] # 0)
    OBVIOUS
  <2>2. CASE e \in D
    BY <1>1, <2>1, <2>2, Counts DEF One
  <2>3. CASE e \notin D
    BY <1>1, <2>1, <2>3, Counts DEF One
  <2> QED BY <2>2, <2>3
<1>5. \A t \in Threads : it'[t] # End => it'[t] \in list'
  <2> SUFFICES ASSUME NEW t \in Threads, it[t] # End PROVE it[t] \in list'
    OBVIOUS
  <2>1. it[t] \in list
    BY DEF IInv, NothingDangles
  <2>2. Cardinality(Ex(it, it[t])) # 0
    BY ExFinite
  <2>3. it[t] \in D => count'[it[t]] # 0
    BY <1>1, <2>1, <2>2, Counts DEF One
  <2> QED BY <2>1, <2>3
<1>6. \A s \in Subscribers : map'[s] # End => map'[s] \in list' /\ callbacks'[map'[s]] = s
  <2> SUFFICES ASSUME NEW s \in Subscribers, map'[s] # End
               PROVE  map'[s] \in list' /\ callbacks'[map'[s]] = s
    OBVIOUS
  <2>1. map'[s] = map[s] /\ map[s] \in list /\ callbacks[map[s]] = s
    BY DEF IInv, NothingDangles
  <2>2. map'[s] \in Registered'
    BY DEF Registered
  <2> QED BY <2>1, <2>2
<1>7. NothingDangles' /\ Progress'
  BY <1>5, <1>6 DEF IInv, NothingDangles, Progress
<1> QED BY <1>3, <1>4, <1>7 DEF IInv

LEMMA UnregisterInv ==
    ASSUME IInv, NEW s \in Subscribers, Unregister(s)
    PROVE  IInv'
<1>1. map[s] \in Registered /\ map[s] \in Entries
  BY Counts DEF Unregister, Registered
<1>2. map'[s] = End /\ \A r \in Subscribers \ {s} : map'[r] = map[r]
  BY DEF Unregister, IInv, TypeOK
<1>3. \A r \in Subscribers \ {s} : map[r] # map[s]
  BY DEF Unregister, IInv, NothingDangles
<1>4. Registered' = Registered \ {map[s]}
  <2>1. \A e : e \in Registered' <=> e \in Registered /\ e # map[s]
    BY <1>2, <1>3 DEF Registered
  <2> QED BY <2>1
<1>5. count' = [e \in Entries |-> IF e \in {map[s]} THEN count[e] - 1 ELSE count[e]]
  BY <1>1 DEF Unregister, IInv, TypeOK
<1>6. /\ list' = {e \in list : e \in {map[s]} => count'[e] # 0}
      /\ map' \in [Subscribers -> Entries \cup {End}]
      /\ \A r \in Subscribers : map'[r] # End => map'[r] = map[r]
      /\ UNCHANGED <<callbacks, created, it, notified>>
  BY <1>2 DEF Unregister, IInv, TypeOK
<1>7. {map[s]} \subseteq Registered
  BY <1>1
<1> QED BY <1>4, <1>5, <1>6, <1>7, ReleaseInv

LEMMA ClearInv ==
    ASSUME IInv, Clear
    PROVE  IInv'
<1>1. map' = [s \in Subscribers |-> End] /\ \A s \in Subscribers : map'[s] = End
  BY DEF Clear
<1>2. Registered' = Registered \ Registered
  BY <1>1 DEF Registered
<1>3. /\ count' = [e \in Entries |-> IF e \in Registered THEN count[e] - 1 ELSE count[e]]
      /\ list' = {e \in list : e \in Registered => count'[e] # 0}
      /\ map' \in [Subscribers -> Entries \cup {End}]
      /\ \A s \in Subscribers : map'[s] # End => map'[s] = map[s]
      /\ UNCHANGED <<callbacks, created, it, notified>>
  BY <1>1 DEF Clear
<1> QED BY <1>2, <1>3, ReleaseInv

\* A thread goes on from its entry, if it has one, to the next one.
Moved(t, n) ==
    /\ it' = [it EXCEPT ![t] = n] /\ it[t] # n
    /\ list' = {e \in list : e = it[t] => count[e] - 1 # 0} /\ n = NextEntry(list', it[t])
    /\ count' \in [Entries -> Int]
    /\ \A e \in Entries : count'[e] = count[e] - One(e, {it[t]}) + One(e, {n})
    /\ notified' = [notified EXCEPT ![t] = (IF it[t] = End THEN {} ELSE notified[t]) \cup ({n} \ {End})]
    /\ UNCHANGED <<callbacks, map, created>>

LEMMA MoveInv ==
    ASSUME IInv, NEW t \in Threads, NEW n, Moved(t, n)
    PROVE  /\ IInv'
           /\ n = End => Registered' \subseteq notified'[t] \/ it[t] = End
<1>0. it[t] \in Entries \cup {End} /\ it \in [Threads -> Entries \cup {End}]
  BY DEF IInv, TypeOK
<1>a. \A e : e \in list' <=> e \in list /\ (e = it[t] => count[e] - 1 # 0)
  BY DEF Moved
<1>1. list' \subseteq list /\ list' \subseteq Entries /\ it[t] \in Nat
  BY <1>0, <1>a, Counts DEF End
<1>2. \/ n = End /\ \A f \in list' : f <= it[t]
      \/ n \in list' /\ n > it[t] /\ \A f \in list' : f > it[t] => n <= f
  BY <1>1, NextEntryIs DEF Moved
<1>3. it'[t] = n /\ \A u \in Threads \ {t} : it'[u] = it[u]
  BY <1>0 DEF Moved
<1>4. \A e : Cardinality(Ex(it', e)) = Cardinality(Ex(it, e)) - One(e, {it[t]}) + One(e, {n})
  <2>1. Jump(it, it', t, n)
    BY <1>3 DEF Moved, Jump
  <2> QED BY <2>1, ExMove
<1>b. \A e \in Entries : count'[e] = count[e] - One(e, {it[t]}) + One(e, {n})
  BY DEF Moved
<1>5. Registered' = Registered
  BY DEF Moved, Registered
<1>6. \A e \in list : Cardinality(Ex(it, e)) \in Nat /\ Cardinality(Ex(it', e)) \in Nat
  BY ExFinite
<1>7. ASSUME NEW e \in list'
      PROVE  /\ count'[e] = Cardinality(Ex(it', e)) + One(e, Registered)
             /\ count'[e] # 0 /\ count'[e] \in Nat
  <2>1. count'[e] = count[e] - One(e, {it[t]}) + One(e, {n})
    BY <1>1, <1>b, <1>7
  <2>2. e \in list /\ (e = it[t] => count[e] - 1 # 0)
    BY <1>a, <1>7
  <2>3. /\ count[e] \in Nat \ {0} /\ Cardinality(Ex(it, e)) \in Nat
        /\ count[e] = Cardinality(Ex(it, e)) + One(e, Registered)
    BY <2>2, Counts
  <2>4. Cardinality(Ex(it', e)) = Cardinality(Ex(it, e)) - One(e, {it[t]}) + One(e, {n})
    BY <1>4
  <2>5. it[t] # n
    BY DEF Moved
  <2>6. CASE e = it[t]
    <3>1. One(e, {it[t]}) = 1 /\ One(e, {n}) = 0 /\ One(e, Registered) \in Nat
      BY <2>5, <2>6 DEF One
    <3>2. count[e] - 1 # 0
      BY <2>2, <2>6
    <3>3. count'[e] = count[e] - 1 /\ Cardinality(Ex(it', e)) = Cardinality(Ex(it, e)) - 1
      BY <2>1, <2>3, <2>4, <3>1
    <3> QED BY <2>3, <3>1, <3>2, <3>3
  <2>7. CASE e # it[t]
    <3>1. One(e, {it[t]}) = 0 /\ One(e, {n}) \in Nat /\ One(e, Registered) \in Nat
      BY <2>7 DEF One
    <3> QED BY <2>1, <2>3, <2>4, <3>1
  <2> QED BY <2>6, <2>7
<1>8. CountExact'
  BY <1>5, <1>7, CountExactIs
<1>9. \A u \in Threads : it'[u] # End => it'[u] \in list'
  <2> SUFFICES ASSUME NEW u \in Threads, u # t, it[u] # End PROVE it[u] \in list'
    BY <1>2, <1>3
  <2>1. it[u] \in list
    BY DEF IInv, NothingDangles
  <2>2. Cardinality(Ex(it', it[u])) # 0
    BY <1>3, ExFinite
  <2>3. CASE it[u] = it[t]
    <3>1. Cardinality(Ex(it', it[u])) = Cardinality(Ex(it, it[u])) - 1
      <4>1. One(it[u], {it[t]}) = 1 /\ One(it[u], {n}) = 0
        BY <2>3 DEF One, Moved
      <4> QED BY <1>4, <1>6, <2>1, <4>1
    <3>2. count[it[u]] - 1 # 0
      BY <1>6, <2>1, <2>2, <3>1, Counts DEF One
    <3> QED BY <1>a, <2>1, <3>2
  <2> QED BY <1>a, <2>1, <2>3
<1>10. Registered \subseteq list'
  <2> SUFFICES ASSUME NEW e \in Registered, e = it[t] PROVE count[e] - 1 # 0
    BY <1>a, Counts
  <2>1. Cardinality(Ex(it, e)) # 0
    BY ExFinite
  <2> QED BY <2>1, Counts DEF One
<1>11. NothingDangles'
  <2>1. map' = map /\ callbacks' = callbacks
    BY DEF Moved
  <2>2. \A s \in Subscribers : map[s] # End => map[s] \in list' /\ callbacks[map[s]] = s
    BY <1>10 DEF IInv, NothingDangles, Registered
  <2> QED BY <1>9, <2>1, <2>2 DEF NothingDangles
<1>12. TypeOK'
  <2>1. \A e \in Entries : count'[e] \in Nat
    <3> SUFFICES ASSUME NEW e \in Entries PROVE count'[e] \in Nat
      OBVIOUS
    <3>1. e = it[t] => e \in list
      BY Counts DEF IInv, NothingDangles
    <3>2. count[e] \in Nat /\ (e = it[t] => count[e] # 0)
      BY <3>1, Counts DEF IInv, TypeOK
    <3> QED BY <1>b, <3>2 DEF One
  <2>2. count' \in [Entries -> Nat]
    BY <2>1 DEF Moved
  <2>3. n \in Entries \cup {End}
    BY <1>1, <1>2
  <2>4. it' \in [Threads -> Entries \cup {End}]
    BY <1>0, <2>3 DEF Moved
  <2>5. notified' \in [Threads -> SUBSET Entries]
    <3> DEFINE new == (IF it[t] = End THEN {} ELSE notified[t]) \cup ({n} \ {End})
    <3>1. notified \in [Threads -> SUBSET Entries] /\ notified' = [notified EXCEPT ![t] = new]
      BY DEF IInv, TypeOK, Moved
    <3>2. new \in SUBSET Entries
      BY <2>3, <3>1
    <3> HIDE DEF new
    <3> QED BY <3>1, <3>2
  <2> QED BY <1>1, <1>a, <2>2, <2>4, <2>5 DEF IInv, TypeOK, Moved
<1>13. /\ notified'[t] = (IF it[t] = End THEN {} ELSE notified[t]) \cup ({n} \ {End})
       /\ \A u \in Threads \ {t} : notified'[u] = notified[u]
  BY DEF IInv, TypeOK, Moved
<1>14. ASSUME n # End PROVE \A e \in list' : e <= n => e \in notified'[t]
  <2> SUFFICES ASSUME NEW e \in list', e <= n PROVE e \in notified'[t]
    OBVIOUS
  <2>1. e \in Nat /\ n \in Nat /\ e > 0
    <3>1. e \in Entries /\ n \in Entries
      BY <1>1, <1>2, <1>14
    <3> QED BY <3>1, MainSignalsAssumption DEF Entries
  <2>2. CASE e > it[t]
    BY <1>2, <1>13, <1>14, <2>1, <2>2
  <2>3. CASE e <= it[t]
    <3>1. it[t] # End
      BY <2>1, <2>3 DEF End
    <3>2. e \in notified[t]
      BY <1>1, <2>3, <3>1 DEF IInv, Progress
    <3> QED BY <1>13, <3>1, <3>2
  <2> QED BY <1>1, <2>1, <2>2, <2>3
<1>15. Progress'
  BY <1>1, <1>3, <1>13, <1>14 DEF IInv, Progress
<1>16. ASSUME n = End, it[t] # End PROVE Registered' \subseteq notified'[t]
  <2>1. \A f \in list' : f <= it[t]
    BY <1>1, <1>2, <1>16, Counts
  <2> QED BY <1>1, <1>5, <1>10, <1>13, <1>16, <2>1 DEF IInv, Progress
<1> QED BY <1>8, <1>11, <1>12, <1>15, <1>16 DEF IInv

LEMMA IterateMoves ==
    ASSUME IInv, NEW t \in Threads, Iterate(t)
    PROVE  \E n : Moved(t, n) /\ n # End
<1> DEFINE n == NextEntry(list, End)
<1>1. it[t] = End /\ list # {} /\ list' = list /\ Call(t, n, count, {}) /\ UNCHANGED <<callbacks, map, created>>
  BY DEF Iterate
<1>2. n \in list
  <2>1. \E e \in list : ~(e <= End)
    BY <1>1, Counts, MainSignalsAssumption DEF Entries, End
  <2> QED BY <2>1, Counts, NextEntryIs DEF End
<1> HIDE DEF n
<1>3. n \in Entries /\ n # End
  BY <1>2, Counts
<1>4. count' = [count EXCEPT ![n] = @ + 1]
  BY <1>1, <1>3 DEF Call
<1>5. count' \in [Entries -> Int] /\ \A e \in Entries : count'[e] = count[e] - One(e, {it[t]}) + One(e, {n})
  BY <1>1, <1>3, <1>4, Counts DEF IInv, TypeOK, One
<1>6. list' = {e \in list : e = it[t] => count[e] - 1 # 0} /\ n = NextEntry(list', it[t])
  BY <1>1, Counts DEF n
<1>7. Moved(t, n)
  BY <1>1, <1>3, <1>5, <1>6 DEF Moved, Call
<1> QED BY <1>3, <1>7

LEMMA ReturnMoves ==
    ASSUME IInv, NEW t \in Threads, Return(t)
    PROVE  \E n : Moved(t, n)
<1> DEFINE n == NextEntry(list', it[t])
           counts == [count EXCEPT ![it[t]] = @ - 1]
<1>1. /\ it[t] # End /\ list' = {e \in list : e = it[t] => counts[e] # 0}
      /\ Call(t, n, counts, notified[t]) /\ UNCHANGED <<callbacks, map, created>>
  BY DEF Return
<1>2. it[t] \in Entries /\ it[t] \in Nat /\ \A e \in Entries : counts[e] = count[e] - One(e, {it[t]})
  <2>1. it[t] \in Entries /\ it[t] \in Nat
    BY <1>1, Counts DEF IInv, TypeOK
  <2>2. count \in [Entries -> Nat]
    BY DEF IInv, TypeOK
  <2>3. \A e \in Entries : counts[e] = IF e = it[t] THEN count[e] - 1 ELSE count[e]
    BY <2>1, <2>2
  <2> HIDE DEF counts
  <2> QED BY <2>1, <2>2, <2>3 DEF One
<1>3. counts \in [Entries -> Int]
  BY <1>2 DEF IInv, TypeOK
<1> HIDE DEF counts
<1>4. list' = {e \in list : e = it[t] => count[e] - 1 # 0}
  <2>1. \A e \in list : e = it[t] => counts[e] = count[e] - 1
    BY <1>2 DEF One
  <2> QED BY <1>1, <2>1
<1>5. list' \subseteq Entries
  BY <1>4, Counts
<1>6. (n = End \/ (n \in Entries /\ n > it[t])) /\ End \notin Entries
  BY <1>2, <1>5, NextEntryIs, Counts
<1> HIDE DEF n
<1>7. it[t] # n
  BY <1>1, <1>2, <1>6
<1>8. count' \in [Entries -> Int] /\ \A e \in Entries : count'[e] = counts[e] + One(e, {n})
  <2>1. CASE n = End
    <3>1. count' = counts
      BY <1>1, <2>1 DEF Call
    <3> QED BY <1>3, <1>6, <2>1, <3>1 DEF One
  <2>2. CASE n # End
    <3>1. count' = [counts EXCEPT ![n] = @ + 1] /\ n \in Entries
      BY <1>1, <1>6, <2>2 DEF Call
    <3> QED BY <1>3, <3>1 DEF One
  <2> QED BY <2>1, <2>2
<1>9. \A e \in Entries : count'[e] = count[e] - One(e, {it[t]}) + One(e, {n})
  BY <1>2, <1>8
<1>10. n = NextEntry(list', it[t])
  BY DEF n
<1>11. Moved(t, n)
  BY <1>1, <1>4, <1>7, <1>8, <1>9, <1>10 DEF Moved, Call
<1> QED BY <1>11
-----------------------------------------------------------------------------
\* The strengthened invariant holds in all reachable states.
THEOREM Invariance == Spec => []IInv
<1>1. Init => IInv
  BY InitInv
<1>2. IInv /\ [Next]_vars => IInv'
  <2> SUFFICES ASSUME IInv, [Next]_vars PROVE IInv'
    OBVIOUS
  <2>1. CASE UNCHANGED vars
    BY <2>1 DEF vars, IInv, TypeOK, CountExact, NothingDangles, Progress, Executions, Registered
  <2>2. ASSUME NEW t \in Threads, Iterate(t) \/ Return(t) PROVE IInv'
    BY <2>2, IterateMoves, ReturnMoves, MoveInv
  <2> QED BY <2>1, <2>2, RegisterInv, UnregisterInv, ClearInv DEF Next
<1> QED BY <1>1, <1>2, PTL DEF Spec

\* The reference count of an entry is its executions plus its registration.
THEOREM CountSafe == Spec => []CountExact
<1>1. IInv => CountExact
  BY DEF IInv
<1> QED BY <1>1, Invariance, PTL

\* No iterator of a thread or of the map outlives its entry.
THEOREM NothingDanglesSafe == Spec => []NothingDangles
<1>1. IInv => NothingDangles
  BY DEF IInv
<1> QED BY <1>1, Invariance, PTL

\* Iterate passes its event to everyone who is registered when it returns.
THEOREM EveryoneNotifiedSafe == Spec => EveryoneNotified
<1> DEFINE Told == \A t \in Threads : it[t] # End /\ it'[t] = End => Registered' \subseteq notified'[t]
<1>1. IInv /\ [Next]_vars => [Told]_vars
  <2> SUFFICES ASSUME IInv, Next, NEW t \in Threads, it[t] # End, it'[t] = End
               PROVE  Registered' \subseteq notified'[t]
    OBVIOUS
  <2>1. ASSUME NEW u \in Threads, NEW n, Moved(u, n) PROVE Registered' \subseteq notified'[t]
    <3>1. it'[u] = n /\ (u # t => it'[t] = it[t])
      BY <2>1 DEF Moved, IInv, TypeOK
    <3> QED BY <2>1, <3>1, MoveInv
  <2>2. ASSUME NEW u \in Threads, Iterate(u) \/ Return(u) PROVE Registered' \subseteq notified'[t]
    BY <2>1, <2>2, IterateMoves, ReturnMoves
  <2>3. ASSUME it' = it PROVE FALSE
    BY <2>3
  <2> QED BY <2>2, <2>3 DEF Next, Register, Unregister, Clear
<1> QED BY <1>1, Invariance, PTL DEF Spec, EveryoneNotified
=============================================================================
