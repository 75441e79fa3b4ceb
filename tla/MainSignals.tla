---------------------------- MODULE MainSignals -----------------------------
(***************************************************************************)
(* MainSignalsInstance: the reference-counted list of subscribers, and the *)
(* threads that iterate over it.  Iterate gives up m_mutex while it calls  *)
(* a subscriber; everything else is one critical section.                  *)
(*                                                                         *)
(* m_list only grows at its end, so that its order is the order in which   *)
(* entries were created: an entry is its number in that order, and the     *)
(* list is a set of entries.  One thread executes the queued events, one   *)
(* after the other (see SerialExecutor); others run BlockChecked and       *)
(* NewPoWValidBlock, which are not queued.  Register, Unregister and Clear *)
(* may be called at any time, also by a subscriber.                        *)
(***************************************************************************)
EXTENDS Integers, FiniteSets

CONSTANTS Threads,      \* those that run Iterate
          Subscribers,
          MaxEntries,   \* how many entries are ever created
          None

ASSUME MainSignalsAssumption == IsFiniteSet(Threads) /\ MaxEntries \in Nat

Entries == 1 .. MaxEntries
End == 0                \* m_list.end()

VARIABLES list,         \* the entries in m_list
          callbacks,    \* whose entry it is
          count,        \* its reference count
          map,          \* m_map: the entry of a registered subscriber, or End
          created,      \* how many entries were created
          it,           \* the entry that a thread executes, or End
          notified      \* the entries that its last event was passed to

vars == <<list, callbacks, count, map, created, it, notified>>

Init ==
    /\ list = {} /\ created = 0 /\ callbacks = [e \in Entries |-> None]
    /\ count = [e \in Entries |-> 0] /\ map = [s \in Subscribers |-> End]
    /\ it = [t \in Threads |-> End] /\ notified = [t \in Threads |-> {}]
-----------------------------------------------------------------------------
\* A subscriber that is registered keeps its entry.
Register(s) ==
    /\ map[s] = End /\ created < MaxEntries
    /\ created' = created + 1
    /\ list' = list \cup {created + 1} /\ map' = [map EXCEPT ![s] = created + 1]
    /\ callbacks' = [callbacks EXCEPT ![created + 1] = s] /\ count' = [count EXCEPT ![created + 1] = 1]
    /\ UNCHANGED <<it, notified>>

\* Variant that erases the entry of a subscriber although it is being called.
UnregisterErases(s) ==
    /\ map[s] # End
    /\ count' = [count EXCEPT ![map[s]] = @ - 1] /\ list' = list \ {map[s]}
    /\ map' = [map EXCEPT ![s] = End]
    /\ UNCHANGED <<callbacks, created, it, notified>>

Unregister(s) ==
    /\ map[s] # End
    /\ count' = [count EXCEPT ![map[s]] = @ - 1]
    /\ list' = {e \in list : e = map[s] => count'[e] # 0}
    /\ map' = [map EXCEPT ![s] = End]
    /\ UNCHANGED <<callbacks, created, it, notified>>

Registered == {map[s] : s \in Subscribers} \ {End}

\* Variant that forgets the map but not the references.
ClearMap ==
    /\ Registered # {}
    /\ map' = [s \in Subscribers |-> End]
    /\ UNCHANGED <<list, callbacks, count, created, it, notified>>

Clear ==
    /\ Registered # {}
    /\ count' = [e \in Entries |-> IF e \in Registered THEN count[e] - 1 ELSE count[e]]
    /\ list' = {e \in list : e \in Registered => count'[e] # 0}
    /\ map' = [s \in Subscribers |-> End]
    /\ UNCHANGED <<callbacks, created, it, notified>>
-----------------------------------------------------------------------------
\* The first entry after e, or End.
NextEntry(entries, e) ==
    IF \A f \in entries : f <= e THEN End
    ELSE CHOOSE f \in entries : f > e /\ \A g \in entries : g > e => f <= g

\* Executes entry e of a list whose counts are counts.
Call(t, e, counts, sofar) ==
    /\ it' = [it EXCEPT ![t] = e]
    /\ count' = IF e = End THEN counts ELSE [counts EXCEPT ![e] = @ + 1]
    /\ notified' = [notified EXCEPT ![t] = sofar \cup ({e} \ {End})]

Iterate(t) ==
    /\ it[t] = End /\ list # {}
    /\ Call(t, NextEntry(list, End), count, {})
    /\ UNCHANGED <<list, callbacks, map, created>>

\* Variant that steps over the entry that follows an erased one.
ReturnSkips(t) ==
    /\ it[t] # End
    /\ LET counts == [count EXCEPT ![it[t]] = @ - 1]
       IN  /\ list' = {e \in list : e = it[t] => counts[e] # 0}
           /\ Call(t, NextEntry(list', IF it[t] \in list' THEN it[t] ELSE NextEntry(list', it[t])),
                   counts, notified[t])
    /\ UNCHANGED <<callbacks, map, created>>

\* The subscriber returns; an entry without references is erased.
Return(t) ==
    /\ it[t] # End
    /\ LET counts == [count EXCEPT ![it[t]] = @ - 1]
       IN  /\ list' = {e \in list : e = it[t] => counts[e] # 0}
           /\ Call(t, NextEntry(list', it[t]), counts, notified[t])
    /\ UNCHANGED <<callbacks, map, created>>

Next == \/ \E s \in Subscribers : Register(s) \/ Unregister(s)
        \/ Clear
        \/ \E t \in Threads : Iterate(t) \/ Return(t)

Spec == Init /\ [][Next]_vars
-----------------------------------------------------------------------------
TypeOK ==
    /\ list \subseteq 1 .. created /\ created \in 0 .. MaxEntries
    /\ callbacks \in [Entries -> Subscribers \cup {None}] /\ count \in [Entries -> Nat]
    /\ map \in [Subscribers -> Entries \cup {End}] /\ it \in [Threads -> Entries \cup {End}]
    /\ notified \in [Threads -> SUBSET Entries]

Executions(e) == {t \in Threads : it[t] = e}

\* ListEntry: "The count is equal to the number of current executions of that
\* entry, plus 1 if it's registered. It cannot be 0": nothing is leaked.
CountExact ==
    \A e \in list : /\ count[e] = Cardinality(Executions(e)) + (IF e \in Registered THEN 1 ELSE 0)
                    /\ count[e] # 0

\* Neither a thread nor the map refers to an entry that was erased, and the
\* entry of a registered subscriber is its own.
NothingDangles ==
    /\ \A t \in Threads : it[t] # End => it[t] \in list
    /\ \A s \in Subscribers : map[s] # End => map[s] \in list /\ callbacks[map[s]] = s

\* When Iterate returns, every subscriber that is registered was told of the
\* event, whoever came and went meanwhile.
EveryoneNotified ==
    [][\A t \in Threads : it[t] # End /\ it'[t] = End => Registered' \subseteq notified'[t]]_vars

=============================================================================
