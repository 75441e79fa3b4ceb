-------------------------- MODULE CheckQueueProofs --------------------------
(***************************************************************************)
(* For any number of workers, masters and checks, Wait returns the         *)
(* conjunction of the results of the checks that were added, and nothing   *)
(* is left of them when it returns.                                        *)
(***************************************************************************)
EXTENDS CheckQueue, FiniteSetTheorems, TLAPS

\* The checks that are queued or in a batch; those not in the batch of t.
Todo == queue \cup UNION {vChecks[t] : t \in Threads}
Rest(t) == queue \cup UNION {vChecks[u] : u \in Threads \ {t}}

PCs == {"outside", "adding", "returned", "enter", "waiting", "woken", "working", "worked",
        "interrupted"}
Busy(p) == p \in {"working", "worked"}

Bad == added \cap Failing # {}
Open == control # None /\ pc[control] # "returned"

\* Masters are outside unless they hold the control; workers have none.
Controls ==
    /\ \A m \in Masters : pc[m] # "outside" => m = control
    /\ \A w \in Workers : pc[w] \notin {"outside", "adding", "returned"}

\* Every check that was added and is not done is in one place.
Batches ==
    /\ \A t \in Threads : Busy(pc[t]) <=> vChecks[t] # {}
    /\ \A t \in Threads : vChecks[t] \cap queue = {}
    /\ \A t, u \in Threads : t # u => vChecks[t] \cap vChecks[u] = {}
    /\ Todo \subseteq added

\* Failures are remembered until Wait returns, and there is a reason for them.
Failures ==
    /\ ~fAllOk => Bad
    /\ \A t \in Threads : Busy(pc[t]) /\ ~fOk[t] => Bad
    /\ \A t \in Threads : pc[t] = "worked" /\ vChecks[t] \cap Failing # {} => ~fOk[t]
    /\ Open => \A c \in added \cap Failing : c \in Todo \/ ~fAllOk

Clean == ~Open => nTodo = 0 /\ fAllOk

IInv == TypeOK /\ Controls /\ Batches /\ nTodo = Cardinality(Todo) /\ Failures /\ Clean /\ ResultExact

\* What holds in Loop after the clean-up.
Mid(t, ok, todo, pcs) ==
    /\ pc[t] \in {"enter", "woken", "worked"}
    /\ ok \in BOOLEAN /\ todo = Cardinality(Rest(t))
    /\ pcs \in [Threads -> PCs]
    /\ \A u \in Threads : pcs[u] = pc[u] \/ (pc[u] = "waiting" /\ pcs[u] = "woken")
    /\ ~ok => Bad
    /\ ~Open => todo = 0 /\ ok
    /\ Open => \A c \in added \cap Failing : c \in Rest(t) \/ ~ok
-----------------------------------------------------------------------------
LEMMA TodoMember ==
    /\ \A c : c \in Todo <=> c \in queue \/ \E u \in Threads : c \in vChecks[u]
    /\ \A t, c : c \in Rest(t) <=> c \in queue \/ \E u \in Threads \ {t} : c \in vChecks[u]
BY DEF Todo, Rest

LEMMA Finite ==
    ASSUME TypeOK
    PROVE  /\ \A S \in SUBSET Checks : /\ IsFiniteSet(S) /\ Cardinality(S) \in Nat
                                       /\ Cardinality(S) = 0 <=> S = {}
           /\ Todo \subseteq Checks /\ \A t \in Threads : Rest(t) \subseteq Checks
<1>1. ASSUME NEW S \in SUBSET Checks PROVE IsFiniteSet(S)
  BY FS_Subset, CheckQueueAssumption
<1>2. ASSUME NEW S \in SUBSET Checks
      PROVE  IsFiniteSet(S) /\ Cardinality(S) \in Nat /\ (Cardinality(S) = 0 <=> S = {})
  BY <1>1, FS_CardinalityType, FS_EmptySet
<1>3. Todo \subseteq Checks
  BY TodoMember DEF TypeOK
<1>4. ASSUME NEW t \in Threads PROVE Rest(t) \subseteq Checks
  BY TodoMember DEF TypeOK
<1> QED BY <1>2, <1>3, <1>4

\* A batch is never empty.
LEMMA BatchNotEmpty ==
    ASSUME NEW b, NEW size, NEW total, NEW idle, Cardinality(b) = Batch(size, total, idle)
    PROVE  b # {}
<1> DEFINE x == MinOf(BatchSize, size \div (total + idle + 1))
<1>1. Cardinality(b) = IF 1 >= x THEN 1 ELSE x
  BY DEF Batch, MaxOf
<1> HIDE DEF x
<1>2. ASSUME b = {} PROVE FALSE
  <2>1. Cardinality(b) = 0
    BY <1>2, FS_EmptySet
  <2> QED BY <1>1, <2>1
<1> QED BY <1>2

\* An iteration of Loop, once the last batch is accounted for.
LEMMA IterateInv ==
    ASSUME IInv, NEW t \in Threads, NEW ok, NEW todo, NEW total \in Int, NEW idle \in Int, NEW pcs,
           Mid(t, ok, todo, pcs), Iterate(t, ok, todo, total, idle, pcs)
    PROVE  IInv'
<1> USE DEF Busy
<1>1. TypeOK /\ Controls /\ Batches /\ Failures /\ Clean /\ ResultExact
  BY DEF IInv
<1>2. PICK b : /\ b \subseteq queue /\ queue' = queue \ b
               /\ vChecks' = [vChecks EXCEPT ![t] = b]
  <2>1. CASE queue # {} /\ Take(t, ok, todo, total, idle, pcs)
    BY <2>1 DEF Take
  <2>2. CASE Return(t, ok, todo, total, idle, pcs) \/ CondWait(t, ok, todo, total, idle, pcs)
    <3>1. {} \subseteq queue /\ queue' = queue \ {} /\ vChecks' = [vChecks EXCEPT ![t] = {}]
      BY <2>2 DEF Return, CondWait
    <3> QED BY <3>1
  <2> QED BY <2>1, <2>2 DEF Iterate
<1>3. /\ pc' = [pcs EXCEPT ![t] = pc'[t]] /\ pcs \in [Threads -> PCs]
      /\ pc'[t] \in {"working", "returned", "waiting"}
      /\ control' = control /\ added' = added
      /\ nTodo' = todo
  BY DEF Iterate, Take, Return, CondWait, Mid
<1>4. \A u \in Threads \ {t} : /\ vChecks'[u] = vChecks[u]
                               /\ pc'[u] = pc[u] \/ (pc[u] = "waiting" /\ pc'[u] = "woken")
  BY <1>1, <1>2, <1>3 DEF Mid, TypeOK
<1>5. vChecks'[t] = b /\ vChecks' \in [Threads -> SUBSET Checks] /\ queue' \subseteq Checks
  BY <1>1, <1>2 DEF TypeOK
<1>6. Todo' = Rest(t)
  <2>1. \A c : c \in Todo' <=> c \in queue' \/ \E u \in Threads : c \in vChecks'[u]
    BY DEF Todo
  <2>2. \A c : c \in Todo' <=> c \in Rest(t)
    BY <1>2, <1>4, <1>5, <2>1, TodoMember
  <2> QED BY <2>2
<1>7. todo \in Nat /\ (todo = 0 <=> Rest(t) = {})
  BY <1>1, Finite DEF Mid
<1>8. pc[t] # "returned" /\ pc[t] # "outside" /\ (t = control => Open)
  BY CheckQueueAssumption DEF Mid, Open
<1>9. t \in Masters => t = control
  BY <1>1, <1>8 DEF Controls
<1>10. fOk' \in [Threads -> BOOLEAN] /\ (\A u \in Threads \ {t} : fOk'[u] = fOk[u])
  BY <1>1 DEF Iterate, Take, Return, CondWait, TypeOK, Mid
<1>11. TypeOK'
  <2>1. pc' \in [Threads -> PCs]
    BY <1>3 DEF PCs
  <2>2. /\ nIdle' \in Int /\ nTotal' \in Int /\ fAllOk' \in BOOLEAN /\ result' \in BOOLEAN
    <3>1. /\ ok \in BOOLEAN /\ result \in BOOLEAN /\ total \in Int /\ idle \in Int
          /\ total - 1 \in Int /\ idle + 1 \in Int
      BY <1>1 DEF TypeOK, Mid
    <3>2. CASE Take(t, ok, todo, total, idle, pcs)
      BY <3>1, <3>2 DEF Take
    <3>3. CASE Return(t, ok, todo, total, idle, pcs)
      BY <3>1, <3>3 DEF Return
    <3>4. CASE CondWait(t, ok, todo, total, idle, pcs)
      BY <3>1, <3>4 DEF CondWait
    <3> QED BY <3>2, <3>3, <3>4 DEF Iterate
  <2> QED BY <1>1, <1>3, <1>5, <1>7, <1>10, <2>1, <2>2 DEF TypeOK, PCs
<1>12. Controls'
  <2>1. ASSUME NEW m \in Masters, pc'[m] # "outside" PROVE m = control'
    <3>1. m # t => pc[m] # "outside"
      BY <1>4, <2>1 DEF Threads
    <3> QED BY <1>1, <1>3, <1>9, <3>1 DEF Controls
  <2>2. ASSUME NEW w \in Workers PROVE pc'[w] \notin {"outside", "adding", "returned"}
    <3>1. CASE w = t
      BY <3>1, <2>2, CheckQueueAssumption, <1>3 DEF Iterate, Take, Return, CondWait, Mid
    <3>2. CASE w # t
      BY <1>1, <1>4, <3>2 DEF Controls, Threads
    <3> QED BY <3>1, <3>2
  <2> QED BY <2>1, <2>2 DEF Controls
<1>13. Busy(pc'[t]) <=> b # {}
  <2>1. CASE queue # {} /\ Take(t, ok, todo, total, idle, pcs)
    <3>1. pc'[t] = "working"
      BY <2>1, <1>3 DEF Take
    <3>2. PICK d : Cardinality(d) = Batch(Cardinality(queue), total, idle) /\ vChecks' = [vChecks EXCEPT ![t] = d]
      BY <2>1 DEF Take
    <3>3. b = d
      BY <1>1, <1>2, <3>2 DEF TypeOK
    <3> QED BY <3>1, <3>2, <3>3, BatchNotEmpty
  <2>2. CASE Return(t, ok, todo, total, idle, pcs) \/ CondWait(t, ok, todo, total, idle, pcs)
    <3>1. queue = {} /\ pc'[t] \in {"returned", "waiting"}
      BY <2>2, <1>3 DEF Return, CondWait
    <3> QED BY <3>1, <1>2
  <2> QED BY <2>1, <2>2 DEF Iterate
<1>14. Batches'
  <2>1. ASSUME NEW u \in Threads PROVE Busy(pc'[u]) <=> vChecks'[u] # {}
    BY <1>1, <1>4, <1>5, <1>13 DEF Batches
  <2>2. ASSUME NEW u \in Threads PROVE vChecks'[u] \cap queue' = {}
    BY <1>1, <1>2, <1>4, <1>5 DEF Batches
  <2>3. ASSUME NEW u \in Threads, NEW v \in Threads, u # v PROVE vChecks'[u] \cap vChecks'[v] = {}
    BY <1>1, <1>2, <1>4, <1>5, <2>3 DEF Batches
  <2>4. Todo' \subseteq added'
    BY <1>1, <1>3, <1>6, TodoMember DEF Batches
  <2> QED BY <2>1, <2>2, <2>3, <2>4 DEF Batches
<1>15. Open' => Open
  <2>1. control # None => control \in Threads
    BY <1>1 DEF TypeOK, Threads
  <2>2. ASSUME control # None, pc[control] = "returned" PROVE pc'[control] = "returned"
    BY <1>4, <1>8, <2>1, <2>2
  <2> QED BY <1>3, <2>2 DEF Open
<1>16. fAllOk' = ok \/ (fAllOk' = TRUE /\ ~Open')
  <2>1. CASE Take(t, ok, todo, total, idle, pcs) \/ CondWait(t, ok, todo, total, idle, pcs)
    BY <2>1 DEF Take, CondWait
  <2>2. CASE Return(t, ok, todo, total, idle, pcs)
    BY <2>2, <1>3, <1>9 DEF Return, Open
  <2> QED BY <2>1, <2>2 DEF Iterate
<1>17. Open /\ ~Open' => Return(t, ok, todo, total, idle, pcs)
  <2>1. control # None => control \in Threads
    BY <1>1 DEF TypeOK, Threads
  <2>2. ASSUME Open, ~Open' PROVE control = t /\ pc'[t] = "returned"
    BY <1>3, <1>4, <2>1, <2>2 DEF Open
  <2>3. pc'[t] = "returned" => ~Take(t, ok, todo, total, idle, pcs) /\ ~CondWait(t, ok, todo, total, idle, pcs)
    BY <1>3 DEF Take, CondWait
  <2> QED BY <2>2, <2>3 DEF Iterate
<1>18. Bad' <=> Bad
  BY <1>3 DEF Bad
<1>19. Failures'
  <2>1. ~fAllOk' => Bad'
    BY <1>16, <1>18 DEF Mid
  <2>2. ASSUME NEW u \in Threads, Busy(pc'[u]), ~fOk'[u] PROVE Bad'
    <3>1. CASE u = t
      <4>1. pc'[t] = "working" /\ Take(t, ok, todo, total, idle, pcs)
        BY <2>2, <3>1, <1>3 DEF Iterate, Return, CondWait
      <4>2. fOk'[t] = ok
        BY <4>1, <1>1 DEF Take, TypeOK
      <4> QED BY <2>2, <3>1, <4>2, <1>18 DEF Mid
    <3>2. CASE u # t
      BY <2>2, <3>2, <1>1, <1>4, <1>10, <1>18 DEF Failures
    <3> QED BY <3>1, <3>2
  <2>3. ASSUME NEW u \in Threads, pc'[u] = "worked", vChecks'[u] \cap Failing # {} PROVE ~fOk'[u]
    <3>1. u # t
      BY <2>3, <1>3
    <3> QED BY <2>3, <3>1, <1>1, <1>4, <1>10 DEF Failures
  <2>4. ASSUME Open', NEW c \in added' \cap Failing PROVE c \in Todo' \/ ~fAllOk'
    <3>1. Open /\ fAllOk' = ok /\ c \in added \cap Failing
      BY <2>4, <1>3, <1>15, <1>16
    <3>2. c \in Rest(t) \/ ~ok
      BY <3>1 DEF Mid
    <3> QED BY <3>1, <3>2, <1>6
  <2> QED BY <2>1, <2>2, <2>3, <2>4 DEF Failures
<1>20. Clean'
  <2>1. CASE Open /\ ~Open'
    <3>1. Return(t, ok, todo, total, idle, pcs)
      BY <2>1, <1>17
    <3> QED BY <3>1 DEF Return, Clean
  <2>2. CASE ~Open
    <3>1. todo = 0 /\ ok
      BY <2>2 DEF Mid
    <3>2. fAllOk'
      BY <3>1, <1>16
    <3> QED BY <3>1, <3>2, <1>3 DEF Clean
  <2>3. CASE Open'
    BY <2>3 DEF Clean
  <2> QED BY <2>1, <2>2, <2>3
<1>21. ResultExact'
  <2> SUFFICES ASSUME NEW m \in Masters, pc'[m] = "returned"
               PROVE  result' <=> added' \cap Failing = {}
    BY DEF ResultExact
  <2>1. m \in Threads
    BY DEF Threads
  <2>2. CASE m = t
    <3>1. Return(t, ok, todo, total, idle, pcs)
      BY <2>2, <1>3 DEF Iterate, Take, CondWait
    <3>2. result' = ok /\ Rest(t) = {}
      BY <3>1, <1>7 DEF Return
    <3>3. Open
      BY <2>2, <1>8, <1>9
    <3>4. ~ok <=> Bad
      BY <3>2, <3>3 DEF Mid, Bad
    <3> QED BY <3>2, <3>4, <1>3 DEF Bad
  <2>3. CASE m # t
    <3>1. pc[m] = "returned"
      BY <2>1, <2>3, <1>4
    <3>2. m = control
      BY <3>1, <1>1 DEF Controls
    <3>3. t \notin Masters
      BY <3>2, <2>3, <1>9
    <3>4. result' = result
      BY <3>3 DEF Iterate, Take, Return, CondWait
    <3> QED BY <3>1, <3>4, <1>1, <1>3 DEF ResultExact
  <2> QED BY <2>2, <2>3
<1>22. (nTodo = Cardinality(Todo))'
  BY <1>3, <1>6 DEF Mid
<1> QED BY <1>11, <1>12, <1>14, <1>19, <1>20, <1>21, <1>22 DEF IInv

\* A thread begins to wait, or stops: nothing else changes.
LEMMA MovedInv ==
    ASSUME IInv, pc' \in [Threads -> PCs],
           UNCHANGED <<queue, nIdle, nTotal, fAllOk, nTodo, control, vChecks, fOk, result, added>>,
           \A u \in Threads : \/ pc'[u] = pc[u]
                              \/ /\ pc[u] \in {"adding", "waiting", "woken"}
                                 /\ pc'[u] \in {"enter", "woken", "interrupted"}
    PROVE  IInv'
<1>1. TypeOK /\ Controls /\ Batches /\ Failures /\ Clean /\ ResultExact /\ nTodo = Cardinality(Todo)
  BY DEF IInv
<1>2. TypeOK'
  BY <1>1 DEF TypeOK, PCs
<1>3. Todo' = Todo /\ (Bad' <=> Bad)
  BY DEF Todo, Bad
<1>4. control # None => control \in Threads
  BY <1>1 DEF TypeOK, Threads
<1>5. Open' <=> Open
  BY <1>4 DEF Open
<1>6. \A u \in Threads : (Busy(pc'[u]) <=> Busy(pc[u])) /\ (pc'[u] = "worked" <=> pc[u] = "worked")
  BY DEF Busy
<1>7. Controls'
  BY <1>1 DEF Controls, Threads
<1>8. Batches'
  BY <1>1, <1>3, <1>6 DEF Batches
<1>9. Failures'
  BY <1>1, <1>3, <1>5, <1>6 DEF Failures
<1>10. Clean'
  BY <1>1, <1>5 DEF Clean
<1>11. ResultExact'
  BY <1>1 DEF ResultExact, Threads
<1> QED BY <1>1, <1>2, <1>3, <1>7, <1>8, <1>9, <1>10, <1>11 DEF IInv

LEMMA EnterInv ==
    ASSUME IInv, NEW t \in Threads, Enter(t) \/ Resume(t)
    PROVE  IInv'
<1>1. TypeOK /\ Controls /\ Batches /\ Failures /\ Clean /\ nTodo = Cardinality(Todo)
  BY DEF IInv
<1>2. pc[t] \in {"enter", "woken"}
  BY DEF Enter, Resume
<1>3. vChecks[t] = {}
  BY <1>1, <1>2 DEF Batches, Busy
<1>4. Rest(t) = Todo
  <2>1. \A c : c \in Rest(t) <=> c \in Todo
    BY <1>3, TodoMember
  <2> QED BY <2>1
<1>5. Mid(t, fAllOk, nTodo, pc)
  <2>1. fAllOk \in BOOLEAN /\ pc \in [Threads -> PCs]
    BY <1>1 DEF TypeOK, PCs
  <2> QED BY <1>1, <1>2, <1>4, <2>1 DEF Mid, Failures, Clean
<1>6. nTotal + 1 \in Int /\ nIdle - 1 \in Int /\ nTotal \in Int /\ nIdle \in Int
  BY <1>1 DEF TypeOK
<1> QED BY <1>5, <1>6, IterateInv DEF Enter, Resume

LEMMA WorkedInv ==
    ASSUME IInv, NEW t \in Threads, Worked(t)
    PROVE  IInv'
<1> DEFINE todo == nTodo - Cardinality(vChecks[t])
           masters == {m \in Masters : pc[m] = "waiting" /\ todo = 0 /\ t \notin Masters}
           ok == fAllOk /\ fOk[t]
           pcs == Woken(masters)
<1>1. TypeOK /\ Controls /\ Batches /\ Failures /\ Clean /\ nTodo = Cardinality(Todo)
  BY DEF IInv
<1>2. pc[t] = "worked" /\ Iterate(t, ok, todo, nTotal, nIdle, pcs)
  BY DEF Worked
<1>3. vChecks[t] # {} /\ vChecks[t] \subseteq Todo /\ vChecks[t] \subseteq Checks
  BY <1>1, <1>2, TodoMember DEF Batches, Busy, TypeOK
<1>4. \A c : c \in Todo <=> c \in Rest(t) \/ c \in vChecks[t]
  BY TodoMember
<1>5. vChecks[t] \cap Rest(t) = {}
  BY <1>1, TodoMember DEF Batches
<1>6. todo = Cardinality(Rest(t))
  <2>1. IsFiniteSet(Rest(t)) /\ IsFiniteSet(vChecks[t])
    BY <1>1, <1>3, Finite
  <2>2. Todo = Rest(t) \cup vChecks[t] /\ Rest(t) \cap vChecks[t] = {}
    BY <1>4, <1>5
  <2>3. Cardinality(Todo) = Cardinality(Rest(t)) + Cardinality(vChecks[t]) - Cardinality({})
    BY <2>1, <2>2, FS_Union
  <2>4. Cardinality({}) = 0
    BY FS_EmptySet
  <2>5. Cardinality(Rest(t)) \in Nat /\ Cardinality(vChecks[t]) \in Nat
    BY <1>1, <1>3, Finite
  <2> QED BY <1>1, <2>3, <2>4, <2>5
<1>7. nTodo # 0
  BY <1>1, <1>3, Finite
<1>8. Open
  BY <1>1, <1>7 DEF Clean
<1>9. ok \in BOOLEAN /\ (~ok <=> ~fAllOk \/ ~fOk[t])
  BY <1>1 DEF TypeOK
<1>10. pcs \in [Threads -> PCs]
  BY <1>1 DEF TypeOK, PCs, Woken
<1>11. \A u \in Threads : pcs[u] = pc[u] \/ (pc[u] = "waiting" /\ pcs[u] = "woken")
  BY DEF Woken
<1> HIDE DEF todo, masters, ok, pcs
<1>12. ~ok => Bad
  BY <1>1, <1>2, <1>9 DEF Failures, Busy
<1>13. ASSUME NEW c \in added \cap Failing PROVE c \in Rest(t) \/ ~ok
  <2>1. c \in Todo \/ ~fAllOk
    BY <1>1, <1>8 DEF Failures
  <2>2. CASE c \in vChecks[t]
    <3>1. ~fOk[t]
      BY <1>1, <1>2, <2>2 DEF Failures
    <3> QED BY <3>1, <1>9
  <2> QED BY <2>1, <2>2, <1>4, <1>9
<1>14. Mid(t, ok, todo, pcs)
  BY <1>2, <1>6, <1>8, <1>9, <1>10, <1>11, <1>12, <1>13 DEF Mid
<1>15. nTotal \in Int /\ nIdle \in Int
  BY <1>1 DEF TypeOK
<1> QED BY <1>2, <1>14, <1>15, IterateInv

LEMMA WorkInv ==
    ASSUME IInv, NEW t \in Threads, Work(t)
    PROVE  IInv'
<1>1. TypeOK /\ Controls /\ Batches /\ Failures /\ Clean /\ ResultExact /\ nTodo = Cardinality(Todo)
  BY DEF IInv
<1>2. /\ pc[t] = "working" /\ pc' = [pc EXCEPT ![t] = "worked"]
      /\ UNCHANGED <<queue, nIdle, nTotal, fAllOk, nTodo, control, vChecks, result, added>>
  BY DEF Work
<1>3. /\ fOk' \in [Threads -> BOOLEAN] /\ \A u \in Threads \ {t} : fOk'[u] = fOk[u]
      /\ fOk'[t] = (fOk[t] /\ vChecks[t] \cap Failing = {})
  BY <1>1 DEF Work, TypeOK
<1>4. /\ pc' \in [Threads -> PCs] /\ pc'[t] = "worked"
      /\ \A u \in Threads \ {t} : pc'[u] = pc[u]
  BY <1>1, <1>2 DEF TypeOK, PCs
<1>5. TypeOK'
  BY <1>1, <1>2, <1>3, <1>4 DEF TypeOK, PCs
<1>6. Todo' = Todo /\ (Bad' <=> Bad)
  BY <1>2 DEF Todo, Bad
<1>7. control # None => control \in Threads
  BY <1>1 DEF TypeOK, Threads
<1>8. Open' <=> Open
  BY <1>2, <1>4, <1>7 DEF Open
<1>9. \A u \in Threads : Busy(pc'[u]) <=> Busy(pc[u])
  BY <1>2, <1>4 DEF Busy
<1>10. Controls'
  BY <1>1, <1>2, <1>4 DEF Controls, Threads
<1>11. Batches'
  BY <1>1, <1>2, <1>6, <1>9 DEF Batches
<1>12. vChecks[t] \cap Failing # {} => Bad
  BY <1>1, TodoMember DEF Batches, Bad
<1>13. Failures'
  <2>1. ASSUME NEW u \in Threads, Busy(pc'[u]), ~fOk'[u] PROVE Bad'
    <3>1. CASE u = t
      BY <2>1, <3>1, <1>1, <1>3, <1>6, <1>9, <1>12 DEF Failures
    <3>2. CASE u # t
      BY <2>1, <3>2, <1>1, <1>3, <1>6, <1>9 DEF Failures
    <3> QED BY <3>1, <3>2
  <2>2. ASSUME NEW u \in Threads, pc'[u] = "worked", vChecks'[u] \cap Failing # {} PROVE ~fOk'[u]
    BY <2>2, <1>1, <1>2, <1>3, <1>4 DEF Failures
  <2> QED BY <1>1, <1>2, <1>6, <1>8, <2>1, <2>2 DEF Failures
<1>14. Clean'
  BY <1>1, <1>2, <1>8 DEF Clean
<1>15. ResultExact'
  BY <1>1, <1>2, <1>4 DEF ResultExact, Threads
<1> QED BY <1>1, <1>2, <1>5, <1>6, <1>10, <1>11, <1>13, <1>14, <1>15 DEF IInv

LEMMA AddInv ==
    ASSUME IInv, NEW m \in Masters, NEW S \in SUBSET (Checks \ added), Add(m, S)
    PROVE  IInv'
<1>1. TypeOK /\ Controls /\ Batches /\ Failures /\ Clean /\ ResultExact /\ nTodo = Cardinality(Todo)
  BY DEF IInv
<1>2. /\ pc[m] = "adding" /\ queue' = queue \cup S /\ added' = added \cup S
      /\ nTodo' = nTodo + Cardinality(S)
      /\ UNCHANGED <<nIdle, nTotal, fAllOk, control, vChecks, fOk, result>>
  BY DEF Add
<1>3. PICK W : W \subseteq Waiting /\ pc' = Woken(W)
  BY DEF Add, Notified
<1>4. pc' \in [Threads -> PCs]
  BY <1>1, <1>3 DEF Woken, TypeOK, PCs
<1>5. \A u \in Threads : pc'[u] = pc[u] \/ (u \in Workers /\ pc[u] = "waiting" /\ pc'[u] = "woken")
  BY <1>3 DEF Woken, Waiting
<1>6. m = control /\ control # None /\ m \in Threads
  BY <1>1, <1>2, CheckQueueAssumption DEF Controls, Threads
<1>7. Open
  BY <1>2, <1>6 DEF Open
<1>8. pc'[m] = "adding"
  BY <1>2, <1>5, <1>6
<1>9. Todo' = Todo \cup S
  <2>1. \A c : c \in Todo' <=> c \in queue' \/ \E u \in Threads : c \in vChecks'[u]
    BY DEF Todo
  <2>2. \A c : c \in Todo' <=> c \in Todo \/ c \in S
    BY <1>2, <2>1, TodoMember
  <2> QED BY <2>2
<1>10. nTodo' = Cardinality(Todo') /\ nTodo' \in Nat
  <2>1. Todo \cap S = {}
    BY <1>1 DEF Batches
  <2>2. IsFiniteSet(Todo) /\ IsFiniteSet(S) /\ Cardinality(Todo) \in Nat /\ Cardinality(S) \in Nat
    BY <1>1, Finite
  <2>3. Cardinality(Todo') = Cardinality(Todo) + Cardinality(S) - Cardinality({})
    BY <1>9, <2>1, <2>2, FS_Union
  <2>4. Cardinality({}) = 0
    BY FS_EmptySet
  <2> QED BY <1>1, <1>2, <2>2, <2>3, <2>4
<1>11. TypeOK'
  BY <1>1, <1>2, <1>4, <1>10 DEF TypeOK, PCs
<1>12. Controls'
  BY <1>1, <1>2, <1>5 DEF Controls, Threads
<1>13. \A u \in Threads : (Busy(pc'[u]) <=> Busy(pc[u])) /\ (pc'[u] = "worked" <=> pc[u] = "worked")
  BY <1>5 DEF Busy
<1>14. Batches'
  <2>1. \A u \in Threads : vChecks[u] \cap S = {}
    BY <1>1, TodoMember DEF Batches
  <2>2. Todo' \subseteq added'
    BY <1>1, <1>2, <1>9 DEF Batches
  <2> QED BY <1>1, <1>2, <1>13, <2>1, <2>2 DEF Batches
<1>15. Bad => Bad'
  BY <1>2 DEF Bad
<1>16. Failures'
  <2>1. ASSUME NEW c \in added' \cap Failing PROVE c \in Todo' \/ ~fAllOk'
    BY <1>1, <1>2, <1>7, <1>9 DEF Failures
  <2> QED BY <1>1, <1>2, <1>13, <1>15, <2>1 DEF Failures
<1>17. Clean'
  BY <1>2, <1>6, <1>8 DEF Clean, Open
<1>18. ResultExact'
  <2>1. ASSUME NEW n \in Masters PROVE pc'[n] # "returned"
    <3>1. n = m \/ pc[n] = "outside"
      BY <1>1, <1>6 DEF Controls
    <3> QED BY <3>1, <1>5, <1>8 DEF Threads
  <2> QED BY <2>1 DEF ResultExact
<1> QED BY <1>10, <1>11, <1>12, <1>14, <1>16, <1>17, <1>18 DEF IInv

LEMMA ControlInv ==
    ASSUME IInv, NEW m \in Masters, Control(m)
    PROVE  IInv'
<1>1. TypeOK /\ Controls /\ Batches /\ Failures /\ Clean /\ ResultExact /\ nTodo = Cardinality(Todo)
  BY DEF IInv
<1>2. /\ pc[m] = "outside" /\ control = None /\ control' = m /\ added' = {}
      /\ pc' = [pc EXCEPT ![m] = "adding"]
      /\ UNCHANGED <<queue, nIdle, nTotal, fAllOk, nTodo, vChecks, fOk, result>>
  BY DEF Control
<1>3. nTodo = 0 /\ fAllOk /\ Todo = {}
  BY <1>1, <1>2, Finite DEF Clean, Open
<1>4. Todo' = {} /\ \A u \in Threads : vChecks[u] = {}
  <2>1. Todo' = Todo
    BY <1>2 DEF Todo
  <2> QED BY <2>1, <1>3, TodoMember
<1>5. m \in Threads /\ pc' \in [Threads -> PCs] /\ pc'[m] = "adding"
      /\ \A u \in Threads \ {m} : pc'[u] = pc[u]
  BY <1>1, <1>2 DEF TypeOK, PCs, Threads
<1>6. TypeOK'
  BY <1>1, <1>2, <1>5 DEF TypeOK, PCs
<1>7. \A n \in Masters : pc[n] = "outside"
  BY <1>1, <1>2, CheckQueueAssumption DEF Controls, Threads
<1>8. Controls'
  BY <1>1, <1>2, <1>5, <1>7, CheckQueueAssumption DEF Controls, Threads
<1>9. \A u \in Threads : ~Busy(pc'[u])
  BY <1>1, <1>4, <1>5 DEF Batches, Busy
<1>10. Batches'
  BY <1>2, <1>4, <1>9 DEF Batches
<1>11. Failures'
  BY <1>2, <1>3, <1>4, <1>9 DEF Failures, Busy
<1>12. Clean'
  BY <1>2, <1>3 DEF Clean
<1>13. ResultExact'
  BY <1>5, <1>7 DEF ResultExact, Threads
<1>14. (nTodo = Cardinality(Todo))'
  BY <1>2, <1>3, <1>4, FS_EmptySet
<1> QED BY <1>6, <1>8, <1>10, <1>11, <1>12, <1>13, <1>14 DEF IInv

LEMMA LeaveInv ==
    ASSUME IInv, NEW m \in Masters, Leave(m)
    PROVE  IInv'
<1>1. TypeOK /\ Controls /\ Batches /\ Failures /\ Clean /\ ResultExact /\ nTodo = Cardinality(Todo)
  BY DEF IInv
<1>2. /\ pc[m] = "returned" /\ control' = None
      /\ pc' = [pc EXCEPT ![m] = "outside"]
      /\ UNCHANGED <<queue, nIdle, nTotal, fAllOk, nTodo, vChecks, fOk, result, added>>
  BY DEF Leave
<1>3. m = control
  BY <1>1, <1>2 DEF Controls
<1>4. ~Open /\ ~Open'
  BY <1>2, <1>3 DEF Open
<1>5. m \in Threads /\ pc' \in [Threads -> PCs] /\ pc'[m] = "outside"
      /\ \A u \in Threads \ {m} : pc'[u] = pc[u]
  BY <1>1, <1>2 DEF TypeOK, PCs, Threads
<1>6. TypeOK'
  BY <1>1, <1>2, <1>5 DEF TypeOK, PCs
<1>7. \A n \in Masters : pc'[n] = "outside"
  BY <1>1, <1>3, <1>5 DEF Controls, Threads
<1>8. Controls'
  BY <1>1, <1>5, <1>7, CheckQueueAssumption DEF Controls, Threads
<1>9. \A u \in Threads : (Busy(pc'[u]) <=> Busy(pc[u])) /\ (pc'[u] = "worked" <=> pc[u] = "worked")
  BY <1>2, <1>5 DEF Busy
<1>10. Todo' = Todo /\ (Bad' <=> Bad)
  BY <1>2 DEF Todo, Bad
<1>11. Batches'
  BY <1>1, <1>2, <1>9, <1>10, SMTT(30) DEF Batches
<1>12. Failures'
  BY <1>1, <1>2, <1>4, <1>9, <1>10 DEF Failures
<1>13. Clean'
  BY <1>1, <1>2, <1>4 DEF Clean
<1>14. ResultExact'
  BY <1>7 DEF ResultExact
<1> QED BY <1>1, <1>2, <1>6, <1>8, <1>10, <1>11, <1>12, <1>13, <1>14 DEF IInv
-----------------------------------------------------------------------------
LEMMA InitInv == Init => IInv
<1> SUFFICES ASSUME Init PROVE IInv
  OBVIOUS
<1>1. Todo = {}
  BY TodoMember DEF Init
<1>2. TypeOK
  <2>1. pc \in [Threads -> PCs]
    BY DEF Init, PCs
  <2>2. vChecks \in [Threads -> SUBSET Checks] /\ fOk \in [Threads -> BOOLEAN]
    BY DEF Init
  <2>3. fAllOk \in BOOLEAN /\ result \in BOOLEAN
    BY Zenon DEF Init
  <2>4. /\ queue \subseteq Checks /\ added \subseteq Checks /\ control \in Masters \cup {None}
        /\ nIdle \in Int /\ nTotal \in Int /\ nTodo \in Nat
    BY DEF Init
  <2> QED BY <2>1, <2>2, <2>3, <2>4 DEF TypeOK, PCs
<1>3. \A t \in Threads : pc[t] \in {"enter", "outside"} /\ vChecks[t] = {}
  BY DEF Init
<1>4. Controls
  BY CheckQueueAssumption DEF Init, Controls, Threads
<1>5. Batches
  BY <1>1, <1>3 DEF Init, Batches, Busy
<1>6. Failures /\ Clean
  BY <1>3 DEF Init, Failures, Clean, Bad, Busy
<1>7. ResultExact
  BY <1>3 DEF ResultExact, Threads
<1>8. nTodo = Cardinality(Todo)
  BY <1>1, FS_EmptySet DEF Init
<1> QED BY <1>2, <1>4, <1>5, <1>6, <1>7, <1>8 DEF IInv

LEMMA NextInv == IInv /\ [Next]_vars => IInv'
<1> SUFFICES ASSUME IInv, [Next]_vars PROVE IInv'
  OBVIOUS
<1>1. TypeOK
  BY DEF IInv
<1>2. ASSUME NEW t \in Threads, Loop(t) PROVE IInv'
  BY <1>2, EnterInv, WorkInv, WorkedInv DEF Loop
<1>3. ASSUME NEW t \in Threads, WakeUp(t) PROVE IInv'
  <2>1. pc' \in [Threads -> PCs]
        /\ \A u \in Threads : pc'[u] = pc[u] \/ (pc[u] = "waiting" /\ pc'[u] = "woken")
    BY <1>1, <1>3 DEF WakeUp, TypeOK, PCs
  <2> QED BY <1>1, <1>3, <2>1, MovedInv DEF WakeUp, TypeOK
<1>4. ASSUME NEW w \in Workers, Interrupted(w) PROVE IInv'
  <2>1. pc' \in [Threads -> PCs]
        /\ \A u \in Threads : pc'[u] = pc[u] \/ (pc[u] \in {"waiting", "woken"} /\ pc'[u] = "interrupted")
    BY <1>1, <1>4 DEF Interrupted, TypeOK, PCs
  <2> QED BY <1>1, <1>4, <2>1, MovedInv DEF Interrupted, TypeOK
<1>5. ASSUME NEW m \in Masters, Wait(m) PROVE IInv'
  <2>1. pc' \in [Threads -> PCs]
        /\ \A u \in Threads : pc'[u] = pc[u] \/ (pc[u] = "adding" /\ pc'[u] = "enter")
    BY <1>1, <1>5 DEF Wait, TypeOK, PCs
  <2>2. /\ UNCHANGED <<queue, nIdle, nTotal, fAllOk, nTodo, control, vChecks, fOk, result, added>>
    BY <1>1, <1>5 DEF Wait, TypeOK
  <2> QED BY <2>1, <2>2, MovedInv
<1>6. CASE UNCHANGED vars
  <2>1. pc' \in [Threads -> PCs] /\ (\A u \in Threads : pc'[u] = pc[u])
    BY <1>1, <1>6 DEF vars, TypeOK, PCs
  <2> QED BY <1>6, <2>1, MovedInv DEF vars
<1> QED BY <1>2, <1>3, <1>4, <1>5, <1>6, AddInv, ControlInv, LeaveInv DEF Next

\* The inductive invariant of the queue, its batches and its results.
THEOREM Invariance == Spec => []IInv
BY InitInv, NextInv, PTL DEF Spec

\* The fields have their types; nTodo, which is unsigned, never goes below 0.
THEOREM TypeCorrect == Spec => []TypeOK
<1>1. IInv => TypeOK
  BY DEF IInv
<1> QED BY <1>1, Invariance, PTL

\* Wait returns whether all checks of this control succeeded.
THEOREM ResultSafe == Spec => []ResultExact
<1>1. IInv => ResultExact
  BY DEF IInv
<1> QED BY <1>1, Invariance, PTL

\* nTodo counts the checks that are queued or in a batch.
THEOREM TodoSafe == Spec => []TodoExact
<1>1. IInv => TodoExact
  BY DEF IInv, TodoExact, Todo
<1> QED BY <1>1, Invariance, PTL

\* When a control is released nothing is left of its checks.
THEOREM FinishedSafe == Spec => []FinishedBeforeContinuing
<1>1. ASSUME IInv PROVE FinishedBeforeContinuing
  <2> SUFFICES ASSUME ~Open
               PROVE  queue = {} /\ nTodo = 0 /\ fAllOk /\ \A t \in Threads : vChecks[t] = {}
    BY DEF FinishedBeforeContinuing, Open
  <2>1. nTodo = 0 /\ fAllOk
    BY <1>1 DEF IInv, Clean
  <2>2. Todo = {}
    BY <1>1, <2>1, Finite DEF IInv
  <2> QED BY <2>1, <2>2, TodoMember
<1> QED BY <1>1, Invariance, PTL
=============================================================================
