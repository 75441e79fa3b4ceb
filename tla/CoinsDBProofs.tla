---------------------------- MODULE CoinsDBProofs ----------------------------
(***************************************************************************)
(* The safety of CoinsDB, for every block tree and every way to crash.     *)
(***************************************************************************)
EXTENDS CoinsDB, TLAPS

\* Every coin of m is the one of block s or of block t.
Mix(m, s, t) == \A o \in OutPoints : m[o] = UTXO[s][o] \/ m[o] = UTXO[t][o]

\* Off the entries in d, m and v are the same.
Clean(m, v, d) == \A o \in OutPoints \ d : m[o] = v[o]

DiskInv ==
    /\ headBlocks = <<>> => coins = UTXO[bestBlock]
    /\ headBlocks # <<>> => /\ bestBlock = NullHash
                            /\ Mix(coins, headBlocks[1], headBlocks[2])

\* While replaying, every coin is the one of the block the replay is at, or
\* the one of the block it goes to.
ViewInv ==
    /\ mode \in {"running", "indexed"} =>
         headBlocks = <<>> /\ view = UTXO[tip] /\ Clean(coins, view, dirty)
    /\ mode = "writing" =>
         /\ tip \in Blocks /\ view = UTXO[tip] /\ Clean(coins, view, toWrite)
         /\ headBlocks # <<>> => headBlocks[1] = tip
    /\ mode \in {"rollback", "rollforward"} =>
         headBlocks # <<>> /\ Mix(view, tip, headBlocks[1]) /\ Clean(coins, view, dirty)
    /\ mode = "rollforward" => tip \in Blocks

IInv == TypeOK /\ DiskInv /\ ViewInv
-----------------------------------------------------------------------------
(* Blocks and their effects.                                               *)

LEMMA EffectType ==
    ASSUME NEW b \in Blocks \ {Genesis}, NEW u \in Maps
    PROVE  /\ ConnectBlock(b, u) \in Maps
           /\ DisconnectBlock(b, u) \in Maps
           /\ Parent[b] \in Blocks
BY TreeAssumption, CoinsAssumption DEF ConnectBlock, DisconnectBlock, Maps, NoBlock

\* Disconnecting a block undoes connecting it.
LEMMA DisconnectUndoes ==
    ASSUME NEW b \in Blocks \ {Genesis}
    PROVE  DisconnectBlock(b, UTXO[b]) = UTXO[Parent[b]]
<1> DEFINE P == UTXO[Parent[b]]
<1>1. /\ P \in Maps /\ UTXO[b] = ConnectBlock(b, P)
      /\ \A o \in OutPoints : Creates[b][o] # Spent => P[o] = Spent
  BY TreeAssumption, CoinsAssumption DEF NoBlock
<1>2. \A o \in OutPoints : DisconnectBlock(b, UTXO[b])[o] = P[o]
  BY <1>1 DEF ConnectBlock, DisconnectBlock
<1>3. DisconnectBlock(b, UTXO[b]) = [o \in OutPoints |-> P[o]]
  BY <1>2 DEF DisconnectBlock
<1> QED BY <1>1, <1>3 DEF Maps

\* Connecting a block, to a database that may already have it, keeps every
\* coin on the way from its parent to n.
LEMMA ConnectMix ==
    ASSUME NEW b \in Blocks \ {Genesis}, NEW n \in Blocks, NEW u \in Maps,
           Mix(u, Parent[b], n)
    PROVE  Mix(ConnectBlock(b, u), b, n)
<1> DEFINE P == UTXO[Parent[b]]
<1>1. P \in Maps /\ UTXO[b] = ConnectBlock(b, P)
  BY TreeAssumption, CoinsAssumption DEF NoBlock
<1>2. SUFFICES ASSUME NEW o \in OutPoints
               PROVE  ConnectBlock(b, u)[o] = UTXO[b][o] \/ ConnectBlock(b, u)[o] = UTXO[n][o]
  BY DEF Mix
<1>3. u[o] = P[o] \/ u[o] = UTXO[n][o]
  BY DEF Mix
<1> QED BY <1>1, <1>3 DEF ConnectBlock

\* The same for disconnecting a block, that may not have been connected.
LEMMA DisconnectMix ==
    ASSUME NEW b \in Blocks \ {Genesis}, NEW n \in Blocks, NEW u \in Maps,
           Mix(u, b, n)
    PROVE  Mix(DisconnectBlock(b, u), Parent[b], n)
<1> DEFINE P == UTXO[Parent[b]]
<1>1. /\ P \in Maps /\ UTXO[b] = ConnectBlock(b, P)
      /\ \A o \in OutPoints : Creates[b][o] # Spent => P[o] = Spent
  BY TreeAssumption, CoinsAssumption DEF NoBlock
<1>2. SUFFICES ASSUME NEW o \in OutPoints
               PROVE  DisconnectBlock(b, u)[o] = P[o] \/ DisconnectBlock(b, u)[o] = UTXO[n][o]
  BY DEF Mix
<1>3. u[o] = UTXO[b][o] \/ u[o] = UTXO[n][o]
  BY DEF Mix
<1> QED BY <1>1, <1>3 DEF ConnectBlock, DisconnectBlock

\* What a cache operation does not write, it does not change.
LEMMA EffectClean ==
    ASSUME NEW b \in Blocks \ {Genesis}, TypeOK, Clean(coins, view, dirty),
           NEW u, u = ConnectBlock(b, view) \/ u = DisconnectBlock(b, view),
           Wrote(u, Touched(b))
    PROVE  view' = u /\ dirty' \in SUBSET OutPoints /\ Clean(coins, view', dirty')
<1>1. PICK fresh \in SUBSET {o \in dirty \cup Touched(b) : u[o] = Spent /\ coins[o] = Spent} :
        dirty' = (dirty \cup Touched(b)) \ fresh
  BY DEF Wrote
<1>2. view' = u
  BY DEF Wrote
<1>3. dirty' \in SUBSET OutPoints
  BY <1>1 DEF TypeOK, Touched
<1>4. ASSUME NEW o \in OutPoints \ dirty' PROVE coins[o] = u[o]
  <2>1. CASE o \in fresh
    BY <2>1, <1>1
  <2>2. CASE o \notin fresh
    <3>1. o \notin dirty /\ o \notin Touched(b)
      BY <2>2, <1>1, <1>4
    <3>2. u[o] = view[o]
      BY <3>1 DEF Touched, ConnectBlock, DisconnectBlock
    <3> QED BY <3>1, <3>2 DEF Clean
  <2> QED BY <2>1, <2>2
<1> QED BY <1>2, <1>3, <1>4 DEF Clean
-----------------------------------------------------------------------------
(* One step of each kind.                                                  *)

\* Steps of a running node.
LEMMA RunningSteps ==
    ASSUME IInv, \/ \E b \in Blocks : AcceptBlockHeader(b) \/ AcceptBlock(b) \/ ConnectTip(b)
                 \/ DisconnectTip \/ FlushStateToDisk \/ FlushCoins
    PROVE  IInv'
<1> USE DEF IInv
<1>1. ASSUME NEW b \in Blocks, AcceptBlockHeader(b) \/ AcceptBlock(b) PROVE IInv'
  <2>1. UNCHANGED <<coins, bestBlock, headBlocks, diskIndex, fHavePruned, mode, tip, view, dirty, toWrite>>
    BY <1>1 DEF AcceptBlockHeader, AcceptBlock, disk
  <2>2. index' \in Indexes
    <3>1. CASE AcceptBlockHeader(b)
      BY <3>1 DEF AcceptBlockHeader, TypeOK, Indexes
    <3>2. CASE AcceptBlock(b)
      BY <3>2 DEF AcceptBlock, TypeOK, Indexes
    <3> QED BY <1>1, <3>1, <3>2
  <2>3. TypeOK'
    BY <2>1, <2>2 DEF TypeOK
  <2> QED BY <2>1, <2>3, SMTT(30) DEF DiskInv, ViewInv
<1>2. ASSUME NEW b \in Blocks, ConnectTip(b) PROVE IInv'
  <2>1. CASE b = Genesis
    <3>1. tip = NullHash /\ tip' = Genesis /\ UTXO[tip'] = UTXO[tip]
      BY <1>2, <2>1, TreeAssumption, CoinsAssumption DEF ConnectTip
    <3> QED BY <1>2, <2>1, <3>1, TreeAssumption
            DEF ConnectTip, TypeOK, DiskInv, ViewInv, disk, NoBlock
  <2>2. CASE b # Genesis
    <3> DEFINE u == ConnectBlock(b, view)
    <3>1. /\ mode = "running" /\ tip = Parent[b] /\ tip' = b
          /\ Wrote(u, Touched(b)) /\ index' = [index EXCEPT !.undo = @ \cup {b}]
          /\ UNCHANGED <<coins, bestBlock, headBlocks, diskIndex, fHavePruned, mode, toWrite>>
      BY <1>2, <2>2 DEF ConnectTip, disk
    <3>2. headBlocks = <<>> /\ view = UTXO[tip] /\ Clean(coins, view, dirty)
      BY <3>1 DEF ViewInv
    <3>3. u = UTXO[b] /\ u \in Maps
      BY <2>2, <3>1, <3>2, EffectType, CoinsAssumption DEF TypeOK
    <3>4. view' = u /\ dirty' \in SUBSET OutPoints /\ Clean(coins, view', dirty')
      BY <2>2, <3>1, <3>2, EffectClean
    <3>5. index' \in Indexes
      BY <3>1 DEF TypeOK, Indexes
    <3>6. TypeOK'
      BY <3>1, <3>3, <3>4, <3>5 DEF TypeOK, NoBlock
    <3> QED BY <3>1, <3>2, <3>3, <3>4, <3>6 DEF DiskInv, ViewInv
  <2> QED BY <2>1, <2>2
<1>3. CASE DisconnectTip
  <2> DEFINE u == DisconnectBlock(tip, view)
  <2>1. /\ mode = "running" /\ tip \in Blocks \ {Genesis} /\ tip' = Parent[tip]
        /\ Wrote(u, Touched(tip))
        /\ UNCHANGED <<coins, bestBlock, headBlocks, diskIndex, fHavePruned, index, mode, toWrite>>
    BY <1>3 DEF DisconnectTip, disk, TypeOK, NoBlock
  <2>2. headBlocks = <<>> /\ view = UTXO[tip] /\ Clean(coins, view, dirty)
    BY <2>1 DEF ViewInv
  <2>3. u = UTXO[Parent[tip]] /\ u \in Maps /\ Parent[tip] \in Blocks
    BY <2>1, <2>2, EffectType, DisconnectUndoes DEF TypeOK
  <2>4. view' = u /\ dirty' \in SUBSET OutPoints /\ Clean(coins, view', dirty')
    BY <2>1, <2>2, EffectClean
  <2>5. TypeOK'
    BY <2>1, <2>3, <2>4 DEF TypeOK, NoBlock
  <2> QED BY <2>1, <2>2, <2>3, <2>4, <2>5 DEF DiskInv, ViewInv
<1>4. CASE FlushStateToDisk
  <2>1. PICK S \in SUBSET Prunable : index' = Pruned(S) /\ diskIndex' = Pruned(S)
    BY <1>4 DEF FlushStateToDisk
  <2>2. Pruned(S) \in Indexes
    BY DEF TypeOK, Pruned, Indexes
  <2>3. mode = "running" /\ mode' \in {"running", "indexed"}
        /\ UNCHANGED <<coins, bestBlock, headBlocks, tip, view, dirty, toWrite>>
    BY <1>4 DEF FlushStateToDisk
  <2>4. fHavePruned' \in BOOLEAN
    BY <1>4 DEF FlushStateToDisk
  <2>5. TypeOK'
    BY <2>1, <2>2, <2>3, <2>4 DEF TypeOK
  <2> QED BY <2>3, <2>5 DEF DiskInv, ViewInv
<1>5. CASE FlushCoins
  BY <1>5 DEF FlushCoins, TypeOK, DiskInv, ViewInv, disk, NoBlock
<1> QED BY <1>1, <1>2, <1>3, <1>4, <1>5

\* Batches: each leaves every coin at the old or at the new block.
LEMMA BatchSteps ==
    ASSUME IInv, \/ \E w \in SUBSET toWrite : WriteBatch(w)
                 \/ WriteLastBatch
    PROVE  IInv'
<1> USE DEF IInv
<1>1. ASSUME NEW w \in SUBSET toWrite, WriteBatch(w) PROVE IInv'
  <2>1. /\ mode = "writing" /\ coins' = Written(w) /\ bestBlock' = NullHash
        /\ headBlocks' = <<tip, OldTip>> /\ toWrite' = toWrite \ w
        /\ UNCHANGED <<diskIndex, fHavePruned, index, mode, tip, view, dirty>>
    BY <1>1 DEF WriteBatch
  <2>2. /\ tip \in Blocks /\ view = UTXO[tip] /\ Clean(coins, view, toWrite)
        /\ headBlocks # <<>> => headBlocks[1] = tip
    BY <2>1 DEF ViewInv
  <2>3. OldTip \in NoBlock /\ Mix(coins, tip, OldTip)
    <3>1. CASE headBlocks = <<>>
      BY <3>1 DEF OldTip, TypeOK, DiskInv, Mix
    <3>2. CASE headBlocks # <<>>
      <4>1. headBlocks \in Blocks \X NoBlock /\ bestBlock = NullHash
        BY <3>2 DEF TypeOK, DiskInv
      <4>2. OldTip = headBlocks[2] /\ headBlocks[2] \in NoBlock
        BY <3>2, <4>1 DEF OldTip
      <4> QED BY <3>2, <4>2, <2>2 DEF DiskInv
    <3> QED BY <3>1, <3>2
  <2>4. Mix(coins', tip, OldTip)
    BY <2>1, <2>2, <2>3 DEF Mix, Written
  <2>5. Clean(coins', view, toWrite \ w)
    BY <2>1, <2>2 DEF Clean, Written
  <2>6. headBlocks' \in Blocks \X NoBlock /\ headBlocks' # <<>>
        /\ headBlocks'[1] = tip /\ headBlocks'[2] = OldTip
    BY <2>1, <2>2, <2>3
  <2>7. coins' \in Maps
    BY <2>1 DEF Written, TypeOK, Maps
  <2>8. TypeOK'
    BY <2>1, <2>6, <2>7 DEF TypeOK, NoBlock
  <2>9. DiskInv'
    BY <2>1, <2>4, <2>6 DEF DiskInv, Mix
  <2>10. ViewInv'
    BY <2>1, <2>2, <2>5, <2>6 DEF ViewInv
  <2> QED BY <2>8, <2>9, <2>10
<1>2. CASE WriteLastBatch
  <2>1. /\ mode = "writing" /\ coins' = Written(toWrite) /\ bestBlock' = tip
        /\ headBlocks' = <<>> /\ mode' = "running" /\ view' = coins'
        /\ dirty' = {} /\ toWrite' = {}
        /\ UNCHANGED <<diskIndex, fHavePruned, index, tip>>
    BY <1>2 DEF WriteLastBatch
  <2>2. tip \in Blocks /\ view = UTXO[tip] /\ Clean(coins, view, toWrite)
    BY <2>1 DEF ViewInv
  <2>3. \A o \in OutPoints : Written(toWrite)[o] = view[o]
    BY <2>2 DEF Written, Clean
  <2>4. Written(toWrite) = view
    BY <2>3 DEF Written, TypeOK, Maps
  <2>5. TypeOK'
    BY <2>1, <2>2, <2>4 DEF TypeOK, NoBlock
  <2> QED BY <2>1, <2>2, <2>4, <2>5 DEF DiskInv, ViewInv, Clean
<1> QED BY <1>1, <1>2

\* The end of the process, and the start of the next.
LEMMA ProcessSteps ==
    ASSUME IInv, Exit \/ Start
    PROVE  IInv'
<1> USE DEF IInv
<1>1. CASE Exit
  <2>1. NoIndex \in Indexes /\ NoCoins \in Maps
    BY DEF NoIndex, Indexes, NoCoins, Maps
  <2> QED BY <1>1, <2>1 DEF Exit, disk, TypeOK, DiskInv, ViewInv, NoBlock
<1>2. CASE Start
  <2>1. /\ UNCHANGED <<coins, bestBlock, headBlocks, diskIndex, fHavePruned, dirty, toWrite>>
        /\ view' = coins /\ index' = diskIndex
    BY <1>2 DEF Start, disk
  <2>2. Clean(coins, view', dirty)
    BY <2>1 DEF Clean
  <2>3. CASE headBlocks = <<>>
    BY <1>2, <2>1, <2>2, <2>3 DEF Start, TypeOK, DiskInv, ViewInv
  <2>4. CASE headBlocks # <<>>
    <3>1. mode' = "rollback" /\ tip' = headBlocks[2] /\ headBlocks \in Blocks \X NoBlock
      BY <1>2, <2>4 DEF Start, TypeOK
    <3>2. Mix(view', tip', headBlocks[1])
      BY <2>1, <2>4, <3>1 DEF DiskInv, Mix
    <3>3. TypeOK'
      BY <2>1, <3>1 DEF TypeOK
    <3> QED BY <2>1, <2>2, <2>4, <3>1, <3>2, <3>3 DEF DiskInv, ViewInv
  <2> QED BY <2>3, <2>4
<1> QED BY <1>1, <1>2

\* Steps of ReplayBlocks.
LEMMA ReplaySteps ==
    ASSUME IInv, Rollback \/ Forked \/ Rollforward \/ Replayed
    PROVE  IInv'
<1> USE DEF IInv
<1>0. /\ mode \in {"rollback", "rollforward"} /\ headBlocks # <<>>
      /\ Mix(view, tip, headBlocks[1]) /\ Clean(coins, view, dirty)
      /\ headBlocks \in Blocks \X NoBlock /\ headBlocks[1] \in Blocks
  BY DEF Rollback, Forked, Rollforward, Replayed, ViewInv, TypeOK
<1>1. CASE Rollback
  <2> DEFINE u == DisconnectBlock(tip, view)
  <2>1. /\ mode = "rollback" /\ tip \in Blocks \ {Genesis} /\ tip' = Parent[tip]
        /\ Wrote(u, Touched(tip))
        /\ UNCHANGED <<coins, bestBlock, headBlocks, diskIndex, fHavePruned, index, mode, toWrite>>
    BY <1>0, <1>1, TreeAssumption DEF Rollback, OnNewChain, disk, TypeOK, NoBlock
  <2>2. u \in Maps /\ Parent[tip] \in Blocks /\ Mix(u, Parent[tip], headBlocks[1])
    BY <1>0, <2>1, EffectType, DisconnectMix DEF TypeOK
  <2>3. view' = u /\ dirty' \in SUBSET OutPoints /\ Clean(coins, view', dirty')
    BY <1>0, <2>1, EffectClean
  <2>4. TypeOK'
    BY <2>1, <2>2, <2>3 DEF TypeOK, NoBlock
  <2> QED BY <1>0, <2>1, <2>2, <2>3, <2>4 DEF DiskInv, ViewInv
<1>2. CASE Forked
  <2>1. /\ mode' = "rollforward" /\ tip' \in Blocks /\ UTXO[tip'] = UTXO[tip]
        /\ UNCHANGED <<coins, bestBlock, headBlocks, diskIndex, fHavePruned, index, view, dirty, toWrite>>
    BY <1>2, TreeAssumption, CoinsAssumption DEF Forked, disk, TypeOK, NoBlock
  <2>2. TypeOK'
    BY <2>1 DEF TypeOK, NoBlock
  <2>3. Mix(view', tip', headBlocks'[1])
    BY <1>0, <2>1 DEF Mix
  <2> QED BY <1>0, <2>1, <2>2, <2>3 DEF DiskInv, ViewInv
<1>3. CASE Rollforward
  <2>1. PICK b \in Blocks : /\ NextOnNewChain(b) /\ tip' = b
                            /\ Wrote(ConnectBlock(b, view), Touched(b))
    BY <1>3 DEF Rollforward
  <2> DEFINE u == ConnectBlock(b, view)
  <2>2. /\ b \in Blocks \ {Genesis} /\ tip = Parent[b] /\ mode = "rollforward"
        /\ UNCHANGED <<coins, bestBlock, headBlocks, diskIndex, fHavePruned, index, mode, toWrite>>
    BY <1>3, <2>1 DEF Rollforward, NextOnNewChain, disk
  <2>3. u \in Maps /\ Mix(u, b, headBlocks[1])
    BY <1>0, <2>2, EffectType, ConnectMix DEF TypeOK
  <2>4. view' = u /\ dirty' \in SUBSET OutPoints /\ Clean(coins, view', dirty')
    BY <1>0, <2>1, <2>2, EffectClean
  <2>5. TypeOK'
    BY <2>1, <2>2, <2>3, <2>4 DEF TypeOK, NoBlock
  <2> QED BY <1>0, <2>1, <2>2, <2>3, <2>4, <2>5 DEF DiskInv, ViewInv
<1>4. CASE Replayed
  <2>1. /\ mode' = "writing" /\ toWrite' = dirty /\ tip = headBlocks[1]
        /\ UNCHANGED <<coins, bestBlock, headBlocks, diskIndex, fHavePruned, index, tip, view, dirty>>
    BY <1>4 DEF Replayed, disk
  <2>2. \A o \in OutPoints : view[o] = UTXO[tip][o]
    BY <1>0, <2>1 DEF Mix
  <2>3. view = UTXO[tip]
    BY <1>0, <2>1, <2>2, CoinsAssumption DEF TypeOK, Maps, NoBlock
  <2>4. TypeOK'
    BY <2>1 DEF TypeOK
  <2> QED BY <1>0, <2>1, <2>3, <2>4 DEF DiskInv, ViewInv
<1> QED BY <1>1, <1>2, <1>3, <1>4

\* IInv holds in every reachable state.
THEOREM Invariance == Spec => []IInv
<1>1. Init => IInv
  <2>1. NoCoins \in Maps /\ NoIndex \in Indexes
    BY DEF NoCoins, Maps, NoIndex, Indexes
  <2> QED BY <2>1, CoinsAssumption
          DEF Init, IInv, TypeOK, DiskInv, ViewInv, Clean, NoBlock
<1>2. IInv /\ [Next]_vars => IInv'
  <2> SUFFICES ASSUME IInv, [Next]_vars PROVE IInv'
    OBVIOUS
  <2>1. CASE \E b \in Blocks : AcceptBlockHeader(b) \/ AcceptBlock(b) \/ ConnectTip(b)
    BY <2>1, RunningSteps
  <2>2. CASE DisconnectTip \/ FlushStateToDisk \/ FlushCoins
    BY <2>2, RunningSteps
  <2>3. CASE (\E w \in SUBSET toWrite : WriteBatch(w)) \/ WriteLastBatch
    BY <2>3, BatchSteps
  <2>4. CASE Crash \/ ReplayFails \/ Start
    BY <2>4, ProcessSteps DEF Crash, ReplayFails
  <2>5. CASE Rollback \/ Forked \/ Rollforward \/ Replayed
    BY <2>5, ReplaySteps
  <2>6. CASE UNCHANGED vars
    BY <2>6 DEF vars, disk, IInv, TypeOK, DiskInv, ViewInv
  <2> QED BY <2>1, <2>2, <2>3, <2>4, <2>5, <2>6 DEF Next, Run
<1> QED BY <1>1, <1>2, PTL DEF Spec

\* The variables keep their types.
THEOREM TypeCorrect == Spec => []TypeOK
BY Invariance, PTL DEF IInv

\* A database without head blocks holds the UTXO set of its best block, and a
\* database with head blocks a mixture of the sets of these two.
THEOREM DiskSafe == Spec => [](ConsistentWhenMarked /\ MixtureOfTwo)
<1>1. IInv => ConsistentWhenMarked /\ MixtureOfTwo
  BY DEF IInv, DiskInv, Mix, ConsistentWhenMarked, MixtureOfTwo
<1> QED BY <1>1, Invariance, PTL

\* After any crashes, a working node shows the UTXO set of its tip.
THEOREM ViewSafe == Spec => []ViewIsUTXO
<1>1. IInv => ViewIsUTXO
  BY DEF IInv, ViewInv, ViewIsUTXO
<1> QED BY <1>1, Invariance, PTL

\* The assertion on the target of a replay never fails.
THEOREM TargetSafe == Spec => []ReplayKeepsTarget
<1>1. IInv => ReplayKeepsTarget
  BY DEF IInv, ViewInv, ReplayKeepsTarget
<1> QED BY <1>1, Invariance, PTL
-----------------------------------------------------------------------------
(* Until a file is pruned, what a replay needs is on disk.                 *)

\* The chain up to b can be read and disconnected.
Ready(i, b) == b = NullHash \/ \A a \in Ancestors[b] : /\ a \in i.known /\ a \in i.data
                                                       /\ a # Genesis => a \in i.undo

\* Index j has all that i has.
Below(i, j) == /\ i.known \subseteq j.known /\ i.data \subseteq j.data
               /\ i.undo \subseteq j.undo

\* The disk has the blocks that the coins database refers to.
IndexInv ==
    /\ index.data \subseteq index.known /\ diskIndex.data \subseteq diskIndex.known
    /\ Ready(index, tip) /\ Ready(diskIndex, bestBlock)
    /\ headBlocks # <<>> => Ready(diskIndex, headBlocks[1]) /\ Ready(diskIndex, headBlocks[2])
    /\ mode = "running" => Below(diskIndex, index)
    /\ mode \notin {"running", "down"} => diskIndex = index

LEMMA ReadyMonotone ==
    ASSUME NEW i, NEW j, NEW b, Ready(i, b), Below(i, j)
    PROVE  Ready(j, b)
BY DEF Ready, Below

LEMMA ReadyNext ==
    ASSUME NEW i, NEW b \in Blocks, b # Genesis,
           Ready(i, Parent[b]), b \in i.known, b \in i.data, b \in i.undo
    PROVE  Ready(i, b)
BY TreeAssumption DEF Ready

LEMMA ReadyParent ==
    ASSUME NEW i, NEW b \in Blocks, b # Genesis, Ready(i, b)
    PROVE  Ready(i, Parent[b])
<1>1. Ancestors[b] = {b} \cup Ancestors[Parent[b]] /\ b # NullHash
  BY TreeAssumption
<1> QED BY <1>1 DEF Ready

LEMMA ReadyGenesis ==
    ASSUME NEW i, NEW b \in Blocks, Ready(i, b)
    PROVE  Ready(i, Genesis)
<1>1. b # NullHash /\ Genesis \in Ancestors[b] /\ Ancestors[Genesis] = {Genesis}
  BY TreeAssumption
<1> QED BY <1>1 DEF Ready

LEMMA IndexRunning ==
    ASSUME ~fHavePruned', IInv, IndexInv,
           \/ \E b \in Blocks : AcceptBlockHeader(b) \/ AcceptBlock(b) \/ ConnectTip(b)
           \/ DisconnectTip \/ FlushStateToDisk \/ FlushCoins
    PROVE  IndexInv'
<1>0. TypeOK /\ headBlocks = <<>>
  BY DEF IInv, ViewInv, AcceptBlockHeader, AcceptBlock, ConnectTip, DisconnectTip,
         FlushStateToDisk, FlushCoins
<1>1. ASSUME NEW b \in Blocks, AcceptBlockHeader(b) \/ AcceptBlock(b) PROVE IndexInv'
  <2>1. mode = "running" /\ UNCHANGED <<disk, mode, tip>>
    BY <1>1 DEF AcceptBlockHeader, AcceptBlock
  <2>2. /\ index'.known = index.known \cup {b} /\ index'.undo = index.undo
        /\ index'.data = index.data \/ index'.data = index.data \cup {b}
    BY <1>0, <1>1 DEF AcceptBlockHeader, AcceptBlock, TypeOK, Indexes
  <2>3. Below(index, index') /\ index'.data \subseteq index'.known
    BY <2>2 DEF Below, IndexInv
  <2>4. Ready(index', tip)
    BY <2>3, ReadyMonotone DEF IndexInv
  <2>5. Below(diskIndex, index')
    BY <2>1, <2>3 DEF IndexInv, Below
  <2> QED BY <2>1, <2>3, <2>4, <2>5, SMTT(30) DEF IndexInv, disk
<1>2. ASSUME NEW b \in Blocks, ConnectTip(b) PROVE IndexInv'
  <2>1. /\ mode = "running" /\ UNCHANGED <<disk, mode>> /\ tip' = b
        /\ b \in index.data /\ Parent[b] = tip
    BY <1>2 DEF ConnectTip
  <2>2. b \in index.known
    BY <2>1 DEF IndexInv
  <2>3. CASE b = Genesis
    <3>1. UNCHANGED index
      BY <1>2, <2>3 DEF ConnectTip
    <3>2. Ready(index, b)
      BY <2>1, <2>2, <2>3, TreeAssumption DEF Ready
    <3> QED BY <2>1, <3>1, <3>2 DEF IndexInv, disk
  <2>4. CASE b # Genesis
    <3>1. index' = [index EXCEPT !.undo = @ \cup {b}]
      BY <1>2, <2>4 DEF ConnectTip
    <3>2. index'.known = index.known /\ index'.data = index.data
          /\ index'.undo = index.undo \cup {b}
      BY <1>0, <3>1, SMTT(30) DEF TypeOK, Indexes
    <3>3. /\ index'.data \subseteq index'.known
          /\ Below(index, index') /\ Below(diskIndex, index')
      BY <2>1, <3>2 DEF IndexInv, Below
    <3>4. Ready(index', Parent[b])
      BY <2>1, <3>3, ReadyMonotone DEF IndexInv
    <3>5. Ready(index', b)
      BY <2>1, <2>2, <2>4, <3>2, <3>4, ReadyNext
    <3> QED BY <2>1, <3>3, <3>5 DEF IndexInv, disk
  <2> QED BY <2>3, <2>4
<1>3. CASE DisconnectTip
  <2>1. /\ mode = "running" /\ UNCHANGED <<disk, index, mode>> /\ tip' = Parent[tip]
        /\ tip \in Blocks /\ tip # Genesis
    BY <1>0, <1>3 DEF DisconnectTip, TypeOK, NoBlock
  <2>2. Ready(index, Parent[tip])
    BY <2>1, ReadyParent DEF IndexInv
  <2> QED BY <2>1, <2>2 DEF IndexInv, disk
<1>4. CASE FlushStateToDisk
  <2>1. PICK S \in SUBSET Prunable :
          /\ mode = "running" /\ index' = Pruned(S) /\ diskIndex' = Pruned(S)
          /\ fHavePruned' = (fHavePruned \/ S # {})
          /\ UNCHANGED <<bestBlock, headBlocks, tip>>
    BY <1>4 DEF FlushStateToDisk
  <2>2. S = {}
    BY <2>1
  <2>3. index' = index /\ diskIndex' = index
    BY <1>0, <2>1, <2>2 DEF Pruned, TypeOK, Indexes
  <2>4. Ready(index, bestBlock)
    BY <2>1, ReadyMonotone DEF IndexInv
  <2> QED BY <1>0, <2>1, <2>3, <2>4 DEF IndexInv, Below
<1>5. CASE FlushCoins
  <2>1. mode = "indexed" /\ mode' \in {"running", "writing"} /\ UNCHANGED <<disk, index, tip>>
    BY <1>5, SMTT(30) DEF FlushCoins
  <2>2. Below(diskIndex, index)
    BY <2>1 DEF IndexInv, Below
  <2> QED BY <2>1, <2>2 DEF IndexInv, disk
<1> QED BY <1>1, <1>2, <1>3, <1>4, <1>5, SMTT(30)

LEMMA IndexOther ==
    ASSUME IInv, IndexInv,
           \/ \E w \in SUBSET toWrite : WriteBatch(w)
           \/ WriteLastBatch \/ Exit \/ Start \/ Rollback \/ Forked \/ Rollforward \/ Replayed
    PROVE  IndexInv'
<1>0. TypeOK /\ DiskInv
  BY DEF IInv
<1>1. ASSUME NEW w \in SUBSET toWrite, WriteBatch(w) PROVE IndexInv'
  <2>1. /\ mode = "writing" /\ bestBlock' = NullHash /\ headBlocks' = <<tip, OldTip>>
        /\ UNCHANGED <<diskIndex, fHavePruned, index, mode, tip>>
    BY <1>1 DEF WriteBatch
  <2>2. Ready(diskIndex, tip) /\ Ready(diskIndex, OldTip) /\ Ready(diskIndex, NullHash)
    BY <2>1 DEF IndexInv, OldTip, Ready
  <2>3. headBlocks'[1] = tip /\ headBlocks'[2] = OldTip
    BY <2>1
  <2> QED BY <2>1, <2>2, <2>3 DEF IndexInv
<1>2. CASE WriteLastBatch
  <2>1. /\ mode = "writing" /\ mode' = "running" /\ bestBlock' = tip /\ headBlocks' = <<>>
        /\ UNCHANGED <<diskIndex, fHavePruned, index, tip>>
    BY <1>2 DEF WriteLastBatch
  <2> QED BY <2>1 DEF IndexInv, Below
<1>3. CASE Exit
  <2>1. mode' = "down" /\ index' = NoIndex /\ tip' = NullHash /\ UNCHANGED disk
    BY <1>3 DEF Exit
  <2>2. NoIndex.data \subseteq NoIndex.known /\ Ready(NoIndex, NullHash)
    BY DEF NoIndex, Ready
  <2> QED BY <2>1, <2>2 DEF IndexInv, disk
<1>4. CASE Start
  <2>1. /\ index' = diskIndex /\ UNCHANGED disk
        /\ tip' = IF headBlocks = <<>> THEN bestBlock ELSE headBlocks[2]
    BY <1>4 DEF Start
  <2> QED BY <2>1 DEF IndexInv, disk, Below
<1>5. CASE Rollback
  <2>1. /\ mode = "rollback" /\ UNCHANGED <<disk, index, mode>> /\ tip' = Parent[tip]
        /\ headBlocks \in Blocks \X NoBlock /\ ~OnNewChain(tip)
    BY <1>5 DEF Rollback, IInv, ViewInv, TypeOK
  <2>2. tip \in Blocks /\ tip # Genesis
    BY <1>0, <2>1, TreeAssumption DEF OnNewChain, TypeOK, NoBlock
  <2>3. Ready(index, Parent[tip])
    BY <2>2, ReadyParent DEF IndexInv
  <2> QED BY <2>1, <2>3, SMTT(30) DEF IndexInv, disk
<1>6. CASE Forked
  <2>1. /\ mode = "rollback" /\ mode' = "rollforward" /\ UNCHANGED <<disk, index>>
        /\ tip' = IF tip = NullHash THEN Genesis ELSE tip
        /\ headBlocks \in Blocks \X NoBlock /\ headBlocks # <<>>
    BY <1>6 DEF Forked, IInv, ViewInv, TypeOK
  <2>2. Ready(index, Genesis)
    <3>1. headBlocks[1] \in Blocks /\ Ready(index, headBlocks[1])
      BY <2>1 DEF IndexInv
    <3> QED BY <3>1, ReadyGenesis DEF IndexInv
  <2> QED BY <2>1, <2>2 DEF IndexInv, disk
<1>7. CASE Rollforward
  <2>1. PICK b \in Blocks : NextOnNewChain(b) /\ tip' = b
    BY <1>7, SMTT(30) DEF Rollforward
  <2>2. /\ mode = "rollforward" /\ UNCHANGED <<disk, index, mode>>
        /\ headBlocks \in Blocks \X NoBlock /\ headBlocks # <<>>
        /\ b \in Ancestors[headBlocks[1]] /\ b # Genesis /\ Parent[b] = tip
    BY <1>7, <2>1 DEF Rollforward, NextOnNewChain, IInv, ViewInv, TypeOK
  <2>3. headBlocks[1] # NullHash /\ Ready(index, headBlocks[1])
    BY <2>2, TreeAssumption DEF IndexInv
  <2>4. b \in index.known /\ b \in index.data /\ b \in index.undo
    BY <2>2, <2>3 DEF Ready
  <2>5. Ready(index, b)
    BY <2>2, <2>4, ReadyNext DEF IndexInv
  <2> QED BY <2>1, <2>2, <2>5 DEF IndexInv, disk
<1>8. CASE Replayed
  <2>1. mode = "rollforward" /\ mode' = "writing" /\ UNCHANGED <<disk, index, tip>>
    BY <1>8 DEF Replayed
  <2> QED BY <2>1 DEF IndexInv, disk
<1> QED BY <1>1, <1>2, <1>3, <1>4, <1>5, <1>6, <1>7, <1>8

\* The flag prunedblockfiles is never taken back.
LEMMA PrunedStays == [Next]_vars => (fHavePruned => fHavePruned')
<1> SUFFICES ASSUME [Next]_vars, fHavePruned PROVE fHavePruned'
  OBVIOUS
<1>1. CASE FlushStateToDisk
  BY <1>1 DEF FlushStateToDisk
<1>2. CASE \E b \in Blocks : AcceptBlockHeader(b) \/ AcceptBlock(b) \/ ConnectTip(b)
  BY <1>2 DEF AcceptBlockHeader, AcceptBlock, ConnectTip, disk
<1>3. CASE DisconnectTip \/ FlushCoins \/ UNCHANGED vars
  BY <1>3 DEF DisconnectTip, FlushCoins, vars, disk
<1>4. CASE (\E w \in SUBSET toWrite : WriteBatch(w)) \/ WriteLastBatch
  BY <1>4 DEF WriteBatch, WriteLastBatch
<1>5. CASE Crash \/ ReplayFails \/ Start
  BY <1>5 DEF Crash, ReplayFails, Exit, Start, disk
<1>6. CASE Rollback \/ Forked \/ Rollforward \/ Replayed
  BY <1>6 DEF Rollback, Forked, Rollforward, Replayed, disk
<1> QED BY <1>1, <1>2, <1>3, <1>4, <1>5, <1>6 DEF Next, Run

\* Until the node prunes its first file, ReplayBlocks never misses a block or
\* its undo data: the block index is always written before the coins.
THEOREM ReplaySafe == Spec => []ReplaySucceedsUnpruned
<1> DEFINE UnprunedInv == fHavePruned \/ IndexInv
<1>1. Init => UnprunedInv
  <2>1. /\ NoIndex.data \subseteq NoIndex.known
        /\ Ready(NoIndex, NullHash) /\ Below(NoIndex, NoIndex)
    BY DEF NoIndex, Ready, Below
  <2> QED BY <2>1 DEF Init, IndexInv
<1>2. IInv /\ UnprunedInv /\ [Next]_vars => UnprunedInv'
  <2> SUFFICES ASSUME IInv, IndexInv, [Next]_vars, ~fHavePruned' PROVE IndexInv'
    BY PrunedStays
  <2>1. CASE \E b \in Blocks : AcceptBlockHeader(b) \/ AcceptBlock(b) \/ ConnectTip(b)
    BY <2>1, IndexRunning
  <2>2. CASE DisconnectTip \/ FlushStateToDisk \/ FlushCoins
    BY <2>2, IndexRunning
  <2>3. CASE (\E w \in SUBSET toWrite : WriteBatch(w)) \/ WriteLastBatch
    BY <2>3, IndexOther
  <2>4. CASE Crash \/ ReplayFails \/ Start
    BY <2>4, IndexOther DEF Crash, ReplayFails
  <2>5. CASE Rollback \/ Forked \/ Rollforward \/ Replayed
    BY <2>5, IndexOther
  <2>6. CASE UNCHANGED vars
    BY <2>6 DEF vars, disk, IndexInv
  <2> QED BY <2>1, <2>2, <2>3, <2>4, <2>5, <2>6 DEF Next, Run
<1>3. IInv /\ UnprunedInv => ReplaySucceedsUnpruned
  <2> SUFFICES ASSUME IInv, IndexInv, ~fHavePruned, mode \in {"rollback", "rollforward"}
               PROVE  ~ReplayBlocked
    BY SMTT(30) DEF ReplaySucceedsUnpruned, ReplayBlocked
  <2>1. /\ headBlocks \in Blocks \X NoBlock /\ tip \in NoBlock
        /\ Ready(index, headBlocks[1]) /\ Ready(index, headBlocks[2]) /\ Ready(index, tip)
        /\ headBlocks[1] # NullHash
    BY TreeAssumption DEF IInv, ViewInv, TypeOK, IndexInv
  <2>2. headBlocks[1] \in index.known /\ headBlocks[2] \in index.known \cup {NullHash}
    BY <2>1, TreeAssumption DEF Ready, NoBlock
  <2>3. ~OnNewChain(tip) => HaveUndo(tip)
    <3> SUFFICES ASSUME ~OnNewChain(tip) PROVE HaveUndo(tip)
      OBVIOUS
    <3>1. tip \in Blocks /\ tip # Genesis /\ tip # NullHash
      BY <2>1, TreeAssumption DEF OnNewChain, NoBlock
    <3>2. tip \in Ancestors[tip]
      BY <3>1, TreeAssumption
    <3> QED BY <2>1, <3>1, <3>2 DEF Ready, HaveUndo
  <2>4. \A b \in Blocks : NextOnNewChain(b) => b \in index.data
    BY <2>1 DEF NextOnNewChain, Ready
  <2> QED BY <2>2, <2>3, <2>4 DEF ReplayBlocked
<1> HIDE DEF UnprunedInv
<1> QED BY <1>1, <1>2, <1>3, Invariance, PTL DEF Spec
=============================================================================
