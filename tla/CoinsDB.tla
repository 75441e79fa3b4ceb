------------------------------- MODULE CoinsDB -------------------------------
(***************************************************************************)
(* The coins database under crashes: CCoinsViewDB::BatchWrite spreads one  *)
(* flush over several atomic LevelDB batches, and ReplayBlocks repairs, at *)
(* the next start, a database whose last flush was interrupted.  The       *)
(* repair is itself flushed in batches, and may be interrupted again.      *)
(*                                                                         *)
(* The cache on top of the database is taken as the map it shows, and the  *)
(* set of its DIRTY entries: CoinsViewCache shows that it is no more.  A   *)
(* block is taken as its net effect on the UTXO set: a coin created and    *)
(* spent within it is in both Creates and Spends.                          *)
(***************************************************************************)
EXTENDS Integers, Sequences

CONSTANTS Blocks,      \* the block tree
          Genesis,
          Parent,      \* pprev: a function from Blocks, NullHash for Genesis
          Ancestors,   \* of each block, itself included
          Height,
          NullHash,
          Pruning,     \* -prune
          KeepBlocks,  \* MIN_BLOCKS_TO_KEEP
          OutPoints, Coins, Spent,
          Creates,     \* Creates[b][o]: the coin block b creates at o, or Spent
          Spends,      \* Spends[b]: the outpoints the inputs of b refer to
          UTXO         \* UTXO[b]: the UTXO set after b

NoBlock == Blocks \cup {NullHash}
Maps == [OutPoints -> Coins \cup {Spent}]
NoCoins == [o \in OutPoints |-> Spent]

\* ConnectBlock and RollforwardBlock, of all transactions of b.
ConnectBlock(b, u) ==
    [o \in OutPoints |-> IF o \in Spends[b] THEN Spent
                         ELSE IF Creates[b][o] # Spent THEN Creates[b][o]
                         ELSE u[o]]

\* DisconnectBlock, with the undo data that ConnectBlock wrote for b.
DisconnectBlock(b, u) ==
    [o \in OutPoints |-> IF Creates[b][o] # Spent THEN Spent
                         ELSE IF o \in Spends[b] THEN UTXO[Parent[b]][o]
                         ELSE u[o]]

\* The outpoints whose entries connecting or disconnecting b writes.
Touched(b) == {o \in OutPoints : o \in Spends[b] \/ Creates[b][o] # Spent}

\* Every block is valid on its parent: its inputs exist (HaveInputs), and it
\* overwrites no unspent coin (BIP30, BIP34).
ASSUME TreeAssumption ==
    /\ Genesis \in Blocks /\ NullHash \notin Blocks /\ Spent \notin Coins
    /\ Parent \in [Blocks -> NoBlock]
    /\ \A b \in Blocks : Parent[b] = NullHash <=> b = Genesis
    /\ Ancestors \in [Blocks -> SUBSET Blocks]
    /\ Ancestors[Genesis] = {Genesis}
    /\ \A b \in Blocks : {b, Genesis} \subseteq Ancestors[b]
    /\ \A b \in Blocks \ {Genesis} : Ancestors[b] = {b} \cup Ancestors[Parent[b]]
    /\ Height \in [Blocks -> Nat] /\ KeepBlocks \in Nat /\ Pruning \in BOOLEAN
    /\ \A b \in Blocks \ {Genesis} : Height[b] = Height[Parent[b]] + 1

ASSUME CoinsAssumption ==
    /\ Creates \in [Blocks -> Maps]
    /\ Spends \in [Blocks -> SUBSET OutPoints]
    /\ UTXO \in [NoBlock -> Maps]
    /\ UTXO[NullHash] = NoCoins /\ UTXO[Genesis] = NoCoins
    /\ \A b \in Blocks \ {Genesis} :
         /\ UTXO[b] = ConnectBlock(b, UTXO[Parent[b]])
         /\ \A o \in Spends[b] : Creates[b][o] # Spent \/ UTXO[Parent[b]][o] # Spent
         /\ \A o \in OutPoints : Creates[b][o] # Spent => UTXO[Parent[b]][o] = Spent

VARIABLES coins,      \* on disk: the coins
          bestBlock,  \* on disk: DB_BEST_BLOCK, NullHash when absent
          headBlocks, \* on disk: DB_HEAD_BLOCKS, <<new, old>>, or <<>>
          diskIndex,  \* on disk: the block index
          fHavePruned, \* on disk: the flag prunedblockfiles
          index,      \* m_block_index: the blocks known, and those among them
                      \* with BLOCK_HAVE_DATA and with BLOCK_HAVE_UNDO
          mode,       \* what the node is doing
          tip,        \* the block the cache is at
          view,       \* what the cache shows
          dirty,      \* the DIRTY entries of the cache
          toWrite     \* the DIRTY entries that BatchWrite still has to write

disk == <<coins, bestBlock, headBlocks, diskIndex, fHavePruned>>
vars == <<disk, index, mode, tip, view, dirty, toWrite>>

NoIndex == [known |-> {}, data |-> {}, undo |-> {}]
-----------------------------------------------------------------------------
\* An empty data directory.
Init == /\ coins = NoCoins /\ bestBlock = NullHash /\ headBlocks = <<>>
        /\ diskIndex = NoIndex /\ index = NoIndex /\ fHavePruned = FALSE
        /\ mode = "running" /\ tip = NullHash
        /\ view = NoCoins /\ dirty = {} /\ toWrite = {}

\* The cache now shows u, and has written the entries in w.  An entry that is
\* FRESH when it is spent is dropped; the database has no coin there.
Wrote(u, w) ==
    /\ view' = u
    /\ \E fresh \in SUBSET {o \in dirty \cup w : u[o] = Spent /\ coins[o] = Spent} :
         dirty' = (dirty \cup w) \ fresh

\* A header is put into the block index.
AcceptBlockHeader(b) ==
    /\ mode = "running"
    /\ b \notin index.known /\ Parent[b] \in index.known \cup {NullHash}
    /\ index' = [index EXCEPT !.known = @ \cup {b}]
    /\ UNCHANGED <<disk, mode, tip, view, dirty, toWrite>>

\* A block arrives, maybe again after it was pruned, and is written to a file.
AcceptBlock(b) ==
    /\ mode = "running"
    /\ b \notin index.data /\ Parent[b] \in index.known \cup {NullHash}
    /\ index' = [index EXCEPT !.known = @ \cup {b}, !.data = @ \cup {b}]
    /\ UNCHANGED <<disk, mode, tip, view, dirty, toWrite>>

\* ConnectTip, its scoped view flushed into the coins tip.
ConnectTip(b) ==
    /\ mode = "running"
    /\ b \in index.data /\ Parent[b] = tip
    /\ tip' = b
    /\ IF b = Genesis
       THEN UNCHANGED <<index, view, dirty>>
       ELSE /\ index' = [index EXCEPT !.undo = @ \cup {b}]
            /\ Wrote(ConnectBlock(b, view), Touched(b))
    /\ UNCHANGED <<disk, mode, toWrite>>

\* Block and undo data of b can be read back.
HaveUndo(b) == b \in index.data \cap index.undo

\* DisconnectTip, its scoped view flushed into the coins tip.
DisconnectTip ==
    /\ mode = "running"
    /\ tip \notin {NullHash, Genesis} /\ HaveUndo(tip)
    /\ tip' = Parent[tip]
    /\ Wrote(DisconnectBlock(tip, view), Touched(tip))
    /\ UNCHANGED <<disk, index, mode, toWrite>>
-----------------------------------------------------------------------------
\* FindFilesToPrune: files without a block of the last KeepBlocks.
Prunable == {b \in index.data : Pruning /\ tip # NullHash /\ Height[b] + KeepBlocks <= Height[tip]}

\* PruneOneBlockFile, for the files that hold the blocks in S.
Pruned(S) == [index EXCEPT !.data = @ \ S, !.undo = @ \ S]

\* Variant of FlushStateToDisk that does not write the index.
FlushStateToDiskNoIndex ==
    /\ mode = "running"
    /\ mode' \in {"running", "indexed"}
    /\ UNCHANGED <<disk, index, tip, view, dirty, toWrite>>

\* FlushStateToDisk: block files and block index first, then pruned files go;
\* a full flush, which pruning demands, goes on to the coins.
FlushStateToDisk ==
    /\ mode = "running"
    /\ \E S \in SUBSET Prunable :
         /\ index' = Pruned(S)
         /\ diskIndex' = Pruned(S)
         /\ fHavePruned' = (fHavePruned \/ S # {})
         /\ mode' \in IF S = {} THEN {"running", "indexed"} ELSE {"indexed"}
    /\ UNCHANGED <<coins, bestBlock, headBlocks, tip, view, dirty, toWrite>>

\* CoinsTip().Flush(), unless the coins tip is at no block yet.
FlushCoins ==
    /\ mode = "indexed"
    /\ IF tip = NullHash
       THEN mode' = "running" /\ UNCHANGED toWrite
       ELSE mode' = "writing" /\ toWrite' = dirty
    /\ UNCHANGED <<disk, index, tip, view, dirty>>

\* BatchWrite: the block the database was consistent with before this flush.
OldTip == IF bestBlock = NullHash /\ headBlocks # <<>> THEN headBlocks[2] ELSE bestBlock

\* The coins on disk once the entries in w are written.
Written(w) == [o \in OutPoints |-> IF o \in w THEN view[o] ELSE coins[o]]

\* Variant of WriteBatch that does not mark the database.
WriteBatchUnmarked(w) ==
    /\ mode = "writing"
    /\ coins' = Written(w)
    /\ toWrite' = toWrite \ w
    /\ UNCHANGED <<bestBlock, headBlocks, diskIndex, fHavePruned, index, mode, tip, view, dirty>>

\* A batch over -dbbatchsize goes to disk with the entries gathered so far. The
\* first also marks the database as in transition (the others change no mark).
WriteBatch(w) ==
    /\ mode = "writing"
    /\ coins' = Written(w)
    /\ bestBlock' = NullHash
    /\ headBlocks' = <<tip, OldTip>>
    /\ toWrite' = toWrite \ w
    /\ UNCHANGED <<diskIndex, fHavePruned, index, mode, tip, view, dirty>>

\* The last batch marks the database as consistent again.  The cache is empty
\* (after a replay: a new one is made), and shows what is on disk.
WriteLastBatch ==
    /\ mode = "writing"
    /\ coins' = Written(toWrite)
    /\ bestBlock' = tip
    /\ headBlocks' = <<>>
    /\ mode' = "running"
    /\ view' = coins'
    /\ dirty' = {} /\ toWrite' = {}
    /\ UNCHANGED <<diskIndex, fHavePruned, index, tip>>
-----------------------------------------------------------------------------
\* The process ends; what was in memory is gone.
Exit == /\ mode' = "down"
        /\ index' = NoIndex /\ tip' = NullHash
        /\ view' = NoCoins /\ dirty' = {} /\ toWrite' = {}
        /\ UNCHANGED disk

Crash == mode # "down" /\ Exit

\* Start-up: LoadBlockIndex, and ReplayBlocks on a cache of its own when the
\* database has head blocks; else the coins tip is made and LoadChainTip.
Start ==
    /\ mode = "down"
    /\ index' = diskIndex
    /\ IF headBlocks = <<>>
       THEN mode' = "running" /\ tip' = bestBlock
       ELSE mode' = "rollback" /\ tip' = headBlocks[2]
    /\ view' = coins
    /\ UNCHANGED <<disk, dirty, toWrite>>

\* Block b is pindexFork or below it (there is none on the first flush).
OnNewChain(b) == b = NullHash \/ b \in Ancestors[headBlocks[1]]

\* pindexNew->GetAncestor(nHeight), the block after the one replayed last.
NextOnNewChain(b) == b \in Ancestors[headBlocks[1]] \ {Genesis} /\ Parent[b] = tip

\* Where ReplayBlocks gives up: a block it cannot find or cannot read.
ReplayBlocked ==
    /\ mode \in {"rollback", "rollforward"}
    /\ \/ headBlocks[1] \notin index.known
       \/ headBlocks[2] \notin index.known \cup {NullHash}
       \/ mode = "rollback" /\ ~OnNewChain(tip) /\ ~HaveUndo(tip)
       \/ mode = "rollforward" /\ \E b \in Blocks : NextOnNewChain(b) /\ b \notin index.data

\* "Unable to replay blocks": the node does not start.
ReplayFails == ReplayBlocked /\ Exit

\* Variant of Rollback that only moves pindexOld.
RollbackMoveOnly ==
    /\ mode = "rollback" /\ ~ReplayBlocked /\ ~OnNewChain(tip)
    /\ tip' = Parent[tip]
    /\ UNCHANGED <<disk, index, mode, view, dirty, toWrite>>

\* ReplayBlocks: one turn of the loop along the old branch.
Rollback ==
    /\ mode = "rollback" /\ ~ReplayBlocked /\ ~OnNewChain(tip)
    /\ tip' = Parent[tip]
    /\ Wrote(DisconnectBlock(tip, view), Touched(tip))
    /\ UNCHANGED <<disk, index, mode, toWrite>>

\* Variant of Forked that takes the first flush for any other.
ForkedNoFirst ==
    /\ mode = "rollback" /\ ~ReplayBlocked /\ OnNewChain(tip)
    /\ mode' = "rollforward"
    /\ UNCHANGED <<disk, index, tip, view, dirty, toWrite>>

\* The fork is reached.  On the first flush the roll forward starts after the
\* genesis block, whose outputs are not in the UTXO set.
Forked ==
    /\ mode = "rollback" /\ ~ReplayBlocked /\ OnNewChain(tip)
    /\ mode' = "rollforward"
    /\ tip' = IF tip = NullHash THEN Genesis ELSE tip
    /\ UNCHANGED <<disk, index, view, dirty, toWrite>>

\* ReplayBlocks: one turn of the loop towards the new tip.
Rollforward ==
    /\ mode = "rollforward" /\ ~ReplayBlocked
    /\ \E b \in Blocks : /\ NextOnNewChain(b)
                         /\ tip' = b
                         /\ Wrote(ConnectBlock(b, view), Touched(b))
    /\ UNCHANGED <<disk, index, mode, toWrite>>

\* The new tip is reached: SetBestBlock and Flush.
Replayed ==
    /\ mode = "rollforward" /\ ~ReplayBlocked /\ tip = headBlocks[1]
    /\ mode' = "writing"
    /\ toWrite' = dirty
    /\ UNCHANGED <<disk, index, tip, view, dirty>>
-----------------------------------------------------------------------------
\* What a process does by itself once it has begun.
Run == \/ FlushCoins
       \/ \E w \in SUBSET toWrite : WriteBatch(w)
       \/ WriteLastBatch
       \/ Start \/ Rollback \/ Forked \/ Rollforward \/ Replayed \/ ReplayFails

Next == \/ \E b \in Blocks : AcceptBlockHeader(b) \/ AcceptBlock(b) \/ ConnectTip(b)
        \/ DisconnectTip \/ FlushStateToDisk \/ Crash \/ Run

Spec == Init /\ [][Next]_vars

\* A flush or a start-up that has begun goes on.
FairSpec == Spec /\ WF_vars(Run)
-----------------------------------------------------------------------------
Indexes == [known : SUBSET Blocks, data : SUBSET Blocks, undo : SUBSET Blocks]

TypeOK ==
    /\ coins \in Maps /\ view \in Maps
    /\ bestBlock \in NoBlock /\ tip \in NoBlock
    /\ headBlocks \in {<<>>} \cup (Blocks \X NoBlock)
    /\ diskIndex \in Indexes /\ index \in Indexes /\ fHavePruned \in BOOLEAN
    /\ mode \in {"running", "indexed", "writing", "down", "rollback", "rollforward"}
    /\ dirty \in SUBSET OutPoints /\ toWrite \in SUBSET OutPoints

\* "In the last batch, mark the database as consistent with hashBlock again":
\* a database without head blocks holds exactly the UTXO set of its best block.
ConsistentWhenMarked == headBlocks = <<>> => coins = UTXO[bestBlock]

\* Between the first and the last batch every coin is the one of the old or of
\* the new block, however often the flush and its repair were interrupted.
MixtureOfTwo ==
    headBlocks # <<>> =>
      \A o \in OutPoints : coins[o] \in {UTXO[headBlocks[1]][o], UTXO[headBlocks[2]][o]}

\* The coins tip of a node, started after whatever crashes, shows the UTXO set
\* of the block it is at: ReplayBlocks repairs what an interrupted flush left.
ViewIsUTXO == mode \in {"running", "indexed", "writing"} => view = UTXO[tip]

\* assert(old_heads[0] == hashBlock) in BatchWrite: the flush of a replay has
\* the target of the flush that was interrupted.
ReplayKeepsTarget == mode = "writing" /\ headBlocks # <<>> => headBlocks[1] = tip

\* ReplayBlocks finds and reads every block it needs, as long as no block file was
\* ever pruned: the index entries, blocks and undo data that the coins on disk
\* refer to are on disk before them.
ReplaySucceedsUnpruned == ~fHavePruned => ~ReplayBlocked

\* A node that is not killed again gets from any interrupted flush to work, or
\* says that it cannot replay: ReplayBlocks does not go on for ever.
Recovers == []<>(mode = "running") \/ []<><<Crash>>_vars \/ []<><<ReplayFails>>_vars
=============================================================================
