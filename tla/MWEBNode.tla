------------------------------ MODULE MWEBNode ------------------------------
(***************************************************************************)
(* The MWEB half of the coins views in a running node: the coins tip over  *)
(* the database view, blocks that are connected and disconnected through   *)
(* scoped views, flushes that write files and a LevelDB batch, crashes,    *)
(* and the start after them, ReplayBlocks included.                        *)
(*                                                                         *)
(* The transparent half is the block it is at: CoinsDB has the rest of it. *)
(* Undo data are in the block files, which are written before the coins.   *)
(* A crash ends the process; what was handed to the file system stays.     *)
(***************************************************************************)
EXTENDS MWEBViews

CONSTANTS MaxIndex,   \* the largest number of a file
          MaxActions, \* actions on an output in the coins tip above which it is flushed first
          Torn        \* a file that was not written to its end

VARIABLES db,         \* LevelDB: best block, head blocks, MWEB coins, MMRInfo index
          leafFiles,  \* the leaf set files by number: next and bits, None, or Torn
          hashFiles,  \* the hash files by number
          undo,       \* the MWEB undo data of each block
          phase,      \* what the node is doing
          dbView,     \* mw::CoinsViewDB: its best header and the number of its files
          best,       \* the best block of the coins tip
          tip,        \* the mw::CoinsViewCache of the coins tip
          replayed,   \* history: an interrupted flush was replayed
          overwritten \* history: a flush put hashes in the place of others

disk == <<db, leafFiles, hashFiles, undo>>
memory == <<dbView, best, tip>>
history == <<replayed, overwritten>>
vars == <<disk, phase, memory, history>>

Files == 0 .. MaxIndex

Ancestors[b \in Blocks] == IF b = Base THEN {b} ELSE {b} \cup Ancestors[Parent[b]]

\* LastCommonAncestor.
Fork(a, b) == CHOOSE f \in Ancestors[a] \cap Ancestors[b] : Ancestors[a] \cap Ancestors[b] = Ancestors[f]

\* What the database view shows.
DBView(coins, v) ==
    [header |-> v.header, numLeaves |-> GetNumLeaves(hashFiles[v.index]), nodes |-> hashFiles[v.index],
     next |-> leafFiles[v.index].next, bits |-> leafFiles[v.index].bits, utxo |-> coins]

Database == DBView(db.utxo, dbView)
Tip == ViewOf(tip, Database)

\* A node at Base, its coins flushed.
Init ==
    /\ db = [best |-> Base, heads |-> <<>>, utxo |-> ViewAt(Base).utxo, index |-> 0]
    /\ leafFiles = [i \in Files |-> IF i = 0 THEN [next |-> ViewAt(Base).next, bits |-> ViewAt(Base).bits] ELSE None]
    /\ hashFiles = [i \in Files |-> IF i = 0 THEN ViewAt(Base).nodes ELSE None]
    /\ undo = [b \in Blocks |-> None]
    /\ phase = "running" /\ dbView = [header |-> Header(Base), index |-> 0]
    /\ best = Base /\ tip = NewCache(ViewAt(Base))
    /\ replayed = FALSE /\ overwritten = FALSE
-----------------------------------------------------------------------------
\* The MWEB part of ConnectBlock and DisconnectBlock, in the cache c over base.
Connected(c, base, b) == IF b \in MWEBBlocks THEN ApplyBlock(c, base, b) ELSE c
Disconnected(c, base, b) == IF undo[b] # None THEN UndoBlock(c, base, undo[b]) ELSE c

\* A scoped view of the coins tip.
Scoped == NewCache(Tip)

\* The bound on blocks between flushes.
Bounded == \A o \in IDs : Len(tip.updates[o]) <= MaxActions

\* ConnectTip.  Nothing changes when ApplyBlock throws.
ConnectTip(b) ==
    /\ phase = "running" /\ Bounded /\ b # Base /\ Parent[b] = best
    /\ Connected(Scoped, Tip, b) # Thrown
    /\ tip' = FlushInto(tip, Database, Connected(Scoped, Tip, b)) /\ best' = b
    /\ undo' = IF b \in MWEBBlocks /\ undo[b] = None
               THEN [undo EXCEPT ![b] = UndoOf(Scoped, Tip, b)] ELSE undo
    /\ UNCHANGED <<db, leafFiles, hashFiles, phase, dbView, history>>

\* DisconnectTip.  The node aborts when UndoBlock throws.
DisconnectTip ==
    /\ phase = "running" /\ Bounded /\ best # Base
    /\ Disconnected(Scoped, Tip, best) # Thrown
    /\ tip' = FlushInto(tip, Database, Disconnected(Scoped, Tip, best)) /\ best' = Parent[best]
    /\ UNCHANGED <<disk, phase, dbView, history>>
-----------------------------------------------------------------------------
\* CCoinsViewDB::BatchWrite: the coins may take several batches, and the first
\* of them marks the database.
OldTip == IF db.heads = <<>> THEN db.best ELSE db.heads[2]
Marked == [db EXCEPT !.best = None, !.heads = <<best, OldTip>>]
Dirty == best # OldTip \/ tip.updates # Empty

BatchWrite ==
    /\ phase = "running" /\ db.index < MaxIndex
    /\ phase' = "mweb" /\ (db' = db \/ (Dirty /\ db' = Marked))
    /\ UNCHANGED <<leafFiles, hashFiles, undo, memory, history>>

\* Variant of New: the files are written in place.
NewInPlace == db.index

\* mw::CoinsViewCache::Flush into new files.
New == db.index + 1

FlushLeafSet ==
    /\ phase \in {"mweb", "replay mweb"} /\ tip.header # None
    /\ ~FlushThrows(db.utxo, hashFiles[dbView.index], tip)
    /\ leafFiles' = [leafFiles EXCEPT ![New] = LeafSetFile(leafFiles[dbView.index], tip)]
    /\ phase' = IF phase = "mweb" THEN "hashes" ELSE "replay hashes"
    /\ UNCHANGED <<db, hashFiles, undo, memory, history>>

FlushHashes ==
    /\ phase \in {"hashes", "replay hashes"}
    /\ hashFiles' = [hashFiles EXCEPT ![New] = HashFile(hashFiles[dbView.index], tip)]
    /\ overwritten' = (overwritten \/ Overwrites(hashFiles[dbView.index], tip))
    /\ phase' = IF phase = "hashes" THEN "commit" ELSE "replay commit"
    /\ UNCHANGED <<db, leafFiles, undo, memory, replayed>>

\* The last batch, with the MWEB coins, the number of the new files, and the
\* best block.
Commit ==
    /\ phase \in {"commit", "replay commit"}
    /\ db' = [best |-> best, heads |-> <<>>, utxo |-> BatchCoins(db.utxo, tip), index |-> New]
    /\ dbView' = [header |-> tip.header, index |-> New] /\ tip' = Flushed(tip)
    /\ phase' = IF phase = "commit" THEN "compact" ELSE "replay compact"
    /\ UNCHANGED <<leafFiles, hashFiles, undo, best, history>>

\* Without a header the flush returns at once, and the last batch has no more
\* than the best block.
CommitNoHeader ==
    /\ phase \in {"mweb", "replay mweb"} /\ tip.header = None
    /\ db' = [db EXCEPT !.best = best, !.heads = <<>>]
    /\ phase' = IF phase = "mweb" THEN "compact" ELSE "replay compact"
    /\ UNCHANGED <<leafFiles, hashFiles, undo, memory, history>>

\* Cleanup: the files below the current one, down to the first that is missing.
Older(files) == {i \in Files : i < db.index /\ \A j \in i .. db.index - 1 : files[j] # None}

\* Compact; after ReplayBlocks the coins tip is created.
Compact ==
    /\ phase \in {"compact", "replay compact"}
    /\ leafFiles' = [i \in Files |-> IF i \in Older(leafFiles) THEN None ELSE leafFiles[i]]
    /\ hashFiles' = [i \in Files |-> IF i \in Older(hashFiles) THEN None ELSE hashFiles[i]]
    /\ tip' = IF phase = "compact" THEN tip ELSE NewCache(Database)
    /\ phase' = "running"
    /\ UNCHANGED <<db, undo, dbView, best, history>>
-----------------------------------------------------------------------------
\* The process ends; a file that is being written may be cut short.
Crash ==
    /\ phase # "down" /\ phase' = "down"
    /\ leafFiles' \in {leafFiles} \cup
          {[leafFiles EXCEPT ![New] = Torn] : f \in {f \in {New} : phase \in {"mweb", "replay mweb"} /\ tip.header # None}}
    /\ hashFiles' \in {hashFiles} \cup
          {[hashFiles EXCEPT ![New] = Torn] : f \in {f \in {New} : phase \in {"hashes", "replay hashes"}}}
    /\ dbView' = None /\ best' = None /\ tip' = None
    /\ UNCHANGED <<db, undo, history>>

\* InitCoinsDB: the header is that of the best block, if there is one.
Opened == [header |-> IF db.best = None THEN None ELSE Header(db.best), index |-> db.index]

\* The start after a complete flush.
Start ==
    /\ phase = "down" /\ db.heads = <<>>
    /\ dbView' = Opened /\ best' = db.best /\ tip' = NewCache(DBView(db.utxo, Opened))
    /\ phase' = "running"
    /\ UNCHANGED <<disk, history>>

\* The cache of ReplayBlocks, or VerifyDB, after the blocks above b were
\* disconnected from a, and after those up to b were connected to a.
RolledBack(c, base, a, b) ==
    LET at[x \in Blocks] ==
            IF x = a THEN c
            ELSE LET above == CHOOSE y \in Ancestors[a] : y # Base /\ Parent[y] = x
                 IN IF at[above] = Thrown THEN Thrown ELSE Disconnected(at[above], base, above)
    IN at[b]

RolledForward(c, base, a, b) ==
    LET at[x \in Blocks] ==
            IF x = a THEN c
            ELSE IF at[Parent[x]] = Thrown THEN Thrown ELSE Connected(at[Parent[x]], base, x)
    IN at[b]

\* The start after an interrupted flush: ReplayBlocks rolls back with
\* DisconnectBlock, and rolls forward with RollforwardBlock, which applies the
\* transactions only; then it flushes.
ReplayBlocks ==
    /\ phase = "down" /\ db.heads # <<>> /\ db.index < MaxIndex
    /\ LET base == DBView(db.utxo, Opened)
           c == RolledBack(NewCache(base), base, db.heads[2], Fork(db.heads[1], db.heads[2]))
       IN c # Thrown /\ tip' = c
    /\ dbView' = Opened /\ best' = db.heads[1]
    /\ phase' = "replay mweb" /\ replayed' = TRUE
    /\ UNCHANGED <<disk, overwritten>>
-----------------------------------------------------------------------------
Next == \/ \E b \in Blocks : ConnectTip(b)
        \/ DisconnectTip \/ BatchWrite \/ FlushLeafSet \/ FlushHashes \/ Commit \/ CommitNoHeader
        \/ Compact \/ Crash \/ Start \/ ReplayBlocks

Spec == Init /\ [][Next]_vars
-----------------------------------------------------------------------------
\* Views that show the same, but for the hashes when they need not.
Same(v, w, hashes) ==
    /\ v.header = w.header /\ v.numLeaves = w.numLeaves /\ v.next = w.next
    /\ v.bits = w.bits /\ v.utxo = w.utxo /\ (hashes => v.nodes = w.nodes)

\* Both halves of the coins tip are at the same block: the MWEB view shows the
\* header, the outputs, the leaf set and the MMR that the blocks up to the best
\* block amount to.
HalvesAgree == phase = "running" => Same(Tip, ViewAt(best), FALSE)

\* The same, unless a start had to replay blocks.
HalvesAgreeUnreplayed == ~replayed => HalvesAgree

\* The MMR that the node goes on with has the hashes of its leaves.
HashesExact == phase = "running" /\ ~replayed => Tip.nodes = ViewAt(best).nodes
HashesExactUnlessOverwritten == ~overwritten => HashesExact

\* Every valid block on the tip can be connected, the tip can be disconnected,
\* a flush succeeds, and no assertion on the actions of an output fails.
NothingThrows ==
    phase # "down" /\ ~replayed /\ ~overwritten =>
        /\ phase = "running" =>
             /\ \A b \in Blocks \ {Base} : Parent[b] = best => Connected(Scoped, Tip, b) # Thrown
             /\ best # Base => Disconnected(Scoped, Tip, best) # Thrown
        /\ ~FlushThrows(db.utxo, hashFiles[dbView.index], tip)
        /\ TakeTurns(tip, Database)

\* VerifyDB: however many blocks are disconnected in one cache over the coins
\* tip and connected again, every block fits, and the views are those of the
\* blocks.
VerifyDB ==
    phase = "running" /\ ~replayed /\ ~overwritten =>
        \A a \in Ancestors[best] :
            LET back == RolledBack(Scoped, Tip, best, a)
                again == RolledForward(back, Tip, a, best)
            IN /\ back # Thrown /\ Same(ViewOf(back, Tip), ViewAt(a), TRUE)
               /\ again # Thrown /\ Same(ViewOf(again, Tip), ViewAt(best), TRUE)

\* Whenever the process ends, the database names files that are whole and that
\* are of the block its MWEB coins are of: the block of the last complete flush.
DiskIntact ==
    LET b == IF db.heads = <<>> THEN db.best ELSE db.heads[2]
        v == DBView(db.utxo, [header |-> Header(b), index |-> db.index])
    IN /\ leafFiles[db.index] \notin {None, Torn} /\ hashFiles[db.index] \notin {None, Torn}
       /\ ~replayed => Same(v, ViewAt(b), ~overwritten)
=============================================================================
