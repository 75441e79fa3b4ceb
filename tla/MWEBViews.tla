------------------------------ MODULE MWEBViews ------------------------------
(***************************************************************************)
(* mw::CoinsViewCache with its leaf set and its output MMR, as operators   *)
(* on records: what a cache over a base view shows, what applying and      *)
(* undoing a block makes of it, and what a flush writes to the base.       *)
(*                                                                         *)
(* A view, of whatever kind, shows its best header, the number of leaves   *)
(* of the MMR and its hashes, the bits and the next index of the leaf set, *)
(* and the unspent outputs with their leaf indices.  A cache stores:       *)
(* - bytes: the bytes of the leaf set it has modified;                     *)
(* - first, leaves, nodes: the leaves after the first one that the base    *)
(*   does not provide, and the hashes they added;                          *)
(* - updates: per output the actions, the leaf index of an output that is  *)
(*   added, None for a spend.                                              *)
(* Exceptions are the value Thrown.                                        *)
(***************************************************************************)
EXTENDS MMR, SequencesExt

CONSTANTS Blocks,     \* the block tree
          Base,       \* the block it grows from
          Parent,     \* pprev
          MWEBBlocks, \* the blocks with an extension block
          Outputs,    \* Outputs[b]: the outputs that b adds, in order
          Inputs,     \* Inputs[b]: the outputs that b spends, in order
          IDs,        \* output ids
          ByteSize,   \* bits in a byte of the leaf set
          None, Thrown

\* The header of the extension block of b, named by the block.
Header(b) == IF b \in MWEBBlocks THEN b ELSE None

Empty == [o \in IDs |-> <<>>]
-----------------------------------------------------------------------------
\* What the blocks up to b amount to, and what the header of b commits to.
Leaves[b \in Blocks] == IF b = Base THEN Outputs[b] ELSE Leaves[Parent[b]] \o Outputs[b]

UTXOs[b \in Blocks] ==
    LET added(o) == {i \in DOMAIN Outputs[b] : Outputs[b][i] = o}
        before == IF b = Base THEN [o \in IDs |-> None] ELSE UTXOs[Parent[b]]
    IN [o \in IDs |-> IF o \in Range(Inputs[b]) THEN None
                      ELSE IF added(o) # {}
                      THEN Len(Leaves[b]) - Len(Outputs[b]) + (CHOOSE i \in added(o) : TRUE) - 1
                      ELSE before[o]]

ViewAt(b) == [header |-> Header(b), numLeaves |-> Len(Leaves[b]), nodes |-> Mountains(Leaves[b]),
              next |-> Len(Leaves[b]), bits |-> Range(UTXOs[b]) \ {None}, utxo |-> UTXOs[b]]
-----------------------------------------------------------------------------
\* CoinsViewCache over a base, LeafSetCache::GetByte, PMMRCache::GetHash, GetUTXO.
NewCache(base) ==
    [header |-> base.header, next |-> base.next, bytes |-> <<>>, first |-> base.numLeaves,
     leaves |-> <<>>, nodes |-> <<>>, updates |-> Empty]

NextLeafIdx(c) == c.first + Len(c.leaves)

ViewOf(c, base) ==
    [header |-> c.header, numLeaves |-> NextLeafIdx(c),
     nodes |-> SubSeq(base.nodes, 1, GetPosition(c.first)) \o c.nodes, next |-> c.next,
     bits |-> UNION Range(c.bytes) \cup {i \in base.bits : i \div ByteSize \notin DOMAIN c.bytes},
     utxo |-> [o \in IDs |-> IF c.updates[o] = <<>> THEN base.utxo[o] ELSE Last(c.updates[o])]]

\* GetUTXO asserts that the actions on an output take turns.
TakeTurns(c, base) ==
    \A o \in IDs : \A i \in DOMAIN c.updates[o] :
        (c.updates[o][i] = None) # ((IF i = 1 THEN base.utxo[o] ELSE c.updates[o][i - 1]) = None)

\* ILeafSet::Add, Remove, Root and Rewind.
SetByte(c, i, byte) == [c EXCEPT !.bytes = (i \div ByteSize :> byte) @@ @]
GetByte(c, base, i) == {j \in ViewOf(c, base).bits : j \div ByteSize = i \div ByteSize}

AddBit(c, base, i) == [SetByte(c, i, GetByte(c, base, i) \cup {i}) EXCEPT !.next = IF i >= @ THEN i + 1 ELSE @]
RemoveBit(c, base, i) == SetByte(c, i, GetByte(c, base, i) \ {i})

LeafsetRoot(v) ==
    LET numBytes == (v.next + ByteSize - 1) \div ByteSize
    IN <<numBytes, {i \in v.bits : i \div ByteSize < numBytes}>>

\* Variant of RewindLeafSet that does not add the leaves.
RewindLeafSetUnadded(c, base, numLeaves, toAdd) ==
    LET extra == [k \in 1 .. c.next - numLeaves |-> numLeaves + k - 1]
    IN [FoldLeft(LAMBDA x, i : RemoveBit(x, base, i), c, extra) EXCEPT !.next = numLeaves]

RewindLeafSet(c, base, numLeaves, toAdd) ==
    LET added == FoldLeft(LAMBDA x, i : AddBit(x, base, i), c, toAdd)
        extra == [k \in 1 .. added.next - numLeaves |-> numLeaves + k - 1]
    IN [FoldLeft(LAMBDA x, i : RemoveBit(x, base, i), added, extra) EXCEPT !.next = numLeaves]

\* PMMRCache::AddLeaf and Rewind.
AppendLeaf(c, base, o) ==
    LET nodes == AddLeaf(ViewOf(c, base).nodes, o)
    IN [c EXCEPT !.leaves = Append(@, o), !.nodes = SubSeq(nodes, GetPosition(c.first) + 1, Len(nodes))]

\* Variant of RewindPMMR that does not reach below the cache.
RewindPMMRInCache(c, numLeaves) ==
    IF numLeaves <= c.first THEN [c EXCEPT !.leaves = <<>>, !.nodes = <<>>]
    ELSE IF numLeaves >= NextLeafIdx(c) THEN c
    ELSE [c EXCEPT !.leaves = SubSeq(@, 1, numLeaves - c.first),
                   !.nodes = SubSeq(@, 1, GetPosition(numLeaves) - GetPosition(c.first))]

RewindPMMR(c, numLeaves) ==
    IF numLeaves <= c.first THEN [c EXCEPT !.first = numLeaves, !.leaves = <<>>, !.nodes = <<>>]
    ELSE IF numLeaves >= NextLeafIdx(c) THEN c
    ELSE [c EXCEPT !.leaves = SubSeq(@, 1, numLeaves - c.first),
                   !.nodes = SubSeq(@, 1, GetPosition(numLeaves) - GetPosition(c.first))]
-----------------------------------------------------------------------------
AddUTXO(c, base, o) ==
    IF c = Thrown \/ ViewOf(c, base).utxo[o] # None THEN Thrown
    ELSE [AddBit(AppendLeaf(c, base, o), base, NextLeafIdx(c)) EXCEPT !.updates[o] = Append(@, NextLeafIdx(c))]

SpendUTXO(c, base, o) ==
    IF c = Thrown \/ ViewOf(c, base).utxo[o] \notin ViewOf(c, base).bits THEN Thrown
    ELSE [RemoveBit(c, base, ViewOf(c, base).utxo[o]) EXCEPT !.updates[o] = Append(@, None)]

\* The roots and the size that the header of b commits to.
Matches(v, b) ==
    LET w == ViewAt(b)
    IN Root(v.nodes) = Root(w.nodes) /\ v.numLeaves = w.numLeaves /\ LeafsetRoot(v) = LeafsetRoot(w)

Added(c, base, b) == FoldLeft(LAMBDA x, o : AddUTXO(x, base, o), [c EXCEPT !.header = b], Outputs[b])

\* ApplyBlock.  The kernel sums are right only on top of the header that the
\* block's kernel offset was built on.
ApplyBlock(c, base, b) ==
    LET after == FoldLeft(LAMBDA x, o : SpendUTXO(x, base, o), Added(c, base, b), Inputs[b])
    IN IF c.header = Header(Parent[b]) /\ after # Thrown /\ Matches(ViewOf(after, base), b) THEN after ELSE Thrown

\* The undo data it returns.
UndoOf(c, base, b) ==
    [header |-> c.header, added |-> Outputs[b],
     spent |-> [i \in DOMAIN Inputs[b] |->
                  [id |-> Inputs[b][i], leaf |-> ViewOf(Added(c, base, b), base).utxo[Inputs[b][i]]]]]

UndoBlock(c, base, undo) ==
    LET restored == FoldLeft(LAMBDA x, coin : [x EXCEPT !.updates[coin.id] = Append(@, coin.leaf)], c, undo.spent)
        removed == FoldLeft(LAMBDA x, o : [x EXCEPT !.updates[o] = Append(@, None)], restored, undo.added)
        leaves == [i \in DOMAIN undo.spent |-> undo.spent[i].leaf]
        rewound(n, toAdd) == [RewindPMMR(RewindLeafSet(removed, base, n, toAdd), n) EXCEPT !.header = undo.header]
    IN IF undo.header = None THEN rewound(0, <<>>)
       ELSE LET c2 == rewound(Len(Leaves[undo.header]), leaves)
            IN IF Matches(ViewOf(c2, base), undo.header) THEN c2 ELSE Thrown
-----------------------------------------------------------------------------
\* Variant of FlushInto that does not rewind the parent's MMR.
FlushIntoUnrewound(parent, base, c) ==
    IF c.header = None THEN parent
    ELSE FoldLeft(LAMBDA x, o : AppendLeaf(x, base, o),
                  [parent EXCEPT !.header = c.header, !.next = c.next, !.bytes = c.bytes @@ @,
                                 !.updates = [o \in IDs |-> @[o] \o c.updates[o]]],
                  c.leaves)

\* Flush into a cache: WriteBatch, LeafSetCache::ApplyUpdates, PMMRCache::BatchWrite.
FlushInto(parent, base, c) ==
    IF c.header = None THEN parent
    ELSE FoldLeft(LAMBDA x, o : AppendLeaf(x, base, o),
                  RewindPMMR([parent EXCEPT !.header = c.header, !.next = c.next, !.bytes = c.bytes @@ @,
                                            !.updates = [o \in IDs |-> @[o] \o c.updates[o]]], c.first),
                  c.leaves)

\* What the flush leaves in the cache.
Flushed(c) ==
    IF c.header = None THEN c
    ELSE [c EXCEPT !.bytes = <<>>, !.first = NextLeafIdx(c), !.leaves = <<>>, !.nodes = <<>>, !.updates = Empty]

\* Flush into the database view: CoinsViewDB::WriteBatch.
BatchCoins(utxo, c) == [o \in IDs |-> IF c.updates[o] = <<>> THEN utxo[o] ELSE Last(c.updates[o])]

\* It throws when a coin to be spent is neither in the batch nor in the
\* database, and AppendOnlyFile::Rewind when there is nothing to rewind.
FlushThrows(utxo, file, c) ==
    \/ \E o \in IDs : \E i \in DOMAIN c.updates[o] :
         c.updates[o][i] = None /\ utxo[o] = None /\ (i = 1 \/ c.updates[o][i - 1] = None)
    \/ GetPosition(c.first) > Len(file)

\* LeafSet::ApplyUpdates: the file that takes the place of file.
LeafSetFile(file, c) ==
    [next |-> c.next,
     bits |-> (UNION Range(c.bytes) \cup {i \in file.bits : i \div ByteSize \notin DOMAIN c.bytes})
              \ (c.next .. file.next - 1)]

\* Variant of PMMRBuffer that adds the leaves in another order.
PMMRBufferUnordered(file, c) ==
    LET start == GetPosition(c.first)
        nodes == FoldLeft(AddLeaf, SubSeq(file, 1, start), Reverse(c.leaves))
    IN SubSeq(nodes, start + 1, Len(nodes))

\* PMMR::BatchWrite: Rewind, and AddLeaf into the buffer.
PMMRBuffer(file, c) ==
    LET start == GetPosition(c.first)
        nodes == FoldLeft(AddLeaf, SubSeq(file, 1, start), c.leaves)
    IN SubSeq(nodes, start + 1, Len(nodes))

\* AppendOnlyFile::Commit.  File::Write opens the copy in append mode, so that
\* the buffer goes to its end whatever seekp says; then the file is cut to the
\* size it should have.
HashFile(file, c) ==
    SubSeq(file \o PMMRBuffer(file, c), 1, GetPosition(c.first) + Len(PMMRBuffer(file, c)))

\* The buffer is meant to go in the place of hashes in the file.
Overwrites(file, c) == GetPosition(c.first) < Len(file) /\ c.leaves # <<>>
=============================================================================
