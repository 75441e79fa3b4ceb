-------------------------------- MODULE MMR ---------------------------------
(***************************************************************************)
(* Merkle mountain ranges (libmw mmr): the positions of nodes, the hashes  *)
(* that a new leaf adds, and the root.                                     *)
(*                                                                         *)
(* An MMR is the sequence of its node hashes in postorder, so that         *)
(* position p is element p + 1.  A hash is the tuple of what is hashed.    *)
(***************************************************************************)
EXTENDS Integers, Sequences

\* BitUtil.
FillOnesToRight[n \in Nat] == IF n = 0 THEN 0 ELSE 2 * FillOnesToRight[n \div 2] + 1
CountBitsSet[n \in Nat] == IF n = 0 THEN 0 ELSE (n % 2) + CountBitsSet[n \div 2]

\* Index: what is left of a position, and the leaves before it, after the peaks
\* of at most the given size are taken away.
LessPeaks[left \in Nat, size \in Nat] ==
    IF size = 0 THEN left
    ELSE LessPeaks[IF left >= size THEN left - size ELSE left, size \div 2]

PeakLeaves[left \in Nat, size \in Nat] ==
    IF size = 0 THEN 0
    ELSE IF left >= size THEN (size + 1) \div 2 + PeakLeaves[left - size, size \div 2]
    ELSE PeakLeaves[left, size \div 2]

CalculateHeight(position) == LessPeaks[position, FillOnesToRight[position]]
CalculateLeafIndex(position) == PeakLeaves[position, FillOnesToRight[position]]
IsLeaf(position) == CalculateHeight(position) = 0
GetLeftChild(position) == position - 2 ^ CalculateHeight(position)

\* LeafIndex::At.
GetPosition(leafIndex) == 2 * leafIndex - CountBitsSet[leafIndex]

GetHash(nodes, position) == nodes[position + 1]
GetNumLeaves(nodes) == CalculateLeafIndex(Len(nodes))
-----------------------------------------------------------------------------
\* AddLeaf: the leaf, then a parent for every pair of equal mountains.
AddLeaf(nodes, data) ==
    LET parents == CHOOSE k \in 0 .. Len(nodes) : /\ IsLeaf(Len(nodes) + k + 1)
                                                  /\ \A j \in 1 .. k : ~IsLeaf(Len(nodes) + j)
        with[k \in 0 .. parents] ==
            IF k = 0 THEN Append(nodes, <<Len(nodes), data>>)
            ELSE LET position == Len(nodes) + k IN
                 Append(with[k - 1], <<position, GetHash(with[k - 1], GetLeftChild(position)),
                                                 GetHash(with[k - 1], position - 1)>>)
    IN with[parents]

\* IMMR::Root: the peaks, and their hashes bagged from the right.
Peaks[left \in Nat, size \in Nat, before \in Nat] ==
    IF size = 0 THEN <<>>
    ELSE IF left >= size THEN <<before + size - 1>> \o Peaks[left - size, size \div 2, before + size]
    ELSE Peaks[left, size \div 2, before]

Root(nodes) ==
    LET numNodes == GetPosition(GetNumLeaves(nodes))
        peaks == Peaks[numNodes, FillOnesToRight[numNodes], 0]
        bag[k \in 1 .. Len(peaks)] ==
            IF k = Len(peaks) THEN GetHash(nodes, peaks[k])
            ELSE <<numNodes, GetHash(nodes, peaks[k]), bag[k + 1]>>
    IN IF numNodes = 0 THEN <<>> ELSE bag[1]
-----------------------------------------------------------------------------
\* What the hashes of an MMR over data are meant to be: the mountain over the
\* 2^h elements from index s on, and from s on the largest mountains that fit.
Mountain(data) ==
    LET tree[h \in Nat, s \in Nat, position \in Nat] ==
            IF h = 0 THEN <<<<position, data[s]>>>>
            ELSE LET left == tree[h - 1, s, position]
                     right == tree[h - 1, s + 2 ^ (h - 1), position + 2 ^ h - 1]
                 IN left \o right \o <<<<position + 2 ^ (h + 1) - 2, left[Len(left)], right[Len(right)]>>>>
    IN tree

Mountains(data) ==
    LET largest(n) == CHOOSE h \in 0 .. n : 2 ^ h <= n /\ n < 2 ^ (h + 1)
        range[s \in Nat, position \in Nat] ==
            IF s > Len(data) THEN <<>>
            ELSE LET h == largest(Len(data) - s + 1) IN
                 Mountain(data)[h, s, position] \o range[s + 2 ^ h, position + 2 ^ (h + 1) - 1]
    IN range[1, 0]
=============================================================================
