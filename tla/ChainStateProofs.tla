-------------------------- MODULE ChainStateProofs --------------------------
(***************************************************************************)
(* Proofs about ChainState, for every tree of blocks: the active chain is  *)
(* valid, what ActivateBestChain is on its way to stays usable, the index  *)
(* and the candidates are what CheckBlockIndex expects, and the tip that   *)
(* is chosen is the best.                                                  *)
(***************************************************************************)
EXTENDS ChainState, TLAPS

\* Most steps are first-order reasoning about sets; those for SMT say so.
USE ZenonT(30)

Activation == [at : {"find", "outer", "step", "connect"}, start : Blocks, old : Blocks \cup {None},
               most : Blocks \cup {None}, connected : BOOLEAN]
Invalidation == [at : {"walk"}, block : Blocks \ {Base}, mark : Blocks, byWork : SUBSET Blocks]

Typed ==
    /\ tip \in Blocks /\ index \subseteq Blocks /\ candidates \subseteq Blocks
    /\ job \in Activation \/ job \in Invalidation \/ job = Idle \/ job = Aborted

\* What a step leaves: there is a best chain, the tip is on the way to it, and
\* the block that InvalidateBlock will mark is not on the active chain.
Underway ==
    /\ job.at \in {"step", "connect"} => job.most \in Blocks
    /\ job.at \in {"outer", "connect"} => job.most = None \/ tip \in Ancestors[job.most]
    /\ job.at = "walk" => job.mark = job.block \/ job.mark \notin Chain

\* The inductive invariant of the active chain.
IInv == Typed /\ ChainValid /\ failedBlocks \subseteq Failed /\ PathUsable /\ Underway

\* ActivateBestChain is in its inner loop.
Activating == job.at \in {"find", "step", "connect"}

Numbers == seq \in [Blocks -> Int] /\ nextSeq \in Int /\ reverseSeq \in Int

\* The index has the ancestors of what it has, and so have the linked blocks.
Indexed ==
    /\ index \subseteq Blocks /\ \A b \in index : Ancestors[b] \subseteq index
    /\ data \subseteq received /\ received \subseteq index /\ Failed \subseteq index
    /\ linked \subseteq received /\ \A b \in linked : Ancestors[b] \subseteq linked
    /\ tip \in linked /\ unlinked \subseteq data /\ candidates \subseteq linked
    /\ \A b \in scripts \ {Base} : verdict[b] = "valid"
    /\ ~pruned => data = received

JobIndexed ==
    /\ job.at \in {"outer", "step", "connect"} => job.most \in linked \cup {None}
    /\ Activating => job.start \in linked
    /\ job.at = "walk" => job.mark \in index /\ job.byWork \subseteq linked

\* A block whose parent is linked waits in m_blocks_unlinked only if the parent
\* waits too or is not there.
Waits ==
    /\ unlinked \cap Chain = {}
    /\ \A d \in unlinked : Parent[d] \in linked => Parent[d] \in unlinked \/ Parent[d] \notin data \cup Chain

\* No candidate is worse than the tip.
Ordered == \A c \in candidates : ~WorseBy(seq, c, tip)

\* Marks are above invalid blocks; only there a block is forgotten that is not
\* linked.
Marks == ~disturbed =>
    /\ \A b \in failedChild : Invalid(b)
    /\ \A b \in data \ (linked \cup unlinked) : Invalid(b)

\* Blocks that are there and not worse than the tip are candidates or wait.  In
\* the inner loop, where the tip may be worse than it was, they are at least
\* compared with that.
Offered == ~disturbed /\ job.at \notin {"walk", "aborted"} =>
    \A b \in (linked \cap data) \ Failed :
        ~WorseBy(seq, b, tip) /\ (Activating => ~WorseBy(seq, b, job.start)) => b \in candidates \cup unlinked

\* The tip is a candidate, unless it is on the way back to where it was.
TipOffered == ~disturbed /\ job.at # "aborted" =>
    tip \in candidates \/ (Activating /\ (WorseBy(seq, tip, job.start) \/ tip \in data))

\* The chain that the inner loop started from is valid.  A step may prune it on its
\* way, but when the loop has to look for another chain it can go back to it.
Returns ==
    /\ Activating => Ancestors[job.start] \cap Failed = {} /\ Ancestors[job.start] \subseteq scripts
    /\ ~disturbed /\ job.at = "find" => ~Missing(job.start)
    /\ job.at \in {"find", "step"} => ~WorseBy(seq, job.start, tip)

\* A block that can be connected now.
Good(b) == b \in linked /\ ~Missing(b) /\ Ancestors[b] \cap Failed = {}

\* The chain that was chosen is the best, until somebody asks for another choice.
Chosen == ~disturbed /\ ~pending =>
    /\ job.at \in {"step", "connect", "outer"} /\ job.most # None => \A b \in Blocks : Good(b) => ~WorseBy(seq, job.most, b)
    /\ job = Idle => \A b \in Blocks : Good(b) => ~WorseBy(seq, tip, b)

\* The inductive invariant of the index and the candidates.
JInv == /\ Numbers /\ Indexed /\ JobIndexed /\ Waits /\ Ordered /\ Marks /\ Offered /\ TipOffered /\ Returns /\ Chosen
-----------------------------------------------------------------------------
\* A block is among its ancestors, and so are theirs.
LEMMA Down ==
    ASSUME NEW b \in Blocks
    PROVE  /\ b \in Ancestors[b] /\ Base \in Ancestors[b] /\ Ancestors[b] \subseteq Blocks
           /\ \A a \in Ancestors[b] : a \in Blocks /\ Ancestors[a] \subseteq Ancestors[b]
  <1>1. b \in Ancestors[b]
    <2>1. CASE b = Base  BY <2>1, TreeAssumption
    <2>2. CASE b # Base
      <3>1. Ancestors[b] = {b} \cup Ancestors[Parent[b]]  BY <2>2, TreeAssumption
      <3> QED  BY <3>1
    <2> QED  BY <2>1, <2>2
  <1>2. /\ Base \in Ancestors[b] /\ Ancestors[b] \subseteq Blocks
        /\ \A a \in Ancestors[b] : Ancestors[a] \subseteq Ancestors[b]
    BY TreeAssumption
  <1> QED  BY <1>1, <1>2

\* The chain that ends in b is b on top of the chain that ends in its parent.
LEMMA OneMore ==
    ASSUME NEW b \in Blocks, b # Base
    PROVE  /\ Parent[b] \in Blocks /\ b \notin Ancestors[Parent[b]]
           /\ Ancestors[b] = {b} \cup Ancestors[Parent[b]]
  BY TreeAssumption

\* Two blocks of one branch: one is an ancestor of the other.
LEMMA Comparable ==
    ASSUME NEW b \in Blocks, NEW x \in Ancestors[b], NEW y \in Ancestors[b]
    PROVE  x \in Ancestors[y] \/ y \in Ancestors[x]
  <1> DEFINE S == {x, y}
  <1>1. S \subseteq Ancestors[b] /\ S # {}  OBVIOUS
  <1>2. \E t \in S : S \subseteq Ancestors[t]
    <2> HIDE DEF S
    <2>1. \A T \in SUBSET Ancestors[b] : T # {} => \E t \in T : T \subseteq Ancestors[t]  BY TreeAssumption
    <2>2. S \in SUBSET Ancestors[b]  BY <1>1
    <2> QED  BY <1>1, <2>1, <2>2
  <1> QED  BY <1>2

\* A set of blocks of one branch has a highest one.
LEMMA Top ==
    ASSUME NEW b \in Blocks, NEW S, S \subseteq Ancestors[b], S # {}
    PROVE  Highest(S) \in S /\ S \subseteq Ancestors[Highest(S)]
  <1>1. \E t \in S : S \subseteq Ancestors[t]
    <2>1. \A T \in SUBSET Ancestors[b] : T # {} => \E t \in T : T \subseteq Ancestors[t]  BY TreeAssumption
    <2>2. S \in SUBSET Ancestors[b]  OBVIOUS
    <2> QED  BY <2>1, <2>2
  <1> QED  BY <1>1 DEF Highest

\* FindFork: where two branches part.
LEMMA ForkIsShared ==
    ASSUME NEW a \in Blocks, NEW b \in Blocks
    PROVE  LET f == Highest(Ancestors[a] \cap Ancestors[b])
           IN f \in Blocks /\ Ancestors[f] = Ancestors[a] \cap Ancestors[b]
  <1> DEFINE S == Ancestors[a] \cap Ancestors[b]
             f == Highest(S)
  <1>1. S \subseteq Ancestors[a] /\ S # {}  BY Down
  <1>2. f \in S /\ S \subseteq Ancestors[f]
    <2> HIDE DEF S
    <2> QED  BY <1>1, Top
  <1>3. f \in Ancestors[a] /\ f \in Ancestors[b]  BY <1>2
  <1>4. f \in Blocks /\ Ancestors[f] \subseteq Ancestors[a] /\ Ancestors[f] \subseteq Ancestors[b]
    <2> HIDE DEF f, S
    <2> QED  BY <1>3, Down
  <1> QED  BY <1>2, <1>4

\* What is above a block that is not on a chain is not on the chain either.
LEMMA AboveIsOff ==
    ASSUME NEW t \in Blocks, NEW b \in Blocks, NEW f \in Ancestors[b], f \notin Ancestors[t],
           NEW x \in Ancestors[b], x \notin Ancestors[f]
    PROVE  x \notin Ancestors[t] /\ f \in Ancestors[x]
  <1>1. f \in Ancestors[x]  BY Comparable
  <1>2. x \in Ancestors[t] => f \in Ancestors[t]  BY <1>1, Down
  <1> QED  BY <1>1, <1>2

\* Two blocks that are ancestors of one another are the same.
LEMMA Antisymmetric ==
    ASSUME NEW a \in Blocks, NEW b \in Blocks, a \in Ancestors[b], b \in Ancestors[a]
    PROVE  a = b
  <1>1. CASE b = Base
    <2>1. Ancestors[b] = {b}  BY <1>1, TreeAssumption
    <2> QED  BY <2>1
  <1>2. CASE b # Base
    <2>1. Parent[b] \in Blocks /\ b \notin Ancestors[Parent[b]] /\ Ancestors[b] = {b} \cup Ancestors[Parent[b]]
      BY <1>2, OneMore
    <2>2. SUFFICES ASSUME a \in Ancestors[Parent[b]] PROVE FALSE  BY <2>1
    <2>3. Ancestors[a] \subseteq Ancestors[Parent[b]]  BY <2>1, <2>2, Down
    <2> QED  BY <2>1, <2>3
  <1> QED  BY <1>1, <1>2

\* A set of blocks of one branch has a lowest one.
LEMMA Bottom ==
    ASSUME NEW b \in Blocks, NEW S, S \subseteq Ancestors[b], S # {}
    PROVE  \E t \in S : \A x \in S : x \in Ancestors[t] => x = t
  <1>1. \E t \in S : S \cap Ancestors[t] = {t}
    <2>1. \A T \in SUBSET Ancestors[b] : T # {} => \E t \in T : T \cap Ancestors[t] = {t}  BY RootAssumption
    <2>2. S \in SUBSET Ancestors[b]  OBVIOUS
    <2> QED  BY <2>1, <2>2
  <1> QED  BY <1>1

\* CBlockIndexWorkComparator is a strict order of the blocks, and total.
LEMMA Order ==
    ASSUME NEW s \in [Blocks -> Int], NEW a \in Blocks, NEW b \in Blocks
    PROVE  /\ ~WorseBy(s, a, a)
           /\ WorseBy(s, a, b) => ~WorseBy(s, b, a)
           /\ a # b => WorseBy(s, a, b) \/ WorseBy(s, b, a)
  <1>1. PICK wa \in Int, wb \in Int : wa = Work[a] /\ wb = Work[b]  BY OrderAssumption
  <1>2. PICK aa \in Int, ab \in Int : aa = Address[a] /\ ab = Address[b]  BY OrderAssumption
  <1>3. PICK sa \in Int, sb \in Int : sa = s[a] /\ sb = s[b]  OBVIOUS
  <1>4. aa = ab => a = b  BY <1>2, OrderAssumption
  <1> QED  BY <1>1, <1>2, <1>3, <1>4, SMTT(30) DEF WorseBy

\* By CBlockIndexWorkComparator: if a is not worse than b, and b is not worse
\* than c, then a is not worse than c.
LEMMA OrderTransitive ==
    ASSUME NEW s \in [Blocks -> Int], NEW a \in Blocks, NEW b \in Blocks, NEW c \in Blocks,
           ~WorseBy(s, a, b), ~WorseBy(s, b, c)
    PROVE  ~WorseBy(s, a, c)
  <1>1. PICK wa \in Int, wb \in Int, wc \in Int : wa = Work[a] /\ wb = Work[b] /\ wc = Work[c]  BY OrderAssumption
  <1>2. PICK aa \in Int, ab \in Int, ac \in Int : aa = Address[a] /\ ab = Address[b] /\ ac = Address[c]  BY OrderAssumption
  <1>3. PICK sa \in Int, sb \in Int, sc \in Int : sa = s[a] /\ sb = s[b] /\ sc = s[c]  OBVIOUS
  <1> QED  BY <1>1, <1>2, <1>3, SMTT(30) DEF WorseBy

\* The block of a branch that comes after d.
LEMMA NextUp ==
    ASSUME NEW b \in Blocks, NEW d \in Ancestors[b], d # b
    PROVE  \E c \in Ancestors[b] \ {Base} : Parent[c] = d /\ c \notin Ancestors[d]
  <1> DEFINE U == Ancestors[b] \ Ancestors[d]
  <1>1. d \in Blocks /\ b \in Ancestors[b] /\ Base \in Ancestors[d] /\ d \in Ancestors[d]  BY Down
  <1>2. U \subseteq Ancestors[b] /\ U # {}  BY <1>1, Antisymmetric
  <1>3. PICK c \in U : \A x \in U : x \in Ancestors[c] => x = c
    <2> HIDE DEF U
    <2> QED  BY <1>2, Bottom
  <1>4. c \in Ancestors[b] /\ c \in Blocks /\ c # Base /\ c \notin Ancestors[d]  BY <1>1, Down
  <1>5. /\ Parent[c] \in Blocks /\ c \notin Ancestors[Parent[c]]
        /\ Ancestors[c] = {c} \cup Ancestors[Parent[c]] /\ Parent[c] \in Ancestors[Parent[c]]
    BY <1>4, OneMore, Down
  <1>6. Ancestors[c] \subseteq Ancestors[b]  BY <1>4, Down
  <1>7. Parent[c] \in Ancestors[d]
    <2>1. Parent[c] \in Ancestors[b] /\ Parent[c] \in Ancestors[c] /\ Parent[c] # c  BY <1>5, <1>6
    <2> QED  BY <1>3, <2>1
  <1>8. d \in Ancestors[Parent[c]]
    <2>1. d \in Ancestors[c]  BY <1>4, Comparable
    <2> QED  BY <1>1, <1>4, <1>5, <2>1
  <1>9. Parent[c] = d  BY <1>1, <1>5, <1>7, <1>8, Antisymmetric
  <1> QED  BY <1>4, <1>9

\* What grows from every parent to its children grows along a branch.
LEMMA Grows ==
    ASSUME NEW f, \A x \in Blocks : f[x] \in Int, \A x \in Blocks \ {Base} : f[Parent[x]] < f[x],
           NEW b \in Blocks, NEW a \in Ancestors[b], a # b
    PROVE  f[a] < f[b]
  <1> DEFINE D == {x \in Ancestors[b] : x # b /\ ~(f[x] < f[b])}
  <1>1. SUFFICES ASSUME D # {} PROVE FALSE  OBVIOUS
  <1>2. PICK d \in D : D \subseteq Ancestors[d]
    <2>1. D \subseteq Ancestors[b]  OBVIOUS
    <2> HIDE DEF D
    <2> QED  BY <1>1, <2>1, Top
  <1>3. d \in Ancestors[b] /\ d \in Blocks /\ d # b /\ ~(f[d] < f[b])  BY Down
  <1>4. PICK c \in Ancestors[b] \ {Base} : Parent[c] = d /\ c \notin Ancestors[d]  BY <1>3, NextUp
  <1>5. c \in Blocks /\ (c = b \/ f[c] < f[b])  BY <1>2, <1>4, Down
  <1>6. PICK wb \in Int, wc \in Int, wd \in Int : wb = f[b] /\ wc = f[c] /\ wd = f[d]
    BY <1>3, <1>5
  <1>7. wd < wc  BY <1>4, <1>5, <1>6
  <1>8. wc = wb \/ wc < wb  BY <1>5, <1>6
  <1>9. ~(wd < wb)  BY <1>3, <1>6
  <1> QED  BY <1>7, <1>8, <1>9, SMTT(30)

\* A block has more work than those it is built on.
LEMMA LessWork ==
    ASSUME NEW b \in Blocks, NEW a \in Ancestors[b], a # b
    PROVE  Work[a] < Work[b]
  <1>1. (\A x \in Blocks : Work[x] \in Int) /\ \A x \in Blocks \ {Base} : Work[Parent[x]] < Work[x]  BY OrderAssumption
  <1> QED  BY <1>1, Grows

\* What is above a block of its branch is higher.
LEMMA AboveIsHigher ==
    ASSUME NEW t \in Blocks, NEW b \in Blocks, t \in Ancestors[b], NEW x \in Ancestors[b], x \notin Ancestors[t]
    PROVE  Height[t] \in Int /\ Height[x] \in Int /\ Height[t] < Height[x]
  <1>1. x \in Blocks /\ t \in Ancestors[x] /\ t # x  BY Comparable, Down
  <1>2. \A y \in Blocks : Height[y] \in Int  BY RootAssumption, SMTT(30)
  <1>3. \A y \in Blocks \ {Base} : Height[Parent[y]] < Height[y]
    <2> TAKE y \in Blocks \ {Base}
    <2>1. Height[y] = Height[Parent[y]] + 1 /\ Parent[y] \in Blocks  BY RootAssumption, OneMore
    <2> QED  BY <1>2, <2>1, SMTT(30)
  <1> QED  BY <1>1, <1>2, <1>3, Grows

\* It is better than they are.
LEMMA Lower ==
    ASSUME NEW s \in [Blocks -> Int], NEW b \in Blocks, NEW a \in Ancestors[b]
    PROVE  /\ a = b \/ WorseBy(s, a, b)
           /\ ~WorseBy(s, b, a)
  <1>1. a = b \/ WorseBy(s, a, b)  BY LessWork DEF WorseBy
  <1>2. a \in Blocks  BY Down
  <1> QED  BY <1>1, <1>2, Order
-----------------------------------------------------------------------------
\* Steps that leave the active chain and the job alone.
LEMMA Beside ==
    ASSUME IInv, UNCHANGED <<tip, job>>, scripts' = scripts, index' \subseteq Blocks, candidates' \subseteq Blocks,
           Chain \cap Failed' = {}, failedBlocks' \subseteq Failed', PathUsable'
    PROVE  IInv'
  <1>1. Typed'  BY DEF IInv, Typed, Idle, Aborted
  <1>2. ChainValid'  BY DEF IInv, ChainValid, Chain
  <1>3. Underway'  BY DEF IInv, Underway, Chain
  <1> QED  BY <1>1, <1>2, <1>3 DEF IInv

\* The path is left alone when no data goes and no mark is added.
LEMMA PathKept ==
    ASSUME IInv, UNCHANGED <<tip, job>>, data \subseteq data', Failed' \subseteq Failed
    PROVE  PathUsable'
  BY DEF IInv, PathUsable, Chain

\* The marks that a rejected header leaves are above a failed block.
LEMMA RejectHeaderKeeps == ASSUME IInv, NEW b \in Blocks \ {Base}, RejectHeader(b) PROVE IInv'
  <1>1. PICK f \in FailedBelow(Parent[b]) : failedChild' = failedChild \cup (Ancestors[Parent[b]] \ Ancestors[f])
    BY DEF RejectHeader
  <1>2. Parent[b] \in Blocks /\ f \in Ancestors[Parent[b]] /\ f \in failedBlocks
    BY <1>1, OneMore DEF FailedBelow
  <1>3. tip \in Blocks /\ f \in Failed /\ f \notin Ancestors[tip]
    BY <1>2 DEF IInv, Typed, ChainValid, Chain
  <1>4. UNCHANGED <<tip, job, scripts, index, data, candidates, failedBlocks, failedValid>>
    BY DEF RejectHeader, blocks, sets
  <1>5. Failed' = Failed \cup (Ancestors[Parent[b]] \ Ancestors[f])  BY <1>1, <1>4 DEF Failed
  <1>6. Chain \cap Failed' = {}
    <2>1. \A x \in Ancestors[Parent[b]] \ Ancestors[f] : x \notin Ancestors[tip]  BY <1>2, <1>3, AboveIsOff
    <2> QED  BY <1>5, <2>1 DEF IInv, ChainValid, Chain
  <1>7. PathUsable'
    <2> SUFFICES ASSUME job.at \in {"outer", "step", "connect"}, job.most # None
                 PROVE  Ancestors[job.most] \ Chain \subseteq data \ Failed'
      BY <1>4 DEF PathUsable, Chain
    <2>1. job.most \in Blocks  BY SMTT(30) DEF IInv, Typed, Activation, Invalidation, Idle, Aborted
    <2>2. Ancestors[job.most] \ Chain \subseteq data \ Failed  BY DEF IInv, PathUsable
    <2>3. f \notin Ancestors[job.most]  BY <1>3, <2>2 DEF Chain
    <2>4. \A x \in Ancestors[Parent[b]] \ Ancestors[f] : x \notin Ancestors[job.most]
      BY <1>2, <2>1, <2>3, AboveIsOff, SMTT(30)
    <2> QED  BY <1>5, <2>2, <2>4
  <1>8. index' \subseteq Blocks /\ candidates' \subseteq Blocks /\ failedBlocks' \subseteq Failed'
    BY <1>4, <1>5 DEF IInv, Typed
  <1> QED  BY <1>4, <1>6, <1>7, <1>8, Beside

\* A new header has nothing to do with the chain.
LEMMA AcceptBlockHeaderKeeps == ASSUME IInv, NEW b \in Blocks \ {Base}, AcceptBlockHeader(b) PROVE IInv'
  <1>1. UNCHANGED <<tip, job, scripts, data, candidates, failedBlocks, failedValid, failedChild>> /\ index' = index \cup {b}
    BY DEF AcceptBlockHeader, flags, sets
  <1>2. Failed' = Failed  BY <1>1 DEF Failed
  <1>3. PathUsable'  BY <1>1, <1>2, PathKept
  <1> QED  BY <1>1, <1>2, <1>3, Beside DEF IInv, Typed, ChainValid

\* A block that fails its checks was not received before.
LEMMA AcceptBlockKeeps == ASSUME IInv, NEW b \in Blocks \ {Base}, AcceptBlock(b) PROVE IInv'
  <1>1. /\ UNCHANGED <<tip, job, scripts, failedBlocks, failedChild>> /\ index' = index \cup {b}
        /\ b \notin data /\ b \notin Chain
    BY DEF AcceptBlock
  <1>2. CASE verdict[b] = "badcheck"
    <2>1. failedValid' = failedValid \cup {b} /\ UNCHANGED <<data, candidates>>  BY <1>2 DEF AcceptBlock
    <2>2. Failed' = Failed \cup {b}  BY <1>1, <2>1 DEF Failed
    <2>3. PathUsable'  BY <1>1, <2>1, <2>2 DEF IInv, PathUsable, Chain
    <2>4. Chain \cap Failed' = {}  BY <1>1, <2>2 DEF IInv, ChainValid
    <2>5. index' \subseteq Blocks /\ candidates' \subseteq Blocks  BY <1>1, <2>1 DEF IInv, Typed
    <2> QED  BY <1>1, <2>2, <2>3, <2>4, <2>5, Beside DEF IInv
  <1>3. CASE verdict[b] # "badcheck"
    <2>1. ReceivedBlockTransactions(b) /\ failedValid' = failedValid  BY <1>3 DEF AcceptBlock
    <2>2. data' = data \cup {b}  BY <2>1 DEF ReceivedBlockTransactions
    <2>3. candidates' \subseteq Blocks
      <3>1. Queue(b) \subseteq Blocks  BY DEF Queue
      <3>2. candidates' = candidates \/ candidates' = candidates \cup Better(seq', Queue(b))
        BY <2>1 DEF ReceivedBlockTransactions, Link
      <3>3. Better(seq', Queue(b)) \subseteq Queue(b)  BY DEF Better
      <3> QED  BY <3>1, <3>2, <3>3 DEF IInv, Typed
    <2>4. Failed' = Failed  BY <1>1, <2>1 DEF Failed
    <2>5. PathUsable'  BY <1>1, <2>2, <2>4, PathKept
    <2> QED  BY <1>1, <2>3, <2>4, <2>5, Beside DEF IInv, Typed, ChainValid
  <1> QED  BY <1>2, <1>3

\* What is pruned is below the tip, and what is still to be connected above it.
LEMMA PrunedIsBelow ==
    ASSUME NEW t \in Blocks, t = tip, NEW most \in Blocks, tip \in Ancestors[most],
           NEW b \in FindFilesToPrune, b \in Ancestors[most], b \notin Chain
    PROVE  FALSE
  <1>1. Height[b] <= Height[tip] - MinBlocksToKeep  BY DEF FindFilesToPrune
  <1>2. Height[tip] \in Int /\ Height[b] \in Int /\ Height[tip] < Height[b]  BY AboveIsHigher DEF Chain
  <1> QED  BY <1>1, <1>2, MinBlocksAssumption, SMTT(30)

\* So pruning leaves the way to the chosen chain alone.
LEMMA FlushKeeps == ASSUME IInv, FlushStateToDisk PROVE IInv'
  <1>1. PICK P \in SUBSET FindFilesToPrune : PruneOneBlockFile(P)  BY DEF FlushStateToDisk
  <1>2. /\ UNCHANGED <<tip, job, scripts, index, candidates, failedBlocks, failedValid, failedChild>>
        /\ data' = data \ P /\ Unlocked
    BY <1>1 DEF FlushStateToDisk, PruneOneBlockFile, flags
  <1>3. Failed' = Failed  BY <1>2 DEF Failed
  <1>4. PathUsable'
    <2> SUFFICES ASSUME job.at \in {"outer", "step", "connect"}, job.most # None,
                        NEW b \in P, b \in Ancestors[job.most], b \notin Chain
                 PROVE  FALSE
      BY <1>2, <1>3 DEF IInv, PathUsable, Chain
    <2>1. job.at = "outer"  BY <1>2 DEF Unlocked, Locked
    <2>2. tip \in Blocks /\ job.most \in Blocks
      BY SMTT(30) DEF IInv, Typed, Activation, Invalidation, Idle, Aborted
    <2>3. tip \in Ancestors[job.most]  BY <2>1 DEF IInv, Underway
    <2> QED  BY <2>2, <2>3, PrunedIsBelow
  <1> QED  BY <1>2, <1>3, <1>4, Beside DEF IInv, Typed, ChainValid
-----------------------------------------------------------------------------
\* Steps of the job that leave the active chain alone and mark nothing.
LEMMA JobMoves ==
    ASSUME IInv, tip' = tip, scripts' = scripts, index' = index, candidates' \subseteq Blocks,
           data' = data, Failed' = Failed, failedBlocks' = failedBlocks,
           job' \in Activation \/ job' \in Invalidation \/ job' = Idle \/ job' = Aborted,
           PathUsable', Underway'
    PROVE  IInv'
  BY DEF IInv, Typed, ChainValid, Chain, Idle, Aborted

\* ActivateBestChain starts without a best chain.
LEMMA ActivateBestChainKeeps == ASSUME IInv, ActivateBestChain PROVE IInv'
  <1>1. UNCHANGED <<tip, scripts, index, data, candidates, failedValid, failedChild, failedBlocks>>
    BY DEF ActivateBestChain, blocks, flags, sets
  <1>2. job' = [at |-> "find", start |-> tip, old |-> None, most |-> None, connected |-> FALSE]
    BY DEF ActivateBestChain
  <1>3. job' \in Activation  BY <1>2 DEF Activation, IInv, Typed
  <1>4. PathUsable' /\ Underway'  BY <1>2 DEF PathUsable, Underway
  <1>5. Failed' = Failed  BY <1>1 DEF Failed
  <1> QED  BY <1>1, <1>3, <1>4, <1>5, JobMoves DEF IInv, Typed

\* A job that is activating.
LEMMA ActivationJob ==
    ASSUME IInv, job.at \in {"find", "outer", "step", "connect"}
    PROVE  job \in Activation
  BY SMTT(30) DEF IInv, Typed, Invalidation, Idle, Aborted

\* The outer loop goes on with the best chain that it had.
LEMMA ContinueKeeps == ASSUME IInv, Continue PROVE IInv'
  <1>1. UNCHANGED <<tip, scripts, index, data, candidates, failedValid, failedChild, failedBlocks>>
    BY DEF Continue, blocks, flags, sets
  <1>2. job \in Activation /\ job.at = "outer"  BY ActivationJob DEF Continue
  <1>3. job' = [job EXCEPT !.at = IF job.most = None THEN "find" ELSE "step", !.start = tip, !.connected = FALSE]
    BY DEF Continue
  <1>4. job' \in Activation  BY <1>2, <1>3 DEF Activation, IInv, Typed
  <1>5. job'.most = job.most /\ job'.at = IF job.most = None THEN "find" ELSE "step"
    BY <1>2, <1>3 DEF Activation
  <1>6. PathUsable'  BY <1>1, <1>2, <1>5 DEF IInv, PathUsable, Chain, Failed
  <1>7. Underway'  BY <1>2, <1>5 DEF Activation, Underway
  <1>8. Failed' = Failed  BY <1>1 DEF Failed
  <1> QED  BY <1>1, <1>4, <1>6, <1>7, <1>8, JobMoves DEF IInv, Typed

\* What the inner loop does with a best chain that is usable.
LEMMA FoundKeeps ==
    ASSUME IInv, job.at = "find", NEW most \in Blocks \cup {None},
           most # None => Ancestors[most] \ Chain \subseteq data \ Failed,
           job' = Found(most), tip' = tip, scripts' = scripts, index' = index, candidates' = candidates,
           data' = data, Failed' = Failed, failedBlocks' = failedBlocks
    PROVE  IInv'
  <1>1. job \in Activation  BY ActivationJob
  <1>2. CASE job' = Idle
    <2>1. PathUsable' /\ Underway'  BY <1>2, SMTT(30) DEF Idle, PathUsable, Underway
    <2> QED  BY <1>2, <2>1, JobMoves DEF IInv, Typed
  <1>3. CASE job' # Idle
    <2>1. \/ most = None /\ job' = [job EXCEPT !.at = "outer", !.most = most]
          \/ most \in Blocks /\ job' = [job EXCEPT !.at = "step", !.most = most]
      BY <1>3, TreeAssumption DEF Found
    <2>2. job' \in Activation  BY <1>1, <2>1 DEF Activation
    <2>3. job'.most = most /\ ((job'.at = "outer" /\ most = None) \/ (job'.at = "step" /\ most \in Blocks))
      BY <1>1, <2>1 DEF Activation
    <2>4. PathUsable'  BY <2>3 DEF PathUsable, Chain
    <2>5. Underway'  BY <2>3 DEF Underway
    <2> QED  BY <2>2, <2>4, <2>5, JobMoves DEF IInv, Typed
  <1> QED  BY <1>2, <1>3

\* Marks are set above a failed block that is not on the chain, and the chain
\* that is found has nothing unusable.
LEMMA FindMostWorkChainKeeps == ASSUME IInv, FindMostWorkChain PROVE IInv'
  <1>1. /\ UNCHANGED <<tip, scripts, index, data, failedValid, failedBlocks>>
        /\ job.at = "find" /\ tip \in Blocks
    BY DEF FindMostWorkChain, blocks, IInv, Typed
  <1>2. CASE candidates = {} /\ job' = Found(None) /\ UNCHANGED <<sets, failedChild>>
    <2>1. Failed' = Failed /\ candidates' = candidates  BY <1>1, <1>2 DEF Failed, sets
    <2> QED  BY <1>1, <1>2, <2>1, FoundKeeps
  <1>3. ASSUME NEW b \in candidates,
               {x \in Ancestors[b] \ Chain : x \in Failed \/ x \notin data} = {},
               job' = Found(b), UNCHANGED <<sets, failedChild>>
        PROVE  IInv'
    <2>1. Failed' = Failed /\ candidates' = candidates  BY <1>1, <1>3 DEF Failed, sets
    <2>2. b \in Blocks /\ Ancestors[b] \ Chain \subseteq data \ Failed  BY <1>3 DEF IInv, Typed
    <2> QED  BY <1>1, <1>3, <2>1, <2>2, FoundKeeps
  <1>4. ASSUME NEW b \in candidates, NEW unusable, NEW test, NEW above,
               unusable = {x \in Ancestors[b] \ Chain : x \in Failed \/ x \notin data},
               test = Highest(unusable), above = Ancestors[b] \ Ancestors[test], unusable # {},
               candidates' = (candidates \ above) \ {test},
               failedChild' = IF test \in Failed THEN failedChild \cup above ELSE failedChild,
               job' = job
        PROVE  IInv'
    <2>1. b \in Blocks  BY DEF IInv, Typed
    <2>2. unusable \subseteq Ancestors[b]  BY <1>4
    <2>3. test \in unusable  BY <1>4, <2>1, <2>2, Top
    <2>4. test \in Ancestors[b] /\ test \notin Ancestors[tip]  BY <1>4, <2>3 DEF Chain
    <2>5. \A x \in above : x \notin Ancestors[tip]  BY <1>1, <1>4, <2>1, <2>4, AboveIsOff
    <2>6. Failed \subseteq Failed' /\ Failed' \subseteq Failed \cup above  BY <1>1, <1>4 DEF Failed
    <2>7. Chain \cap Failed' = {}  BY <2>5, <2>6 DEF IInv, ChainValid, Chain
    <2>8. PathUsable'  BY <1>1, <1>4 DEF PathUsable
    <2> QED  BY <1>1, <1>4, <2>6, <2>7, <2>8, Beside DEF IInv, Typed
  <1> QED  BY <1>2, <1>3, <1>4 DEF FindMostWorkChain

\* Disconnecting leaves a part of the chain.
LEMMA ActivateBestChainStepKeeps == ASSUME IInv, ActivateBestChainStep PROVE IInv'
  <1>1. /\ UNCHANGED <<scripts, index, data, candidates, failedValid, failedChild, failedBlocks>>
        /\ job.at = "step" /\ tip \in Blocks
    BY DEF ActivateBestChainStep, blocks, flags, sets, IInv, Typed
  <1>2. job \in Activation /\ job.most \in Blocks  BY <1>1, ActivationJob DEF IInv, Underway
  <1>3. Failed' = Failed  BY <1>1 DEF Failed
  <1>4. CASE tip' = Highest(Chain \cap Ancestors[job.most]) /\ job' = [job EXCEPT !.at = "connect", !.old = tip]
    <2>1. tip' \in Blocks /\ Ancestors[tip'] = Chain \cap Ancestors[job.most]
      BY <1>1, <1>2, <1>4, ForkIsShared DEF Chain
    <2>2. job' \in Activation  BY <1>1, <1>2, <1>4 DEF Activation
    <2>3. job'.at = "connect" /\ job'.most = job.most  BY <1>2, <1>4 DEF Activation
    <2>4. ChainValid'  BY <1>1, <1>3, <2>1 DEF IInv, ChainValid, Chain
    <2>5. Ancestors[job.most] \ Ancestors[tip'] = Ancestors[job.most] \ Chain  BY <2>1
    <2>6. Ancestors[job.most] \ Chain \subseteq data \ Failed
      BY <1>1, <1>2, TreeAssumption DEF IInv, PathUsable
    <2>7. PathUsable'  BY <1>1, <1>3, <2>3, <2>5, <2>6 DEF PathUsable, Chain
    <2>8. tip' \in Ancestors[job.most]  BY <2>1, Down
    <2>9. Underway'  BY <1>2, <2>3, <2>8 DEF Underway
    <2>10. Typed'  BY <1>1, <2>1, <2>2 DEF IInv, Typed
    <2> QED  BY <1>1, <1>3, <2>4, <2>7, <2>9, <2>10 DEF IInv
  <1>5. CASE (Chain \ Ancestors[job.most]) \ data # {} /\ tip' = Highest((Chain \ Ancestors[job.most]) \ data) /\ job' = Aborted
    <2> DEFINE S == (Chain \ Ancestors[job.most]) \ data
    <2>1. S # {} /\ S \subseteq Ancestors[tip] /\ tip' = Highest(S)  BY <1>5 DEF Chain
    <2>2. tip' \in Ancestors[tip]
      <3> HIDE DEF S
      <3> QED  BY <1>1, <2>1, Top
    <2>3. tip' \in Blocks /\ Ancestors[tip'] \subseteq Chain  BY <1>1, <2>2, Down DEF Chain
    <2>4. ChainValid'  BY <1>1, <1>3, <2>3 DEF IInv, ChainValid, Chain
    <2>5. PathUsable' /\ Underway'  BY <1>5 DEF Aborted, PathUsable, Underway
    <2>6. Typed'  BY <1>1, <1>5, <2>3 DEF IInv, Typed, Aborted
    <2> QED  BY <1>1, <1>3, <2>4, <2>5, <2>6 DEF IInv
  <1> QED  BY <1>4, <1>5 DEF ActivateBestChainStep

\* The end of a step, with the best chain it is still to reach, if there is one.
LEMMA StepDoneIs ==
    ASSUME job \in Activation, NEW most \in Blocks \cup {None}, NEW newTip, job' = StepDone(most, newTip)
    PROVE  \/ job' = Idle
           \/ /\ job' \in Activation /\ job'.most = most
              /\ job'.at = "outer" \/ (job'.at = "find" /\ most = None) \/ (job'.at = "step" /\ most # None)
  <1>1. CASE Worse(newTip, job.start)
    <2>1. job' = [job EXCEPT !.at = IF most = None THEN "find" ELSE "step", !.most = most, !.connected = TRUE]
      BY <1>1 DEF StepDone
    <2> QED  BY <2>1 DEF Activation
  <1>2. CASE ~Worse(newTip, job.start) /\ newTip = most  BY <1>2 DEF StepDone
  <1>3. CASE ~Worse(newTip, job.start) /\ newTip # most
    <2>1. job' = [job EXCEPT !.at = "outer", !.most = most, !.connected = TRUE]  BY <1>3 DEF StepDone
    <2> QED  BY <2>1 DEF Activation
  <1> QED  BY <1>1, <1>2, <1>3

\* A block that is connected is on the way; one that is marked is not on the chain.
LEMMA ConnectKeeps == ASSUME IInv, Connect PROVE IInv'
  <1>1. job.at = "connect" /\ UNCHANGED <<index, failedChild>> /\ tip \in Blocks
    BY DEF Connect, IInv, Typed
  <1>2. job \in Activation /\ job.most \in Blocks /\ job.most # None
    BY <1>1, ActivationJob, TreeAssumption DEF IInv, Underway
  <1>3. Ancestors[job.most] \ Chain \subseteq data \ Failed /\ tip \in Ancestors[job.most]
    BY <1>1, <1>2 DEF IInv, PathUsable, Underway
  <1>4. PICK b \in Ancestors[job.most] \ {Base} :
          Parent[b] = tip /\ (ConnectTip(b) \/ InvalidBlockFound(b) \/ MutatedBlockFound(b))
    BY DEF Connect
  <1>5. b \in Blocks /\ b \notin Chain /\ Ancestors[b] = {b} \cup Chain
    BY <1>2, <1>4, Down, OneMore DEF Chain
  <1>6. CASE ConnectTip(b)
    <2>1. /\ tip' = b /\ scripts' = scripts \cup {b} /\ UNCHANGED <<failedValid, failedBlocks>>
          /\ candidates' \subseteq candidates
      BY <1>6 DEF ConnectTip
    <2>2. Failed' = Failed  BY <1>1, <2>1 DEF Failed
    <2>3. ChainValid'  BY <1>3, <1>4, <1>5, <2>1, <2>2 DEF IInv, ChainValid, Chain
    <2>4. Ancestors[job.most] \ Ancestors[tip'] \subseteq data' \ Failed'
      <3>1. PICK P \in SUBSET FindFilesToPrune : PruneOneBlockFile(P)  BY <1>6 DEF ConnectTip
      <3>2. data' = data \ P  BY <3>1 DEF PruneOneBlockFile
      <3>3. P \cap (Ancestors[job.most] \ Chain) = {}  BY <1>1, <1>2, <1>3, <3>1, PrunedIsBelow
      <3> QED  BY <1>3, <1>5, <2>1, <2>2, <3>2, <3>3
    <2>5. \/ job' = Idle
          \/ /\ job' \in Activation /\ job'.most = job.most /\ job'.at \in {"connect", "outer", "step"}
      <3>1. job' = job \/ job' = StepDone(job.most, b)  BY <1>6 DEF ConnectTip
      <3>2. CASE job' = job  BY <1>1, <1>2, <3>2
      <3>3. CASE job' = StepDone(job.most, b)  BY <1>2, <3>3, StepDoneIs
      <3> QED  BY <3>1, <3>2, <3>3
    <2>6. PathUsable' /\ Underway'
      <3>1. CASE job' = Idle  BY <3>1 DEF Idle, PathUsable, Underway
      <3>2. CASE job'.most = job.most /\ job'.at \in {"connect", "outer", "step"}
        BY <1>2, <1>4, <2>1, <2>4, <3>2 DEF PathUsable, Underway, Chain
      <3> QED  BY <2>5, <3>1, <3>2
    <2>7. Typed'  BY <1>1, <1>5, <2>1, <2>5 DEF IInv, Typed
    <2> QED  BY <2>1, <2>2, <2>3, <2>6, <2>7 DEF IInv
  <1>7. ASSUME tip' = tip, scripts' = scripts, candidates' \subseteq candidates,
               job' = StepDone(None, tip), Failed' \subseteq Failed \cup {b}, failedBlocks' \subseteq Failed'
        PROVE  IInv'
    <2>1. \/ job' = Idle
          \/ job' \in Activation /\ job'.most = None /\ job'.at \in {"outer", "find"}
      BY <1>2, <1>7, StepDoneIs
    <2>2. PathUsable' /\ Underway'  BY <2>1, SMTT(30) DEF Idle, PathUsable, Underway
    <2>3. ChainValid'  BY <1>5, <1>7 DEF IInv, ChainValid, Chain
    <2>4. Typed'  BY <1>1, <1>7, <2>1 DEF IInv, Typed
    <2> QED  BY <1>7, <2>2, <2>3, <2>4 DEF IInv
  <1>8. CASE InvalidBlockFound(b)
    <2>1. /\ UNCHANGED <<tip, scripts>> /\ candidates' = candidates \ {b} /\ job' = StepDone(None, tip)
          /\ failedValid' = failedValid \cup {b} /\ failedBlocks' = failedBlocks \cup {b}
      BY <1>8 DEF InvalidBlockFound, NotConnected
    <2>2. Failed' = Failed \cup {b}  BY <1>1, <2>1 DEF Failed
    <2> QED  BY <1>7, <2>1, <2>2 DEF IInv
  <1>9. CASE MutatedBlockFound(b)
    <2>1. UNCHANGED <<tip, scripts, failedValid, failedBlocks, candidates>> /\ job' = StepDone(None, tip)
      BY <1>9 DEF MutatedBlockFound, NotConnected
    <2>2. Failed' = Failed  BY <1>1, <2>1 DEF Failed
    <2> QED  BY <1>7, <2>1, <2>2 DEF IInv
  <1> QED  BY <1>4, <1>6, <1>8, <1>9
-----------------------------------------------------------------------------
\* PreciousBlock changes the order of the candidates only.
LEMMA PreciousBlockKeeps == ASSUME IInv, NEW b \in Blocks, PreciousBlock(b) PROVE IInv'
  <1>1. UNCHANGED <<tip, job, scripts, index, data, failedValid, failedChild, failedBlocks>>
    BY DEF PreciousBlock, blocks, flags
  <1>2. candidates' \subseteq candidates \cup {b}  BY DEF PreciousBlock
  <1>3. Failed' = Failed  BY <1>1 DEF Failed
  <1>4. PathUsable'  BY <1>1, <1>3, PathKept
  <1> QED  BY <1>1, <1>2, <1>3, <1>4, Beside DEF IInv, Typed, ChainValid

\* Reconsidering takes marks away, and entries of m_failed_blocks with them.
LEMMA ResetKeeps == ASSUME IInv, NEW b \in Blocks, ResetBlockFailureFlags(b) PROVE IInv'
  <1> DEFINE reset == {c \in index : b \in Ancestors[c] /\ c \notin received \ Failed}
             all == reset \cup Ancestors[b]
  <1>1. /\ UNCHANGED <<tip, job, scripts, index, data>>
        /\ failedValid' = failedValid \ all /\ failedChild' = failedChild \ all
        /\ failedBlocks' = failedBlocks \ (reset \cup (Ancestors[b] \cap Failed))
        /\ candidates' \subseteq candidates \cup reset
    BY DEF ResetBlockFailureFlags, blocks
  <1>2. Failed' = Failed \ all  BY <1>1 DEF Failed
  <1>3. failedBlocks' \subseteq Failed'  BY <1>1, <1>2 DEF IInv
  <1>4. PathUsable'  BY <1>1, <1>2, PathKept
  <1>5. candidates' \subseteq Blocks /\ index' \subseteq Blocks  BY <1>1 DEF IInv, Typed
  <1>6. Chain \cap Failed' = {}  BY <1>2 DEF IInv, ChainValid
  <1> QED  BY <1>1, <1>3, <1>4, <1>5, <1>6, Beside

\* InvalidateBlock starts.
LEMMA InvalidateBlockKeeps == ASSUME IInv, NEW b \in Blocks, InvalidateBlock(b) PROVE IInv'
  <1> DEFINE byWork == {c \in index \ Chain : Eligible(c) /\ ~Worse(c, Parent[b])}
  <1>1. /\ UNCHANGED <<tip, scripts, index, data, candidates, failedValid, failedChild, failedBlocks>>
        /\ b # Base /\ job' = [at |-> "walk", block |-> b, mark |-> b, byWork |-> byWork]
    BY DEF InvalidateBlock, blocks, flags, sets
  <1>2. byWork \subseteq Blocks  BY DEF IInv, Typed
  <1>3. job' \in Invalidation
    <2> HIDE DEF byWork
    <2> QED  BY <1>1, <1>2 DEF Invalidation
  <1>4. PathUsable' /\ Underway'
    <2> HIDE DEF byWork
    <2> QED  BY <1>1 DEF PathUsable, Underway
  <1>5. Failed' = Failed  BY <1>1 DEF Failed
  <1> QED  BY <1>1, <1>3, <1>4, <1>5, JobMoves DEF IInv, Typed

\* A job that is invalidating.
LEMMA InvalidationJob ==
    ASSUME IInv, job.at = "walk"
    PROVE  job \in Invalidation
  BY SMTT(30) DEF IInv, Typed, Activation, Idle, Aborted

\* A block is marked when it is off the chain.
LEMMA WalkBackKeeps == ASSUME IInv, WalkBack PROVE IInv'
  <1> DEFINE prev == Parent[tip]
             better == {c \in job.byWork : ~Worse(c, prev)}
             child == {m \in {job.mark} : prev = m /\ m \in failedValid}
  <1>1. /\ UNCHANGED <<scripts, index, data, failedBlocks>>
        /\ job.at = "walk" /\ job.block \in Chain /\ tip' = prev
        /\ failedValid' = (failedValid \cup {tip}) \ child /\ failedChild' = failedChild \cup child
        /\ candidates' = (candidates \ {tip}) \cup {prev} \cup better
        /\ job' = [job EXCEPT !.mark = tip, !.byWork = @ \ better]
    BY DEF WalkBack, blocks
  <1>2. job \in Invalidation /\ tip \in Blocks  BY <1>1, InvalidationJob DEF IInv, Typed
  <1>3. tip # Base
    <2>1. job.block # Base  BY <1>2 DEF Invalidation
    <2>2. Ancestors[Base] = {Base}  BY TreeAssumption
    <2> QED  BY <1>1, <2>1, <2>2 DEF Chain
  <1>4. prev \in Blocks /\ Ancestors[tip] = {tip} \cup Ancestors[prev] /\ tip \notin Ancestors[prev]
    BY <1>2, <1>3, OneMore
  <1>5. Failed' = Failed \cup {tip}
    <2>1. child \subseteq failedValid  OBVIOUS
    <2> HIDE DEF child
    <2> QED  BY <1>1, <2>1 DEF Failed
  <1>6. better \subseteq Blocks  BY <1>2 DEF Invalidation
  <1>7. job' \in Invalidation /\ job'.at = "walk" /\ job'.mark = tip
    <2> HIDE DEF better
    <2> QED  BY <1>1, <1>2 DEF Invalidation
  <1>8. candidates' \subseteq Blocks
    <2> HIDE DEF better, prev
    <2> QED  BY <1>1, <1>4, <1>6 DEF IInv, Typed
  <1>9. Typed'  BY <1>1, <1>4, <1>7, <1>8 DEF IInv, Typed
  <1>10. ChainValid'  BY <1>1, <1>4, <1>5 DEF IInv, ChainValid, Chain
  <1>11. PathUsable' /\ Underway'  BY <1>1, <1>4, <1>7 DEF PathUsable, Underway, Chain
  <1> QED  BY <1>1, <1>5, <1>9, <1>10, <1>11 DEF IInv

\* InvalidateBlock gives up.
LEMMA WalkFailsKeeps == ASSUME IInv, WalkFails PROVE IInv'
  <1>1. /\ UNCHANGED <<tip, scripts, index, data, candidates, failedValid, failedChild, failedBlocks>>
        /\ job' = Idle
    BY DEF WalkFails, blocks, flags, sets
  <1>2. PathUsable' /\ Underway'  BY <1>1 DEF Idle, PathUsable, Underway
  <1>3. Failed' = Failed  BY <1>1 DEF Failed
  <1> QED  BY <1>1, <1>2, <1>3, JobMoves DEF IInv, Typed

\* The block that is marked last is off the chain.
LEMMA MarkFailedKeeps == ASSUME IInv, MarkFailed PROVE IInv'
  <1>1. /\ UNCHANGED <<tip, scripts, index, data, failedChild>> /\ job.at = "walk" /\ job.block \notin Chain
        /\ failedValid' = failedValid \cup {job.mark} /\ failedBlocks' = failedBlocks \cup {job.mark}
        /\ job' = Idle /\ candidates' \subseteq candidates \cup index
    BY DEF MarkFailed, blocks, Better
  <1>2. job.mark \notin Chain  BY <1>1 DEF IInv, Underway
  <1>3. Failed' = Failed \cup {job.mark}  BY <1>1 DEF Failed
  <1>4. ChainValid'  BY <1>1, <1>2, <1>3 DEF IInv, ChainValid, Chain
  <1>5. PathUsable' /\ Underway'  BY <1>1 DEF Idle, PathUsable, Underway
  <1>6. Typed'  BY <1>1 DEF IInv, Typed
  <1> QED  BY <1>1, <1>3, <1>4, <1>5, <1>6 DEF IInv
-----------------------------------------------------------------------------
\* The invariant holds in every state: no header, block, call of the RPC
\* interface or pruning breaks it, at whatever point of ActivateBestChain or
\* InvalidateBlock it comes.
THEOREM Invariance == Spec => []IInv
  <1>1. Init => IInv
    <2> SUFFICES ASSUME Init PROVE IInv  OBVIOUS
    <2>1. Base \in Blocks /\ Ancestors[Base] = {Base}  BY TreeAssumption
    <2>2. Typed  BY <2>1 DEF Init, Typed
    <2>3. ChainValid /\ failedBlocks \subseteq Failed  BY <2>1 DEF Init, ChainValid, Chain, Failed
    <2>4. PathUsable /\ Underway  BY DEF Init, Idle, PathUsable, Underway
    <2> QED  BY <2>2, <2>3, <2>4 DEF IInv
  <1>2. IInv /\ [Next]_vars => IInv'
    <2> SUFFICES ASSUME IInv, [Next]_vars PROVE IInv'  OBVIOUS
    <2>1. CASE \E b \in Blocks \ {Base} : RejectHeader(b) \/ AcceptBlockHeader(b) \/ AcceptBlock(b)
      BY <2>1, RejectHeaderKeeps, AcceptBlockHeaderKeeps, AcceptBlockKeeps
    <2>2. CASE FlushStateToDisk \/ \E b \in Blocks : PreciousBlock(b) \/ ResetBlockFailureFlags(b) \/ InvalidateBlock(b)
      BY <2>2, FlushKeeps, PreciousBlockKeeps, ResetKeeps, InvalidateBlockKeeps
    <2>3. CASE Activate
      BY <2>3, ActivateBestChainKeeps, ContinueKeeps, FindMostWorkChainKeeps, ActivateBestChainStepKeeps, ConnectKeeps
         DEF Activate
    <2>4. CASE Invalidate
      BY <2>4, WalkBackKeeps, WalkFailsKeeps, MarkFailedKeeps DEF Invalidate
    <2>5. CASE UNCHANGED vars
      <3>1. UNCHANGED <<tip, job, scripts, index, data, candidates, failedValid, failedChild, failedBlocks>>
        BY <2>5 DEF vars, blocks, flags, sets
      <3> QED  BY <3>1 DEF IInv, Typed, ChainValid, PathUsable, Underway, Chain, Failed, Idle, Aborted
    <2> QED  BY <2>1, <2>2, <2>3, <2>4, <2>5 DEF Next
  <1> QED  BY <1>1, <1>2, PTL DEF Spec

\* No block of the active chain is marked as failed, and all of them passed
\* ConnectBlock.
THEOREM ChainSafe == Spec => []ChainValid
  <1>1. IInv => ChainValid  BY DEF IInv
  <1> QED  BY <1>1, Invariance, PTL

\* The way to the best chain that ActivateBestChain keeps while it releases
\* cs_main is neither marked nor pruned.
THEOREM PathSafe == Spec => []PathUsable
  <1>1. IInv => PathUsable  BY DEF IInv
  <1> QED  BY <1>1, Invariance, PTL
-----------------------------------------------------------------------------
\* Where nothing is missing and nothing invalid, all blocks are linked and none
\* of them waits.
LEMMA NothingWaits ==
    ASSUME IInv, Indexed, Waits, Marks, ~disturbed, NEW b \in Blocks, ~Missing(b), ~Invalid(b)
    PROVE  b \in linked /\ Ancestors[b] \cap unlinked = {}
  <1>1. /\ Ancestors[b] \ Chain \subseteq data /\ Base \in Chain /\ Chain \subseteq linked
        /\ Ancestors[b] \subseteq Blocks /\ b \in Ancestors[b]
    BY Down DEF Missing, Indexed, Chain, IInv, Typed
  <1>2. \A x \in Ancestors[b] : ~Invalid(x)  BY Down DEF Invalid
  <1>3. \A x \in Ancestors[b] \ linked : x \in unlinked  BY <1>1, <1>2 DEF Marks
  <1>4. ASSUME Ancestors[b] \cap unlinked # {} PROVE FALSE
    <2> DEFINE U == Ancestors[b] \cap unlinked
    <2>1. PICK u \in U : \A x \in U : x \in Ancestors[u] => x = u
      <3>1. U \subseteq Ancestors[b] /\ U # {}  BY <1>4
      <3> HIDE DEF U
      <3> QED  BY <3>1, Bottom
    <2>2. u \in Ancestors[b] /\ u \in unlinked /\ u \in Blocks /\ u # Base  BY <1>1 DEF Waits
    <2>3. /\ Parent[u] \in Blocks /\ u \notin Ancestors[Parent[u]]
          /\ Ancestors[u] = {u} \cup Ancestors[Parent[u]] /\ Parent[u] \in Ancestors[Parent[u]]
      BY <2>2, OneMore, Down
    <2>4. Ancestors[u] \subseteq Ancestors[b]  BY <2>2, Down
    <2>5. Parent[u] \notin unlinked /\ Parent[u] \in Ancestors[b]  BY <2>1, <2>3, <2>4
    <2>6. Parent[u] \in linked  BY <1>3, <2>5
    <2>7. Parent[u] \in data \cup Chain  BY <1>1, <2>5
    <2> QED  BY <2>2, <2>5, <2>6, <2>7 DEF Waits
  <1> QED  BY <1>1, <1>3, <1>4

\* Marks are above invalid blocks.
LEMMA MarksMean ==
    ASSUME Marks, Indexed, ~disturbed, NEW b \in Failed
    PROVE  Invalid(b)
  BY Down DEF Marks, Indexed, Failed, Invalid

\* What the invariant says of the index.
LEMMA IndexFromInv == ASSUME IInv, JInv PROVE IndexConsistent
  <1> USE DEF JInv
  <1>1. ~pruned => data = received  BY DEF Indexed
  <1>2. ASSUME ~disturbed, NEW b \in index
        PROVE  /\ b \in Failed => Invalid(b)
               /\ b \in linked => Ancestors[b] \subseteq received
               /\ b \in unlinked => b \in data
               /\ ~Invalid(b) => /\ ~Missing(b) => b \in linked
                                 /\ b \in data \ linked => b \in unlinked
                                 /\ b \in unlinked => Missing(b)
    <2>1. b \in Blocks /\ b \in Ancestors[b]  BY Down DEF Indexed
    <2>2. b \in Failed => Invalid(b)  BY <1>2, MarksMean
    <2>3. /\ b \in linked => Ancestors[b] \subseteq received
          /\ b \in unlinked => b \in data
      BY DEF Indexed
    <2>4. ~Invalid(b) => (b \in data \ linked => b \in unlinked)  BY <1>2 DEF Marks
    <2>5. ~Invalid(b) /\ ~Missing(b) => b \in linked /\ b \notin unlinked  BY <1>2, <2>1, NothingWaits
    <2> QED  BY <2>2, <2>3, <2>4, <2>5
  <1> QED  BY <1>1, <1>2 DEF IndexConsistent

\* What it says of setBlockIndexCandidates.
LEMMA CandidatesFromInv == ASSUME IInv, JInv PROVE CandidatesExact
  <1> USE DEF JInv
  <1>1. \A b \in candidates : ~Worse(b, tip) /\ Ancestors[b] \subseteq received
    BY DEF Ordered, Worse, Indexed
  <1>2. ASSUME Checked, NEW b \in index, ~WorseBy(seq, b, tip), ~Invalid(b)
        PROVE  /\ ~Missing(b) => b \in candidates
               /\ b \in linked \cap data => b \in candidates \cup unlinked
    <2>1. b \in Blocks /\ b \in Ancestors[b] /\ tip \in Blocks /\ seq \in [Blocks -> Int]
      BY Down DEF Indexed, Numbers, IInv, Typed
    <2>2. ~disturbed /\ job.at \notin {"walk", "aborted"} /\ ~Activating
      BY <1>2 DEF Checked, Unlocked, Locked, Activating
    <2>3. b \notin Failed  BY <1>2, <2>2, MarksMean
    <2>4. b \in linked \cap data => b \in candidates \cup unlinked  BY <1>2, <2>2, <2>3 DEF Offered
    <2>5. ASSUME ~Missing(b) PROVE b \in candidates
      <3>1. b \in linked /\ b \notin unlinked  BY <1>2, <2>1, <2>2, <2>5, NothingWaits
      <3>2. CASE b \in Chain
        <4>1. b = tip  BY <1>2, <2>1, <3>2, Lower DEF Chain
        <4> QED  BY <2>2, <4>1 DEF TipOffered
      <3>3. CASE b \notin Chain
        <4>1. b \in data  BY <2>1, <2>5, <3>3 DEF Missing
        <4> QED  BY <2>4, <3>1, <4>1
      <3> QED  BY <3>2, <3>3
    <2> QED  BY <2>4, <2>5
  <1> QED  BY <1>1, <1>2 DEF CandidatesExact, Worse

\* What it says of the tip.
LEMMA TipFromInv == ASSUME JInv PROVE TipIsBestUndisturbed
  BY DEF JInv, Chosen, Good, TipIsBestUndisturbed, TipIsBest, Worse, Indexed
-----------------------------------------------------------------------------
\* While cs_main can be taken nobody is in the inner loop.
LEMMA NobodyActivating ==
    ASSUME Unlocked
    PROVE  ~Activating /\ job.at \notin {"find", "step", "connect", "aborted"}
  BY DEF Unlocked, Locked, Activating

\* Steps that leave the order, the data and the links alone, and may add marks.
LEMMA OnlyMarks ==
    ASSUME JInv, Unlocked,
           UNCHANGED <<seq, nextSeq, reverseSeq, data, received, linked, scripts, unlinked, candidates, tip, pruned, job,
                       pending, disturbed, verdict>>,
           index \subseteq index', index' \subseteq Blocks, \A b \in index' : Ancestors[b] \subseteq index',
           Failed \subseteq Failed', Failed' \subseteq index', Marks'
    PROVE  JInv'
  <1> USE DEF JInv
  <1>1. ~Activating /\ ~Activating' /\ job.at \notin {"find", "step", "connect", "aborted"}
    BY NobodyActivating DEF Activating
  <1>2. Numbers'  BY DEF Numbers
  <1>3. Indexed'  BY DEF Indexed
  <1>4. JobIndexed'  BY <1>1 DEF JobIndexed
  <1>5. Waits'  BY DEF Waits, Chain
  <1>6. Ordered'  BY DEF Ordered
  <1>7. Offered'
    <2>1. (linked' \cap data') \ Failed' \subseteq (linked \cap data) \ Failed  OBVIOUS
    <2> QED  BY <1>1, <2>1 DEF Offered
  <1>8. TipOffered'  BY <1>1 DEF TipOffered
  <1>9. Returns'  BY <1>1 DEF Returns
  <1>10. Chosen'
    <2>1. \A b \in Blocks : Good(b)' => Good(b)  BY DEF Good, Missing, Chain
    <2> QED  BY <2>1 DEF Chosen, Idle
  <1> QED  BY <1>2, <1>3, <1>4, <1>5, <1>6, <1>7, <1>8, <1>9, <1>10

\* A rejected header marks blocks above a failed one.
LEMMA RejectHeaderIndex == ASSUME IInv, JInv, NEW b \in Blocks \ {Base}, RejectHeader(b) PROVE JInv'
  <1> USE DEF JInv
  <1>1. PICK f \in FailedBelow(Parent[b]) : failedChild' = failedChild \cup (Ancestors[Parent[b]] \ Ancestors[f])
    BY DEF RejectHeader
  <1>2. /\ Unlocked /\ Parent[b] \in index
        /\ UNCHANGED <<seq, nextSeq, reverseSeq, index, data, received, linked, scripts, unlinked, candidates, tip, pruned,
                       job, pending, disturbed, verdict, failedValid>>
    BY DEF RejectHeader, blocks, sets, sequence
  <1>3. Parent[b] \in Blocks /\ f \in Ancestors[Parent[b]] /\ f \in Failed
    BY <1>1, OneMore DEF FailedBelow, IInv
  <1>4. Failed \subseteq Failed' /\ Failed' \subseteq index' /\ index' \subseteq Blocks
    BY <1>1, <1>2 DEF Failed, Indexed
  <1>5. Marks'
    <2>1. SUFFICES ASSUME ~disturbed, NEW x \in Ancestors[Parent[b]] \ Ancestors[f] PROVE Invalid(x)
      BY <1>1, <1>2 DEF Marks, Invalid
    <2>2. Invalid(f)  BY <1>3, <2>1, MarksMean
    <2>3. x \in Blocks /\ f \in Ancestors[x]  BY <1>3, Comparable, Down
    <2> QED  BY <2>2, <2>3, Down DEF Invalid
  <1> QED  BY <1>2, <1>4, <1>5, OnlyMarks DEF Indexed

\* The index with a new header.
LEMMA HeaderIndexed ==
    ASSUME Indexed, NEW b \in Blocks \ {Base}, HeaderAccepted(b)
    PROVE  index \cup {b} \subseteq Blocks /\ \A x \in index \cup {b} : Ancestors[x] \subseteq index \cup {b}
  <1>1. Ancestors[b] = {b} \cup Ancestors[Parent[b]]  BY OneMore
  <1> QED  BY <1>1 DEF Indexed, HeaderAccepted

\* A header is accepted, or rejected above a failed block.
LEMMA AcceptBlockHeaderIndex == ASSUME IInv, JInv, NEW b \in Blocks \ {Base}, AcceptBlockHeader(b) PROVE JInv'
  <1> USE DEF JInv
  <1>1. /\ Unlocked /\ index' = index \cup {b} /\ HeaderAccepted(b)
        /\ UNCHANGED <<seq, nextSeq, reverseSeq, data, received, linked, scripts, unlinked, candidates, tip, pruned,
                       job, pending, disturbed, verdict, failedValid, failedChild>>
    BY DEF AcceptBlockHeader, sets, sequence, flags
  <1>2. Failed' = Failed  BY <1>1 DEF Failed
  <1>3. Marks'  BY <1>1 DEF Marks, Invalid
  <1> QED  BY <1>1, <1>2, <1>3, HeaderIndexed, OnlyMarks DEF Indexed

\* A block that fails its checks is marked.
LEMMA BadBlockIndex ==
    ASSUME IInv, JInv, NEW b \in Blocks \ {Base}, AcceptBlock(b), verdict[b] = "badcheck"
    PROVE  JInv'
  <1> USE DEF JInv
  <1>1. /\ Unlocked /\ index' = index \cup {b} /\ HeaderAccepted(b)
        /\ UNCHANGED <<seq, nextSeq, reverseSeq, data, received, linked, scripts, unlinked, candidates, tip, pruned,
                       job, pending, disturbed, verdict, failedChild>>
        /\ failedValid' = failedValid \cup {b}
    BY DEF AcceptBlock
  <1>2. Failed' = Failed \cup {b}  BY <1>1 DEF Failed
  <1>3. Marks'  BY <1>1 DEF Marks, Invalid
  <1>4. Failed' \subseteq index'  BY <1>1, <1>2 DEF Indexed
  <1> QED  BY <1>1, <1>2, <1>3, <1>4, HeaderIndexed, OnlyMarks DEF Indexed

\* A block whose ancestors are not all there waits for them, unless its parent
\* is marked.
LEMMA EarlyBlockIndex ==
    ASSUME IInv, JInv, NEW b \in Blocks \ {Base}, AcceptBlock(b), verdict[b] # "badcheck", Parent[b] \notin linked
    PROVE  JInv'
  <1> USE DEF JInv
  <1>1. /\ Unlocked /\ index' = index \cup {b} /\ HeaderAccepted(b) /\ b \notin data \cup Chain
        /\ UNCHANGED <<seq, nextSeq, reverseSeq, scripts, candidates, tip, pruned, job, disturbed, verdict, failedValid, failedChild>>
        /\ pending' = TRUE /\ data' = data \cup {b} /\ received' = received \cup {b} /\ linked' = linked \ {b}
        /\ unlinked' = IF Parent[b] \in Failed THEN unlinked ELSE unlinked \cup {b}
    BY DEF AcceptBlock, ReceivedBlockTransactions, sequence
  <1>2. /\ ~Activating /\ ~Activating' /\ job.at \notin {"find", "step", "connect", "aborted"}
        /\ Failed' = Failed /\ Chain' = Chain
    BY <1>1, NobodyActivating DEF Activating, Failed, Chain
  <1>3. Ancestors[b] = {b} \cup Ancestors[Parent[b]] /\ Parent[b] \in Ancestors[Parent[b]]  BY OneMore, Down
  <1>4. b \notin linked /\ linked' = linked  BY <1>1, <1>3 DEF Indexed
  <1>5. unlinked \subseteq unlinked' /\ unlinked' \subseteq unlinked \cup {b}  BY <1>1
  <1>6. Numbers'  BY <1>1 DEF Numbers
  <1>7. Indexed'
    <2>1. index' \subseteq Blocks /\ \A x \in index' : Ancestors[x] \subseteq index'  BY <1>1, HeaderIndexed
    <2>2. data' \subseteq received' /\ received' \subseteq index' /\ Failed' \subseteq index' /\ unlinked' \subseteq data'
      BY <1>1, <1>2, <1>5 DEF Indexed
    <2> QED  BY <1>1, <1>4, <2>1, <2>2 DEF Indexed
  <1>8. JobIndexed'  BY <1>1, <1>2, <1>4 DEF JobIndexed
  <1>9. Waits'  BY <1>1, <1>2, <1>4, <1>5 DEF Waits
  <1>10. Ordered'  BY <1>1 DEF Ordered
  <1>11. Marks'
    <2>1. SUFFICES ASSUME ~disturbed, Parent[b] \in Failed PROVE Invalid(b)
      BY <1>1, <1>4 DEF Marks, Invalid
    <2>2. Invalid(Parent[b])  BY <2>1, MarksMean
    <2> QED  BY <1>3, <2>2 DEF Invalid
  <1>12. Offered'  BY <1>1, <1>2, <1>4, <1>5 DEF Offered
  <1>13. TipOffered'  BY <1>1, <1>2 DEF TipOffered
  <1>14. Returns' /\ Chosen'  BY <1>1, <1>2 DEF Returns, Chosen
  <1> QED  BY <1>6, <1>7, <1>8, <1>9, <1>10, <1>11, <1>12, <1>13, <1>14

\* What can be linked with b has been waiting, and all that waits on it can be.
LEMMA QueueIs ==
    ASSUME IInv, Indexed, Waits, NEW b \in Blocks \ {Base}, b \notin Chain, Parent[b] \in linked, NEW Q, Q = Queue(b)
    PROVE  /\ Q \subseteq Blocks /\ b \in Q /\ Q \subseteq unlinked \cup {b} /\ Q \cap Chain = {}
           /\ \A x \in Q : Ancestors[x] \subseteq linked \cup Q
           /\ \A d \in unlinked : Parent[d] \in Q => d \in Q
  <1>1. b \in Ancestors[b] /\ Ancestors[b] = {b} \cup Ancestors[Parent[b]]  BY Down, OneMore
  <1>2. Q \subseteq Blocks /\ b \in Q  BY <1>1 DEF Queue
  <1>3. \A x \in Q : x \in Blocks /\ b \in Ancestors[x] /\ Ancestors[x] \ Ancestors[b] \subseteq unlinked  BY DEF Queue
  <1>4. Q \subseteq unlinked \cup {b}
    <2>1. ASSUME NEW x \in Q, x # b PROVE x \in unlinked
      <3>1. x \in Ancestors[x] /\ x \notin Ancestors[b]  BY <1>3, <2>1, Down, Antisymmetric
      <3> QED  BY <1>3, <3>1
    <2> QED  BY <2>1
  <1>5. Q \cap Chain = {}  BY <1>4 DEF Waits
  <1>6. ASSUME NEW x \in Q, NEW y \in Ancestors[x], y \notin linked PROVE y \in Q
    <2>1. x \in Blocks /\ b \in Ancestors[x] /\ Ancestors[x] \ Ancestors[b] \subseteq unlinked /\ y \in Blocks
      BY <1>3, Down
    <2>2. CASE y \in Ancestors[b]
      <3>1. Ancestors[Parent[b]] \subseteq linked  BY DEF Indexed
      <3> QED  BY <1>1, <1>2, <1>6, <2>2, <3>1
    <2>3. CASE y \notin Ancestors[b]
      <3>1. b \in Ancestors[y]  BY <2>1, <2>3, Comparable
      <3>2. Ancestors[y] \subseteq Ancestors[x]  BY <2>1, Down
      <3> QED  BY <2>1, <3>1, <3>2 DEF Queue
    <2> QED  BY <2>2, <2>3
  <1>7. ASSUME NEW d \in unlinked, Parent[d] \in Q PROVE d \in Q
    <2>1. Base \in Chain  BY Down DEF IInv, Typed, Chain
    <2>2. d \in Blocks /\ d # Base  BY <2>1 DEF Waits, Indexed
    <2>3. Ancestors[d] = {d} \cup Ancestors[Parent[d]]  BY <2>2, OneMore
    <2> QED  BY <1>3, <1>7, <2>2, <2>3 DEF Queue
  <1> QED  BY <1>2, <1>4, <1>5, <1>6, <1>7

\* A block that completes its chain is linked, with what waits for it.
LEMMA LinkIndex ==
    ASSUME IInv, JInv, NEW b \in Blocks \ {Base}, AcceptBlock(b), verdict[b] # "badcheck", Parent[b] \in linked
    PROVE  JInv'
  <1> USE DEF JInv
  <1>1. PICK Q : Q = Queue(b)  OBVIOUS
  <1>2. /\ Unlocked /\ index' = index \cup {b} /\ HeaderAccepted(b) /\ b \notin data \cup Chain /\ Q \cap candidates = {}
        /\ UNCHANGED <<reverseSeq, scripts, tip, pruned, job, disturbed, verdict, failedValid, failedChild>>
        /\ pending' = TRUE /\ data' = data \cup {b} /\ received' = received \cup {b} /\ Link(b)
    BY <1>1 DEF AcceptBlock, ReceivedBlockTransactions
  <1>3. PICK f \in [Q -> 0 .. Cardinality(Q) - 1] :
          /\ seq' = [x \in Blocks |-> IF x \in Q THEN nextSeq + f[x] ELSE seq[x]]
          /\ nextSeq' = nextSeq + Cardinality(Q)
          /\ linked' = linked \cup Q /\ unlinked' = unlinked \ Q
          /\ candidates' = candidates \cup Better(seq', Q)
    BY <1>1, <1>2, SMTT(30) DEF Link
  <1>4. /\ Q \subseteq Blocks /\ b \in Q /\ Q \subseteq unlinked \cup {b} /\ Q \cap Chain = {}
        /\ \A x \in Q : Ancestors[x] \subseteq linked \cup Q
        /\ \A d \in unlinked : Parent[d] \in Q => d \in Q
    BY <1>1, <1>2, QueueIs, SMTT(30)
  <1>5. /\ ~Activating /\ ~Activating' /\ job.at \notin {"find", "step", "connect", "aborted"}
        /\ Failed' = Failed /\ Chain' = Chain
    BY <1>2, NobodyActivating DEF Activating, Failed, Chain
  <1>6. Numbers'
    <2>1. Q \in SUBSET Blocks  BY <1>4
    <2>2. Cardinality(Q) \in Nat  BY <2>1, OrderAssumption
    <2>3. \A x \in Q : f[x] \in Int  BY <2>2, SMTT(30)
    <2>4. \A x \in Blocks : (IF x \in Q THEN nextSeq + f[x] ELSE seq[x]) \in Int  BY <2>3, SMTT(30) DEF Numbers
    <2>5. seq' \in [Blocks -> Int]  BY <1>3, <2>4
    <2> QED  BY <1>2, <1>3, <2>2, <2>5, SMTT(30) DEF Numbers
  <1>7. tip \in Blocks /\ tip \in Chain /\ tip \notin Q  BY <1>4, Down DEF IInv, Typed, Chain
  <1>8. \A x \in Blocks \ Q : seq'[x] = seq[x]  BY <1>3
  <1>9. \A x \in Blocks \ Q : WorseBy(seq', x, tip) <=> WorseBy(seq, x, tip)  BY <1>7, <1>8 DEF WorseBy
  <1>10. Better(seq', Q) = {x \in Q : ~WorseBy(seq', x, tip)}  BY DEF Better
  <1>11. Indexed'
    <2>1. index' \subseteq Blocks /\ \A x \in index' : Ancestors[x] \subseteq index'  BY <1>2, HeaderIndexed
    <2>2. data' \subseteq received' /\ received' \subseteq index' /\ Failed' \subseteq index' /\ unlinked' \subseteq data'
      BY <1>2, <1>3, <1>5 DEF Indexed
    <2>3. linked' \subseteq received' /\ candidates' \subseteq linked' /\ tip' \in linked'
      BY <1>2, <1>3, <1>4, <1>10 DEF Indexed
    <2>4. \A x \in linked' : Ancestors[x] \subseteq linked'  BY <1>3, <1>4 DEF Indexed
    <2>5. ~pruned' => data' = received'  BY <1>2 DEF Indexed
    <2> QED  BY <1>2, <2>1, <2>2, <2>3, <2>4, <2>5 DEF Indexed
  <1>12. JobIndexed'  BY <1>2, <1>3, <1>5 DEF JobIndexed
  <1>13. Waits'
    <2>1. unlinked' \cap Chain' = {}  BY <1>3, <1>5 DEF Waits
    <2>2. ASSUME NEW d \in unlinked', Parent[d] \in linked'
          PROVE  Parent[d] \in unlinked' \/ Parent[d] \notin data' \cup Chain'
      <3>1. d \in unlinked /\ Parent[d] \notin Q /\ Parent[d] \in linked  BY <1>3, <1>4, <2>2
      <3>2. Parent[d] \in unlinked \/ Parent[d] \notin data \cup Chain  BY <3>1 DEF Waits
      <3> QED  BY <1>2, <1>3, <1>4, <1>5, <3>1, <3>2
    <2> QED  BY <2>1, <2>2 DEF Waits
  <1>14. Ordered'
    <2>1. \A c \in candidates : c \in Blocks \ Q  BY <1>2 DEF IInv, Typed
    <2>2. \A c \in candidates : ~WorseBy(seq', c, tip)  BY <1>9, <2>1 DEF Ordered
    <2> QED  BY <1>2, <1>3, <1>10, <2>2 DEF Ordered
  <1>15. Marks'
    <2>1. data' \ (linked' \cup unlinked') \subseteq data \ (linked \cup unlinked)  BY <1>2, <1>3, <1>4
    <2> QED  BY <1>2, <2>1 DEF Marks, Invalid
  <1>16. Offered'
    <2>1. SUFFICES ASSUME ~disturbed, job.at \notin {"walk", "aborted"},
                          NEW x \in (linked' \cap data') \ Failed, ~WorseBy(seq', x, tip)
                   PROVE  x \in candidates' \cup unlinked'
      BY <1>2, <1>5 DEF Offered
    <2>2. CASE x \in Q  BY <1>3, <1>10, <2>1, <2>2
    <2>3. CASE x \notin Q
      <3>1. x \in (linked \cap data) \ Failed /\ x \in Blocks  BY <1>2, <1>3, <1>4, <2>1, <2>3 DEF Indexed
      <3>2. ~WorseBy(seq, x, tip)  BY <1>9, <2>1, <2>3, <3>1
      <3>3. x \in candidates \cup unlinked  BY <1>5, <2>1, <3>1, <3>2 DEF Offered
      <3> QED  BY <1>3, <2>3, <3>3
    <2> QED  BY <2>2, <2>3
  <1>17. TipOffered'  BY <1>2, <1>3, <1>5 DEF TipOffered
  <1>18. Returns' /\ Chosen'  BY <1>2, <1>5 DEF Returns, Chosen
  <1> QED  BY <1>6, <1>11, <1>12, <1>13, <1>14, <1>15, <1>16, <1>17, <1>18

\* A block arrives: it fails its checks, comes before its parent, or is linked.
LEMMA AcceptBlockIndex == ASSUME IInv, JInv, NEW b \in Blocks \ {Base}, AcceptBlock(b) PROVE JInv'
  BY BadBlockIndex, EarlyBlockIndex, LinkIndex

\* Pruning takes blocks away; what waited on one of them waits for it.
LEMMA FlushIndex == ASSUME IInv, JInv, FlushStateToDisk PROVE JInv'
  <1> USE DEF JInv
  <1>0. PICK P \in SUBSET FindFilesToPrune : P # {} /\ PruneOneBlockFile(P)  BY DEF FlushStateToDisk
  <1>1. /\ Unlocked /\ data' = data \ P /\ unlinked' = unlinked \ P /\ pruned' = TRUE
        /\ UNCHANGED <<seq, nextSeq, reverseSeq, index, received, linked, scripts, candidates, tip, job, pending, disturbed,
                       verdict, failedValid, failedChild>>
    BY <1>0 DEF FlushStateToDisk, PruneOneBlockFile, flags, sequence
  <1>2. /\ ~Activating /\ ~Activating' /\ job.at \notin {"find", "step", "connect", "aborted"}
        /\ Failed' = Failed /\ Chain' = Chain
    BY <1>1, NobodyActivating DEF Activating, Failed, Chain
  <1>3. Numbers'  BY <1>1 DEF Numbers
  <1>4. Indexed'  BY <1>1, <1>2 DEF Indexed
  <1>5. JobIndexed'  BY <1>1, <1>2 DEF JobIndexed
  <1>6. Waits'  BY <1>1, <1>2 DEF Waits
  <1>7. Ordered'  BY <1>1 DEF Ordered
  <1>8. Marks'  BY <1>1 DEF Marks, Invalid
  <1>9. Offered'  BY <1>1, <1>2 DEF Offered
  <1>10. TipOffered'  BY <1>1, <1>2 DEF TipOffered
  <1>11. Returns'  BY <1>1, <1>2 DEF Returns
  <1>12. Chosen'
    <2>1. \A x \in Blocks : Good(x)' => Good(x)  BY <1>1, <1>2 DEF Good, Missing
    <2> QED  BY <1>1, <2>1 DEF Chosen, Idle
  <1> QED  BY <1>3, <1>4, <1>5, <1>6, <1>7, <1>8, <1>9, <1>10, <1>11, <1>12
-----------------------------------------------------------------------------
\* Steps of the job that change nothing else.
LEMMA OnlyJob ==
    ASSUME JInv,
           UNCHANGED <<seq, nextSeq, reverseSeq, index, data, received, linked, scripts, unlinked, candidates, tip, pruned,
                       disturbed, verdict, failedValid, failedChild>>,
           JobIndexed', Offered', TipOffered', Returns', Chosen'
    PROVE  JInv'
  <1> USE DEF JInv
  <1>1. Failed' = Failed /\ Chain' = Chain  BY DEF Failed, Chain
  <1>2. Numbers' /\ Ordered'  BY DEF Numbers, Ordered
  <1>3. Indexed'  BY <1>1 DEF Indexed
  <1>4. Waits'  BY <1>1 DEF Waits
  <1>5. Marks'  BY DEF Marks, Invalid
  <1> QED  BY <1>2, <1>3, <1>4, <1>5

\* ActivateBestChain starts from the tip.
LEMMA ActivateBestChainIndex == ASSUME IInv, JInv, ActivateBestChain PROVE JInv'
  <1> USE DEF JInv
  <1>1. /\ UNCHANGED <<seq, nextSeq, reverseSeq, index, data, received, linked, scripts, unlinked, candidates, tip, pruned,
                       disturbed, verdict, failedValid, failedChild>>
        /\ job = Idle
    BY DEF ActivateBestChain, blocks, flags, sets, sequence
  <1>2. job'.at = "find" /\ job'.start = tip /\ job' # Idle  BY DEF ActivateBestChain, Idle
  <1>3. job.at = "idle" /\ ~Activating /\ Activating' /\ Failed' = Failed /\ Chain' = Chain
    BY <1>1, <1>2 DEF Idle, Activating, Failed, Chain
  <1>4. JobIndexed'  BY <1>1, <1>2 DEF JobIndexed, Indexed
  <1>5. Offered'  BY <1>1, <1>2, <1>3 DEF Offered
  <1>6. TipOffered'  BY <1>1, <1>2, <1>3 DEF TipOffered
  <1>7. tip \in Blocks /\ ~WorseBy(seq, tip, tip)  BY Order DEF Numbers, IInv, Typed
  <1>8. Returns'  BY <1>1, <1>2, <1>3, <1>7 DEF Returns, Missing, IInv, ChainValid, Chain
  <1>9. Chosen'  BY <1>2 DEF Chosen
  <1> QED  BY <1>1, <1>4, <1>5, <1>6, <1>8, <1>9, OnlyJob

\* So does every turn of the outer loop.
LEMMA ContinueIndex == ASSUME IInv, JInv, Continue PROVE JInv'
  <1> USE DEF JInv
  <1>1. /\ UNCHANGED <<seq, nextSeq, reverseSeq, index, data, received, linked, scripts, unlinked, candidates, tip, pruned,
                       disturbed, pending, verdict, failedValid, failedChild>>
        /\ job.at = "outer" /\ job \in Activation
    BY ActivationJob DEF Continue, blocks, flags, sets, sequence
  <1>2. /\ job'.at = IF job.most = None THEN "find" ELSE "step"
        /\ job'.start = tip /\ job'.most = job.most
    BY <1>1 DEF Continue, Activation
  <1>3. /\ ~Activating /\ Activating' /\ Failed' = Failed /\ Chain' = Chain /\ job' # Idle /\ job'.at \in {"find", "step"}
        /\ job'.at = "find" => job.most = None
    BY <1>1, <1>2, SMTT(30) DEF Idle, Activating, Failed, Chain
  <1>4. JobIndexed'  BY <1>1, <1>2, <1>3 DEF JobIndexed, Indexed
  <1>5. Offered'  BY <1>1, <1>2, <1>3 DEF Offered
  <1>6. TipOffered'  BY <1>1, <1>2, <1>3 DEF TipOffered
  <1>7. tip \in Blocks /\ ~WorseBy(seq, tip, tip)  BY Order DEF Numbers, IInv, Typed
  <1>8. Returns'  BY <1>1, <1>2, <1>3, <1>7 DEF Returns, Missing, IInv, ChainValid, Chain
  <1>9. Chosen'
    <2>1. \A b \in Blocks : Good(b)' <=> Good(b)  BY <1>1, <1>3 DEF Good, Missing
    <2> QED  BY <1>1, <1>2, <1>3, <2>1 DEF Chosen
  <1> QED  BY <1>1, <1>4, <1>5, <1>6, <1>8, <1>9, OnlyJob

\* A block that can be connected, and is not worse than the tip and the one
\* that the inner loop started from, is a candidate.
LEMMA GoodOffered ==
    ASSUME IInv, JInv, ~disturbed, job.at \notin {"walk", "aborted"}, NEW x \in Blocks, Good(x), x \notin Chain,
           ~WorseBy(seq, x, tip), Activating => ~WorseBy(seq, x, job.start)
    PROVE  x \in candidates
  <1> USE DEF JInv
  <1>1. x \in Ancestors[x]  BY Down
  <1>2. x \in linked /\ x \in data /\ x \notin Failed /\ ~Missing(x)  BY <1>1 DEF Good, Missing
  <1>3. ~Invalid(x)  BY DEF Good, Invalid, Failed
  <1>4. x \notin unlinked  BY <1>1, <1>2, <1>3, NothingWaits
  <1> QED  BY <1>2, <1>4 DEF Offered

\* What is not worse than any candidate, and not than the tip, is not worse
\* than what the inner loop started from, and no block that can be connected is
\* better.
LEMMA BestFound ==
    ASSUME IInv, JInv, ~disturbed, job.at = "find", NEW m \in Blocks, ~WorseBy(seq, m, tip),
           \A c \in candidates : ~WorseBy(seq, m, c)
    PROVE  /\ ~WorseBy(seq, m, job.start)
           /\ \A x \in Blocks : Good(x) => ~WorseBy(seq, m, x)
  <1> USE DEF JInv
  <1>1. /\ tip \in Blocks /\ seq \in [Blocks -> Int] /\ Activating
        /\ job.start \in linked /\ job.start \in Blocks
    BY ActivationJob DEF IInv, Typed, Numbers, Activating, JobIndexed, Activation
  <1>2. ~WorseBy(seq, m, job.start)
    <2>1. CASE job.start \in Chain
      <3>1. ~WorseBy(seq, tip, job.start)  BY <1>1, <2>1, Lower DEF Chain
      <3> QED  BY <1>1, <3>1, OrderTransitive
    <2>2. CASE job.start \notin Chain
      <3>1. ~WorseBy(seq, job.start, tip) /\ ~WorseBy(seq, job.start, job.start)  BY <1>1, Order DEF Returns
      <3>2. Good(job.start)  BY <1>1 DEF Good, Missing, Returns
      <3>3. job.start \in candidates  BY <1>1, <2>2, <3>1, <3>2, GoodOffered
      <3> QED  BY <3>3
    <2> QED  BY <2>1, <2>2
  <1>3. ASSUME NEW x \in Blocks, Good(x), WorseBy(seq, m, x) PROVE FALSE
    <2>1. ~WorseBy(seq, x, m)  BY <1>1, <1>3, Order
    <2>2. ~WorseBy(seq, x, tip)  BY <1>1, <2>1, OrderTransitive
    <2>3. ~WorseBy(seq, x, job.start)  BY <1>1, <1>2, <2>1, OrderTransitive
    <2>4. CASE x \in Chain
      <3>1. ~WorseBy(seq, tip, x)  BY <1>1, <2>4, Lower DEF Chain
      <3>2. ~WorseBy(seq, m, x)  BY <1>1, <3>1, OrderTransitive
      <3> QED  BY <1>3, <3>2
    <2>5. CASE x \notin Chain
      <3>1. x \in candidates  BY <1>1, <1>3, <2>2, <2>3, <2>5, GoodOffered
      <3> QED  BY <1>3, <3>1
    <2> QED  BY <2>4, <2>5
  <1> QED  BY <1>2, <1>3

\* The tip is a candidate when it is not worse than what the loop started from.
LEMMA TipStays ==
    ASSUME IInv, JInv, ~disturbed, Activating, ~WorseBy(seq, tip, job.start)
    PROVE  tip \in candidates
  <1> USE DEF JInv
  <1>1. job.at \notin {"walk", "aborted"}  BY DEF Activating
  <1>2. tip \in Blocks /\ tip \in Chain /\ ~WorseBy(seq, tip, tip)  BY Down, Order DEF IInv, Typed, Numbers, Chain
  <1>3. tip \in linked /\ tip \notin Failed /\ tip \notin unlinked
    BY <1>2 DEF Indexed, IInv, ChainValid, Waits
  <1> QED  BY <1>1, <1>2, <1>3 DEF TipOffered, Offered

\* The inner loop is left with the tip where there is no candidate, or it is the
\* best.
LEMMA FoundIndex ==
    ASSUME IInv, JInv, job.at = "find", NEW most \in candidates \cup {None},
           most = None => candidates = {},
           most # None => \A c \in candidates : ~WorseBy(seq, most, c),
           job' = Found(most),
           UNCHANGED <<seq, nextSeq, reverseSeq, index, data, received, linked, scripts, unlinked, candidates, tip, pruned,
                       disturbed, pending, verdict, failedValid, failedChild>>
    PROVE  JInv'
  <1> USE DEF JInv
  <1>1. /\ job \in Activation /\ Activating /\ tip \in Blocks /\ Failed' = Failed /\ Chain' = Chain
        /\ seq \in [Blocks -> Int] /\ job.start \in Blocks
    BY ActivationJob DEF Activating, IInv, Typed, Failed, Chain, Numbers, Activation
  <1>2. \A x \in Blocks : Good(x)' <=> Good(x)  BY <1>1 DEF Good, Missing
  <1>3. CASE most \notin {None, tip}
    <2>1. job' = [job EXCEPT !.at = "step", !.most = most]  BY <1>3 DEF Found
    <2>2. job'.at = "step" /\ job'.most = most /\ job'.start = job.start /\ job' # Idle
      BY <1>1, <2>1 DEF Activation, Idle
    <2>3. Activating' /\ most \in linked /\ most \in Blocks  BY <1>3, <2>2 DEF Activating, Indexed, IInv, Typed
    <2>4. JobIndexed'  BY <1>1, <2>2, <2>3 DEF JobIndexed
    <2>5. Offered'  BY <1>1, <2>2, <2>3 DEF Offered
    <2>6. TipOffered'  BY <1>1, <2>2, <2>3 DEF TipOffered
    <2>7. Returns'  BY <1>1, <2>2, <2>3 DEF Returns
    <2>8. ~WorseBy(seq, most, tip)  BY <1>3 DEF Ordered
    <2>9. ~disturbed => \A x \in Blocks : Good(x) => ~WorseBy(seq, most, x)  BY <1>3, <2>3, <2>8, BestFound
    <2>10. Chosen'  BY <1>2, <2>2, <2>9 DEF Chosen
    <2> QED  BY <2>4, <2>5, <2>6, <2>7, <2>10, OnlyJob
  <1>4. CASE most \in {None, tip}
    <2>1. \/ job' = Idle
          \/ job' = [job EXCEPT !.at = "outer", !.most = most] /\ most = None
      BY <1>4 DEF Found
    <2>2. job' = Idle \/ (job'.at = "outer" /\ job'.most = None)
      BY <1>1, <2>1 DEF Activation
    <2>3. ~Activating' /\ job'.at \in {"idle", "outer"} /\ (job'.at = "outer" => job'.most = None)
      BY <2>2, SMTT(30) DEF Activating, Idle
    <2>4. JobIndexed'  BY <2>3 DEF JobIndexed
    <2>5. Returns'  BY <2>3 DEF Returns
    <2>6. ASSUME ~disturbed
          PROVE  ~WorseBy(seq, tip, job.start) /\ \A x \in Blocks : Good(x) => ~WorseBy(seq, tip, x)
      <3>1. ~WorseBy(seq, tip, tip)  BY <1>1, Order
      <3>2. \A c \in candidates : ~WorseBy(seq, tip, c)  BY <1>4
      <3> QED  BY <1>1, <2>6, <3>1, <3>2, BestFound
    <2>7. Offered'
      <3>1. SUFFICES ASSUME ~disturbed, NEW x \in (linked \cap data) \ Failed, ~WorseBy(seq, x, tip)
                     PROVE  x \in candidates \cup unlinked
        BY <1>1, <2>3 DEF Offered
      <3>2. x \in Blocks  BY DEF Indexed
      <3>3. ~WorseBy(seq, x, job.start)  BY <1>1, <2>6, <3>1, <3>2, OrderTransitive
      <3> QED  BY <3>1, <3>3 DEF Offered
    <2>8. TipOffered'  BY <1>1, <2>3, <2>6, TipStays DEF TipOffered
    <2>9. Chosen'  BY <1>2, <2>3, <2>6 DEF Chosen
    <2> QED  BY <2>4, <2>5, <2>7, <2>8, <2>9, OnlyJob
  <1> QED  BY <1>3, <1>4

\* A candidate with an unusable block below it is given up: what is above the
\* block is marked, or waits for it.
LEMMA UnusableIndex ==
    ASSUME IInv, JInv, job.at = "find", NEW b \in candidates, NEW unusable, NEW test, NEW above,
           unusable = {x \in Ancestors[b] \ Chain : x \in Failed \/ x \notin data},
           test = Highest(unusable), above = Ancestors[b] \ Ancestors[test], unusable # {},
           candidates' = (candidates \ above) \ {test},
           failedChild' = IF test \in Failed THEN failedChild \cup above ELSE failedChild,
           unlinked' = IF test \in Failed THEN unlinked ELSE unlinked \cup above,
           job' = job,
           UNCHANGED <<seq, nextSeq, reverseSeq, index, data, received, linked, scripts, tip, pruned,
                       disturbed, pending, verdict, failedValid>>
    PROVE  JInv'
  <1> USE DEF JInv
  <1>1. /\ job \in Activation /\ Activating /\ Activating' /\ tip \in Blocks /\ Chain' = Chain /\ b \in Blocks
        /\ job.start \in Blocks
    BY ActivationJob DEF Activating, IInv, Typed, Chain, Activation
  <1>2. unusable \subseteq Ancestors[b]  OBVIOUS
  <1>3. test \in unusable /\ unusable \subseteq Ancestors[test]  BY <1>1, <1>2, Top
  <1>4. test \in Ancestors[b] /\ test \notin Chain /\ test \in Blocks /\ test \in Ancestors[test]  BY <1>1, <1>3, Down
  <1>5. test \in Failed \/ test \notin data  BY <1>3
  <1>6. \A x \in above : x \notin Chain /\ test \in Ancestors[x]  BY <1>1, <1>4, AboveIsOff, SMTT(30) DEF Chain
  <1>7. \A x \in above : x \in data  BY <1>3, <1>6
  <1>8. above \subseteq linked /\ above \subseteq Blocks  BY <1>1, Down DEF Indexed
  <1>9. Failed' = IF test \in Failed THEN Failed \cup above ELSE Failed  BY DEF Failed
  <1>10. unlinked \subseteq unlinked' /\ unlinked' \subseteq unlinked \cup above /\ Failed \subseteq Failed'  BY <1>9
  <1>11. Numbers' /\ Ordered'  BY DEF Numbers, Ordered
  <1>12. Indexed'
    <2>1. unlinked' \subseteq data /\ Failed' \subseteq index  BY <1>7, <1>8, <1>9, <1>10 DEF Indexed
    <2> QED  BY <2>1 DEF Indexed
  <1>13. JobIndexed'  BY <1>1 DEF JobIndexed
  <1>14. Waits'
    <2>1. unlinked' \cap Chain = {}  BY <1>6, <1>10 DEF Waits
    <2>2. ASSUME NEW d \in above, test \notin Failed, Parent[d] \notin above
          PROVE  Parent[d] \notin data \cup Chain
      <3>1. Base \in Chain  BY <1>1, Down DEF Chain
      <3>2. d \in Ancestors[b] /\ d \in Blocks /\ d # Base /\ d # test /\ test \in Ancestors[d]
        BY <1>4, <1>6, <1>8, <2>2, <3>1
      <3>3. Parent[d] \in Blocks /\ Ancestors[d] = {d} \cup Ancestors[Parent[d]] /\ Parent[d] \in Ancestors[Parent[d]]
        BY <3>2, OneMore, Down
      <3>4. Ancestors[d] \subseteq Ancestors[b]  BY <1>1, <3>2, Down
      <3>5. Parent[d] \in Ancestors[test] /\ test \in Ancestors[Parent[d]]  BY <2>2, <3>2, <3>3, <3>4
      <3>6. Parent[d] = test  BY <1>4, <3>3, <3>5, Antisymmetric
      <3> QED  BY <1>4, <1>5, <2>2, <3>6
    <2>3. ASSUME NEW d \in unlinked', Parent[d] \in linked
          PROVE  Parent[d] \in unlinked' \/ Parent[d] \notin data \cup Chain
      <3>1. CASE d \in unlinked  BY <1>10, <2>3, <3>1 DEF Waits
      <3>2. CASE d \notin unlinked  BY <2>2, <2>3, <3>2
      <3> QED  BY <3>1, <3>2
    <2> QED  BY <1>1, <2>1, <2>3 DEF Waits
  <1>15. Marks'
    <2>1. ASSUME ~disturbed, test \in Failed, NEW x \in above PROVE Invalid(x)
      <3>1. Invalid(test)  BY <2>1, MarksMean
      <3> QED  BY <1>6, <1>8, <3>1, Down DEF Invalid
    <2> QED  BY <1>10, <2>1 DEF Marks, Invalid
  <1>16. Offered'
    <2>1. SUFFICES ASSUME ~disturbed, NEW x \in (linked \cap data) \ Failed', ~WorseBy(seq, x, tip), ~WorseBy(seq, x, job.start)
                   PROVE  x \in candidates' \cup unlinked'
      BY <1>1 DEF Offered
    <2>2. x \in candidates \cup unlinked  BY <1>10, <2>1 DEF Offered
    <2>3. x # test /\ (x \in above => x \in unlinked')  BY <1>5, <1>9, <2>1
    <2> QED  BY <1>10, <2>2, <2>3
  <1>17. TipOffered'
    <2>1. tip \in Chain  BY <1>1, Down DEF Chain
    <2> QED  BY <1>1, <1>4, <1>6, <2>1 DEF TipOffered
  <1>18. Returns'
    <2>0. Missing(job.start)' <=> Missing(job.start)  BY <1>1 DEF Missing
    <2>1. ASSUME test \in Failed, NEW y \in above PROVE y \notin Ancestors[job.start]
      <3>1. test \notin Ancestors[job.start]  BY <1>1, <2>1 DEF Returns
      <3> QED  BY <1>1, <1>6, <3>1, Down
    <2>2. Ancestors[job.start] \cap Failed' = {}  BY <1>1, <1>9, <2>1 DEF Returns
    <2> QED  BY <1>1, <2>0, <2>2 DEF Returns
  <1>19. Chosen'  BY SMTT(30) DEF Chosen, Idle
  <1> QED  BY <1>11, <1>12, <1>13, <1>14, <1>15, <1>16, <1>17, <1>18, <1>19

\* A chain is chosen, or a candidate is found to be unusable.
LEMMA FindMostWorkChainIndex == ASSUME IInv, JInv, FindMostWorkChain PROVE JInv'
  <1>1. /\ job.at = "find"
        /\ UNCHANGED <<seq, nextSeq, reverseSeq, index, data, received, linked, scripts, tip, pruned,
                       disturbed, pending, verdict, failedValid>>
    BY DEF FindMostWorkChain, blocks, sequence
  <1>2. CASE candidates = {} /\ job' = Found(None) /\ UNCHANGED <<sets, failedChild>>
    <2>1. UNCHANGED <<candidates, unlinked, failedChild>>  BY <1>2 DEF sets
    <2> QED  BY <1>1, <1>2, <2>1, FoundIndex
  <1>3. ASSUME NEW b \in candidates, \A c \in candidates : ~Worse(b, c),
               job' = Found(b), UNCHANGED <<sets, failedChild>>
        PROVE  JInv'
    <2>1. UNCHANGED <<candidates, unlinked, failedChild>>  BY <1>3 DEF sets
    <2>2. b # None  BY TreeAssumption DEF IInv, Typed
    <2>3. \A c \in candidates : ~WorseBy(seq, b, c)  BY <1>3 DEF Worse
    <2> QED  BY <1>1, <1>3, <2>1, <2>2, <2>3, FoundIndex
  <1>4. ASSUME NEW b \in candidates, NEW unusable, NEW test, NEW above,
               unusable = {x \in Ancestors[b] \ Chain : x \in Failed \/ x \notin data},
               test = Highest(unusable), above = Ancestors[b] \ Ancestors[test], unusable # {},
               candidates' = (candidates \ above) \ {test},
               failedChild' = IF test \in Failed THEN failedChild \cup above ELSE failedChild,
               unlinked' = IF test \in Failed THEN unlinked ELSE unlinked \cup above,
               job' = job
        PROVE  JInv'
    BY <1>1, <1>4, UnusableIndex
  <1> QED  BY <1>2, <1>3, <1>4 DEF FindMostWorkChain

\* Disconnecting makes the tip worse, and leaves what it disconnects on disk.
LEMMA ActivateBestChainStepIndex == ASSUME IInv, JInv, ActivateBestChainStep PROVE JInv'
  <1> USE DEF JInv
  <1>1. /\ job.at = "step"
        /\ UNCHANGED <<seq, nextSeq, reverseSeq, index, data, received, linked, scripts, unlinked, candidates, pruned,
                       disturbed, pending, verdict, failedValid, failedChild>>
    BY DEF ActivateBestChainStep, blocks, flags, sets, sequence
  <1>2. /\ job \in Activation /\ Activating /\ tip \in Blocks /\ job.most \in Blocks /\ job.most # None
        /\ seq \in [Blocks -> Int] /\ Failed' = Failed /\ job.start \in Blocks
    BY <1>1, ActivationJob, TreeAssumption DEF Activating, IInv, Typed, Underway, Numbers, Failed, Activation
  <1>3. ASSUME tip' \in Ancestors[tip], tip' \in Blocks, Chain' \subseteq Chain, JobIndexed', Offered', TipOffered', Returns', Chosen'
        PROVE  JInv'
    <2>1. Numbers'  BY <1>1 DEF Numbers
    <2>2. Indexed'  BY <1>1, <1>2, <1>3 DEF Indexed
    <2>3. Waits'  BY <1>1, <1>3 DEF Waits
    <2>4. ~WorseBy(seq, tip, tip')  BY <1>2, <1>3, Lower
    <2>5. \A c \in candidates : ~WorseBy(seq, c, tip')
      BY <1>2, <1>3, <2>4, OrderTransitive DEF Ordered, IInv, Typed
    <2>6. Ordered'  BY <1>1, <2>5 DEF Ordered
    <2>7. Marks'  BY <1>1 DEF Marks, Invalid
    <2> QED  BY <1>3, <2>1, <2>2, <2>3, <2>6, <2>7
  <1>4. CASE /\ (Chain \ Ancestors[job.most]) \ data = {}
             /\ tip' = Highest(Chain \cap Ancestors[job.most]) /\ job' = [job EXCEPT !.at = "connect", !.old = tip]
    <2>1. tip' \in Blocks /\ Ancestors[tip'] = Chain \cap Ancestors[job.most]
      BY <1>2, <1>4, ForkIsShared DEF Chain
    <2>2. Chain' \subseteq Chain /\ tip' \in Ancestors[tip] /\ Chain \ Chain' \subseteq data
      BY <1>4, <2>1, Down DEF Chain
    <2>3. job'.at = "connect" /\ job'.most = job.most /\ job'.start = job.start /\ job' # Idle
      BY <1>2, <1>4 DEF Activation, Idle
    <2>4. Activating'  BY <2>3 DEF Activating
    <2>5. JobIndexed'  BY <1>1, <1>2, <2>3, <2>4 DEF JobIndexed
    <2>6. ~WorseBy(seq, job.start, tip)  BY <1>1 DEF Returns
    <2>7. Offered'
      <3>1. SUFFICES ASSUME ~disturbed, NEW x \in (linked \cap data) \ Failed, ~WorseBy(seq, x, job.start)
                     PROVE  x \in candidates \cup unlinked
        BY <1>1, <1>2, <2>3, <2>4 DEF Offered
      <3>2. x \in Blocks  BY DEF Indexed
      <3>3. ~WorseBy(seq, x, tip)  BY <1>2, <2>6, <3>1, <3>2, OrderTransitive
      <3> QED  BY <1>1, <3>1, <3>3 DEF Offered
    <2>8. TipOffered'
      <3>1. CASE tip' = tip  BY <1>1, <1>2, <2>3, <2>4, <3>1 DEF TipOffered
      <3>2. CASE tip' # tip
        <4>1. WorseBy(seq, tip', tip)  BY <1>2, <2>2, <3>2, Lower
        <4>2. WorseBy(seq, tip', job.start)  BY <1>2, <2>1, <2>6, <4>1, OrderTransitive
        <4> QED  BY <1>1, <2>3, <2>4, <4>2 DEF TipOffered
      <3> QED  BY <3>1, <3>2
    <2>9. Returns'  BY <1>1, <1>2, <2>2, <2>3, <2>4 DEF Returns
    <2>10. Chosen'
      <3>1. \A x \in Blocks : Good(x)' => Good(x)  BY <1>1, <1>2, <2>2 DEF Good, Missing
      <3> QED  BY <1>1, <2>3, <3>1 DEF Chosen
    <2> QED  BY <1>3, <2>1, <2>2, <2>5, <2>7, <2>8, <2>9, <2>10
  <1>5. CASE /\ (Chain \ Ancestors[job.most]) \ data # {}
             /\ tip' = Highest((Chain \ Ancestors[job.most]) \ data) /\ job' = Aborted
    <2> DEFINE S == (Chain \ Ancestors[job.most]) \ data
    <2>1. S # {} /\ S \subseteq Ancestors[tip] /\ tip' = Highest(S)  BY <1>5 DEF Chain
    <2>2. tip' \in Ancestors[tip]
      <3> HIDE DEF S
      <3> QED  BY <1>2, <2>1, Top
    <2>3. tip' \in Blocks /\ Chain' \subseteq Chain  BY <1>2, <2>2, Down DEF Chain
    <2>4. job'.at = "aborted" /\ job' # Idle /\ ~Activating'  BY <1>5 DEF Aborted, Idle, Activating
    <2>5. JobIndexed' /\ Returns' /\ Offered' /\ TipOffered' /\ Chosen'
      BY <2>4 DEF JobIndexed, Returns, Offered, TipOffered, Chosen
    <2> QED  BY <1>3, <2>2, <2>3, <2>5
  <1> QED  BY <1>4, <1>5 DEF ActivateBestChainStep

\* The job at the end of a step.
LEMMA StepDoneTo ==
    ASSUME IInv, job.at = "connect", NEW most \in Blocks \cup {None}, NEW newTip \in Blocks, job' = StepDone(most, newTip)
    PROVE  \/ /\ WorseBy(seq, newTip, job.start) /\ job'.most = most /\ job'.start = job.start
              /\ job'.at = IF most = None THEN "find" ELSE "step"
           \/ ~WorseBy(seq, newTip, job.start) /\ job' = Idle /\ newTip = most
           \/ ~WorseBy(seq, newTip, job.start) /\ job'.at = "outer" /\ job'.most = most
  <1>1. job \in Activation  BY ActivationJob
  <1>2. CASE WorseBy(seq, newTip, job.start)
    <2>1. job' = [job EXCEPT !.at = IF most = None THEN "find" ELSE "step", !.most = most, !.connected = TRUE]
      BY <1>2 DEF StepDone, Worse
    <2> QED  BY <1>1, <1>2, <2>1 DEF Activation
  <1>3. CASE ~WorseBy(seq, newTip, job.start) /\ newTip = most  BY <1>3 DEF StepDone, Worse
  <1>4. CASE ~WorseBy(seq, newTip, job.start) /\ newTip # most
    <2>1. job' = [job EXCEPT !.at = "outer", !.most = most, !.connected = TRUE]  BY <1>4 DEF StepDone, Worse
    <2> QED  BY <1>1, <1>4, <2>1 DEF Activation
  <1> QED  BY <1>2, <1>3, <1>4

\* A block is connected: the candidates that are worse go.
LEMMA ConnectTipIndex ==
    ASSUME IInv, JInv, job.at = "connect", NEW b \in Ancestors[job.most] \ {Base}, Parent[b] = tip, ConnectTip(b),
           UNCHANGED <<seq, nextSeq, reverseSeq, index, received, linked, pending, verdict, failedChild>>
    PROVE  JInv'
  <1> USE DEF JInv
  <1>0. PICK P \in SUBSET FindFilesToPrune : PruneOneBlockFile(P)  BY DEF ConnectTip
  <1>1. /\ b \in data /\ verdict[b] = "valid" /\ tip' = b /\ scripts' = scripts \cup {b}
        /\ candidates' = {c \in candidates : ~WorseBy(seq, c, b)} /\ failedValid' = failedValid
        /\ job' = job \/ job' = StepDone(job.most, b)
        /\ disturbed' = disturbed
    BY DEF ConnectTip, Worse
  <1>2. /\ job \in Activation /\ Activating /\ tip \in Blocks /\ job.most \in Blocks /\ job.most # None
        /\ seq \in [Blocks -> Int] /\ Failed' = Failed /\ job.start \in Blocks /\ job.most \in linked /\ job.start \in linked
    BY <1>1, ActivationJob, TreeAssumption DEF Activating, IInv, Typed, Underway, Numbers, Failed, Activation, JobIndexed
  <1>3. b \in Blocks /\ b \in linked /\ b \notin Chain /\ Ancestors[b] = {b} \cup Chain /\ tip \in Chain
    BY <1>2, Down, OneMore DEF Chain, Indexed
  <1>4. Chain' = Chain \cup {b}  BY <1>1, <1>3 DEF Chain
  <1>5. WorseBy(seq, tip, b) /\ ~WorseBy(seq, b, tip)
    <2>1. tip \in Ancestors[b] /\ tip # b  BY <1>3
    <2> QED  BY <1>2, <1>3, <2>1, Lower
  <1>6. /\ b \notin unlinked
        /\ \A d \in unlinked : Parent[d] # b
    BY <1>1, <1>3 DEF Waits, Indexed
  <1>7. Numbers'  BY DEF Numbers
  <1>kept. data' = data \ P /\ unlinked' = unlinked \ P /\ pruned' = (pruned \/ P # {}) /\ b \notin P
    <2>1. tip \in Ancestors[job.most]  BY <1>2 DEF IInv, Underway
    <2> QED  BY <1>0, <1>2, <1>3, <2>1, PrunedIsBelow DEF PruneOneBlockFile
  <1>8. Indexed'
    <2>1. data' \subseteq received /\ unlinked' \subseteq data' /\ (~pruned' => data' = received)  BY <1>kept DEF Indexed
    <2> QED  BY <1>1, <1>2, <1>3, <2>1 DEF Indexed
  <1>9. Waits'  BY <1>4, <1>6, <1>kept DEF Waits
  <1>10. Ordered'  BY <1>1 DEF Ordered
  <1>11. Marks'  BY <1>1, <1>kept DEF Marks, Invalid
  <1>12. \/ /\ job'.at \in {"connect", "step"} /\ Activating' /\ job'.most = job.most /\ job'.start = job.start /\ job' # Idle
            /\ job'.at = "step" => WorseBy(seq, b, job.start)
         \/ /\ job'.at \in {"idle", "outer"} /\ ~Activating' /\ ~WorseBy(seq, b, job.start)
            /\ job'.at = "outer" => job'.most = job.most
            /\ job' = Idle => job.most = b
    <2>1. CASE job' = job  BY <1>2, <2>1, SMTT(30) DEF Activating, Idle
    <2>2. CASE job' = StepDone(job.most, b)  BY <1>2, <1>3, <2>2, StepDoneTo, SMTT(30) DEF Activating, Idle
    <2> QED  BY <1>1, <2>1, <2>2
  <1>13. JobIndexed'  BY <1>2, <1>12 DEF JobIndexed
  <1>14. Offered'
    <2>1. SUFFICES ASSUME ~disturbed, NEW x \in (linked \cap data) \ Failed, ~WorseBy(seq, x, b),
                          Activating' => ~WorseBy(seq, x, job'.start)
                   PROVE  x \in candidates' \cup unlinked
      BY <1>1, <1>2, <1>12, <1>kept DEF Offered
    <2>2. x \in Blocks  BY DEF Indexed
    <2>3. ~WorseBy(seq, x, tip)  BY <1>2, <1>3, <1>5, <2>1, <2>2, OrderTransitive
    <2>4. ~WorseBy(seq, x, job.start)  BY <1>2, <1>3, <1>12, <2>1, <2>2, OrderTransitive
    <2>5. x \in candidates \cup unlinked  BY <2>1, <2>3, <2>4 DEF Offered
    <2> QED  BY <1>1, <2>1, <2>5
  <1>15. TipOffered'
    <2>1. ASSUME ~disturbed, ~Activating' PROVE b \in candidates'
      <3>1. ~WorseBy(seq, b, job.start) /\ ~WorseBy(seq, b, b)  BY <1>2, <1>3, <1>12, <2>1, Order
      <3>2. b \notin Failed
        <4>1. Ancestors[job.most] \ Chain \subseteq data \ Failed  BY <1>2 DEF IInv, PathUsable
        <4> QED  BY <1>3, <4>1
      <3>3. b \in candidates  BY <1>1, <1>3, <1>5, <1>6, <2>1, <3>1, <3>2 DEF Offered
      <3> QED  BY <1>1, <3>1, <3>3
    <2> QED  BY <1>1, <1>kept, <2>1 DEF TipOffered
  <1>16. Returns'
    <2>1. ASSUME Activating' PROVE
              Ancestors[job'.start] \cap Failed' = {} /\ Ancestors[job'.start] \subseteq scripts'
      BY <1>1, <1>2, <1>12, <2>1 DEF Returns
    <2>0. job'.at # "find"  BY <1>12
    <2>2. job'.at \in {"find", "step"} => ~WorseBy(seq', job'.start, tip')
      BY <1>1, <1>2, <1>3, <1>12, Order
    <2> QED  BY <2>0, <2>1, <2>2 DEF Returns
  <1>17. Chosen'
    <2>1. \A x \in Blocks : Good(x)' => Good(x)  BY <1>1, <1>2, <1>4, <1>kept DEF Good, Missing
    <2>2. ~disturbed /\ ~pending => \A x \in Blocks : Good(x) => ~WorseBy(seq, job.most, x)
      BY <1>2 DEF Chosen
    <2> QED  BY <1>1, <1>12, <2>1, <2>2 DEF Chosen, Idle
  <1> QED  BY <1>7, <1>8, <1>9, <1>10, <1>11, <1>13, <1>14, <1>15, <1>16, <1>17

\* A block does not connect, and may be marked for it.
LEMMA NotConnectedIndex ==
    ASSUME IInv, JInv, job.at = "connect", NEW b \in Ancestors[job.most] \ {Base}, Parent[b] = tip,
           job' = StepDone(None, tip), verdict[b] # "valid",
           \/ UNCHANGED <<failedValid, candidates>>
           \/ failedValid' = failedValid \cup {b} /\ candidates' = candidates \ {b},
           UNCHANGED <<seq, nextSeq, reverseSeq, index, data, received, linked, scripts, unlinked, tip, pruned,
                       pending, verdict, failedChild>>,
           disturbed' = (disturbed \/ LosesWayBack)
    PROVE  JInv'
  <1> USE DEF JInv
  <1>0. (disturbed => disturbed') /\ (LosesWayBack => disturbed')  OBVIOUS
  <1>1. /\ job \in Activation /\ Activating /\ tip \in Blocks /\ job.most \in Blocks /\ job.most # None /\ None \notin Blocks
        /\ seq \in [Blocks -> Int] /\ job.start \in Blocks /\ job.most \in linked /\ job.start \in linked /\ Chain' = Chain
    BY ActivationJob, TreeAssumption DEF Activating, IInv, Typed, Underway, Numbers, Chain, Activation, JobIndexed
  <1>2. b \in Blocks /\ b \in linked /\ b \notin Chain /\ tip \in Chain
    BY <1>1, Down, OneMore DEF Chain, Indexed
  <1>3. b \notin scripts  BY DEF Indexed
  <1>4. Failed \subseteq Failed' /\ Failed' \subseteq Failed \cup {b} /\ failedValid \subseteq failedValid'  BY DEF Failed
  <1>5. candidates' \subseteq candidates /\ candidates \subseteq candidates' \cup (Failed' \cap {b})  BY DEF Failed
  <1>6. Numbers'  BY DEF Numbers
  <1>7. Indexed'
    <2>1. Failed' \subseteq index /\ candidates' \subseteq linked  BY <1>2, <1>4, <1>5 DEF Indexed
    <2> QED  BY <2>1 DEF Indexed
  <1>8. Waits'  BY <1>1 DEF Waits
  <1>9. Ordered'  BY <1>5 DEF Ordered
  <1>10. Marks'  BY <1>0, <1>4 DEF Marks, Invalid
  <1>11. \/ /\ job'.at = "find" /\ Activating' /\ job'.start = job.start /\ WorseBy(seq, tip, job.start) /\ job' # Idle
         \/ /\ job'.at = "outer" /\ ~Activating' /\ job'.most = None /\ ~WorseBy(seq, tip, job.start) /\ job' # Idle
    BY <1>1, StepDoneTo, SMTT(30) DEF Activating, Idle
  <1>12. JobIndexed'  BY <1>1, <1>11 DEF JobIndexed
  <1>13. Offered'
    <2>1. SUFFICES ASSUME ~disturbed, NEW x \in (linked \cap data) \ Failed', ~WorseBy(seq, x, tip),
                          Activating' => ~WorseBy(seq, x, job'.start)
                   PROVE  x \in candidates' \cup unlinked
      BY <1>0, <1>11 DEF Offered
    <2>2. x \in Blocks /\ x \in (linked \cap data) \ Failed  BY <1>4 DEF Indexed
    <2>3. ~WorseBy(seq, x, job.start)  BY <1>1, <1>11, <2>1, <2>2, OrderTransitive
    <2>4. x \in candidates \cup unlinked  BY <2>1, <2>2, <2>3 DEF Offered
    <2> QED  BY <1>5, <2>1, <2>4
  <1>14. TipOffered'
    <2>1. ASSUME ~disturbed, ~Activating' PROVE tip \in candidates'
      <3>1. tip \in candidates  BY <1>1, <1>11, <2>1, TipStays
      <3> QED  BY <1>2, <1>5, <3>1
    <2> QED  BY <1>0, <1>11, <2>1 DEF TipOffered
  <1>15. Returns'
    <2>1. Ancestors[job.start] \cap Failed' = {}  BY <1>1, <1>3, <1>4 DEF Returns
    <2>2. WorseBy(seq, tip, job.start) => ~WorseBy(seq, job.start, tip)  BY <1>1, Order
    <2>3. ~disturbed' /\ WorseBy(seq, tip, job.start) => ~Missing(job.start)  BY <1>0 DEF LosesWayBack, Worse
    <2>4. job'.at = "find" => (Missing(job.start)' <=> Missing(job.start))  BY <1>1, <1>11 DEF Missing
    <2> QED  BY <1>1, <1>11, <2>1, <2>2, <2>3, <2>4 DEF Returns
  <1>16. Chosen'  BY <1>11 DEF Chosen
  <1> QED  BY <1>6, <1>7, <1>8, <1>9, <1>10, <1>12, <1>13, <1>14, <1>15, <1>16

\* The next block of the chosen chain is connected, or does not connect.
LEMMA ConnectIndex == ASSUME IInv, JInv, Connect PROVE JInv'
  <1>1. /\ job.at = "connect"
        /\ UNCHANGED <<seq, nextSeq, reverseSeq, index, received, linked, pending, verdict, failedChild>>
    BY DEF Connect, sequence
  <1>2. PICK b \in Ancestors[job.most] \ {Base} :
          Parent[b] = tip /\ (ConnectTip(b) \/ InvalidBlockFound(b) \/ MutatedBlockFound(b))
    BY DEF Connect
  <1>3. CASE ConnectTip(b)  BY <1>1, <1>2, <1>3, ConnectTipIndex
  <1>4. ASSUME NotConnected
        PROVE  /\ job' = StepDone(None, tip) /\ disturbed' = (disturbed \/ LosesWayBack)
               /\ UNCHANGED <<data, scripts, unlinked, tip, pruned>>
    BY <1>4 DEF NotConnected
  <1>5. CASE InvalidBlockFound(b)
    <2>1. NotConnected /\ verdict[b] # "valid" /\ failedValid' = failedValid \cup {b} /\ candidates' = candidates \ {b}
      BY <1>5 DEF InvalidBlockFound
    <2> QED  BY <1>1, <1>2, <1>4, <2>1, NotConnectedIndex
  <1>6. CASE MutatedBlockFound(b)
    <2>1. NotConnected /\ verdict[b] # "valid" /\ UNCHANGED <<failedValid, candidates>>
      BY <1>6 DEF MutatedBlockFound
    <2> QED  BY <1>1, <1>2, <1>4, <2>1, NotConnectedIndex
  <1> QED  BY <1>2, <1>3, <1>5, <1>6
-----------------------------------------------------------------------------
\* PreciousBlock changes the order.  The tip is a candidate before and after,
\* and unless it has got a larger number nothing becomes better than it but b.
LEMMA PreciousBlockIndex == ASSUME IInv, JInv, NEW b \in Blocks, PreciousBlock(b) PROVE JInv'
  <1> USE DEF JInv
  <1>1. /\ Unlocked /\ b \in index /\ pending' = TRUE /\ disturbed' = (disturbed \/ LosesRank(b))
        /\ seq' = [seq EXCEPT ![b] = PreciousSeq] /\ reverseSeq' = PreciousSeq - 1
        /\ candidates' = IF Eligible(b) THEN {c \in candidates \cup {b} : ~WorseBy(seq', c, tip)} ELSE candidates \ {b}
        /\ UNCHANGED <<nextSeq, index, data, received, linked, scripts, unlinked, tip, pruned, job, verdict,
                       failedValid, failedChild>>
    BY DEF PreciousBlock, blocks, flags
  <1>2. /\ ~Activating /\ ~Activating' /\ job.at \notin {"find", "step", "connect", "aborted"}
        /\ Failed' = Failed /\ Chain' = Chain /\ tip \in Blocks /\ tip \in Chain
    BY <1>1, NobodyActivating, Down DEF Activating, Failed, Chain, IInv, Typed
  <1>3. PreciousSeq \in Int  BY SMTT(30) DEF PreciousSeq, Numbers
  <1>4. Numbers'
    <2> HIDE DEF PreciousSeq
    <2>1. seq' \in [Blocks -> Int]  BY <1>1, <1>3 DEF Numbers
    <2> QED  BY <1>1, <1>3, <2>1, SMTT(30) DEF Numbers
  <1>5. seq'[b] = PreciousSeq /\ \A x \in Blocks \ {b} : seq'[x] = seq[x]  BY <1>1 DEF Numbers
  <1>6. Eligible(tip)  BY <1>2 DEF Eligible, Indexed, IInv, ChainValid
  <1>7. Eligible(b) <=> b \in linked \ Failed  BY DEF Eligible, Indexed
  <1>8. candidates' \subseteq linked  BY <1>1, <1>7 DEF Indexed
  <1>9. b # tip => \A x \in Blocks \ {b} : WorseBy(seq', x, tip) <=> WorseBy(seq, x, tip)
    BY <1>2, <1>5 DEF WorseBy
  <1>10. Indexed'  BY <1>1, <1>2, <1>8 DEF Indexed
  <1>11. JobIndexed'  BY <1>1, <1>2 DEF JobIndexed
  <1>12. Waits'  BY <1>1, <1>2 DEF Waits
  <1>13. Ordered'
    <2>1. CASE Eligible(b)  BY <1>1, <2>1 DEF Ordered
    <2>2. CASE ~Eligible(b)
      <3>1. b # tip /\ candidates' = candidates \ {b}  BY <1>1, <1>6, <2>2
      <3>2. \A c \in candidates' : c \in Blocks \ {b} /\ ~WorseBy(seq, c, tip)
        BY <3>1 DEF Ordered, IInv, Typed
      <3> QED  BY <1>1, <1>9, <3>1, <3>2 DEF Ordered
    <2> QED  BY <2>1, <2>2
  <1>14. Marks'  BY <1>1 DEF Marks, Invalid
  <1>15. Offered'
    <2>1. SUFFICES ASSUME ~disturbed, ~LosesRank(b), job.at \notin {"walk", "aborted"},
                          NEW x \in (linked \cap data) \ Failed, ~WorseBy(seq', x, tip)
                   PROVE  x \in candidates' \cup unlinked
      BY <1>1, <1>2 DEF Offered
    <2>2. x \in Blocks  BY DEF Indexed
    <2>3. CASE x = b  BY <1>1, <1>7, <2>1, <2>3
    <2>4. CASE x # b
      <3>1. ~WorseBy(seq, x, tip)
        <4>1. CASE b # tip  BY <1>9, <2>1, <2>2, <2>4, <4>1
        <4>2. CASE b = tip
          <5>1. PICK wx \in Int, wt \in Int : wx = Work[x] /\ wt = Work[tip]  BY <1>2, <2>2, OrderAssumption
          <5>2. PICK sx \in Int, st \in Int, new \in Int : sx = seq[x] /\ st = seq[tip] /\ new = PreciousSeq
            BY <1>2, <1>3, <2>2 DEF Numbers
          <5>3. seq'[x] = sx /\ seq'[tip] = new  BY <1>5, <2>2, <2>4, <4>2, <5>2
          <5>4. ~(new > st)  BY <2>1, <4>2, <5>2 DEF LosesRank
          <5>5. ~(wx < wt) /\ ~(wx = wt /\ sx > new) /\ ~(wx = wt /\ sx = new /\ Address[x] > Address[tip])
            BY <2>1, <5>1, <5>3 DEF WorseBy
          <5>6. ~(wx < wt) /\ ~(wx = wt /\ sx > st) /\ ~(wx = wt /\ sx = st /\ Address[x] > Address[tip])
            BY <5>4, <5>5, SMTT(30)
          <5> QED  BY <5>1, <5>2, <5>6 DEF WorseBy
        <4> QED  BY <4>1, <4>2
      <3>2. x \in candidates \cup unlinked  BY <1>2, <2>1, <3>1 DEF Offered
      <3> QED  BY <1>1, <2>1, <2>4, <3>2
    <2> QED  BY <2>3, <2>4
  <1>16. TipOffered'
    <2>1. ASSUME tip \in candidates PROVE tip \in candidates'
      <3>1. ~WorseBy(seq', tip, tip)  BY <1>2, <1>4, Order DEF Numbers
      <3> QED  BY <1>1, <1>6, <2>1, <3>1
    <2> QED  BY <1>1, <1>2, <2>1 DEF TipOffered
  <1>17. Returns' /\ Chosen'  BY <1>1, <1>2 DEF Returns, Chosen
  <1> QED  BY <1>4, <1>10, <1>11, <1>12, <1>13, <1>14, <1>15, <1>16, <1>17

\* reconsiderblock takes marks away.  Where it forgets nothing, the marks that
\* are left are above blocks that are left marked.
LEMMA ResetIndex == ASSUME IInv, JInv, NEW b \in Blocks, ResetBlockFailureFlags(b) PROVE JInv'
  <1> USE DEF JInv
  <1>1. PICK reset : reset = {c \in index : b \in Ancestors[c] /\ c \notin received \ Failed}  OBVIOUS
  <1>2. /\ Unlocked /\ b \in index /\ pending' = TRUE /\ disturbed' = (disturbed \/ Forgotten(b) # {})
        /\ failedValid' = failedValid \ (reset \cup Ancestors[b]) /\ failedChild' = failedChild \ (reset \cup Ancestors[b])
        /\ candidates' = candidates \cup {c \in reset \cap received \cap linked : WorseBy(seq, tip, c)}
        /\ UNCHANGED <<seq, nextSeq, reverseSeq, index, data, received, linked, scripts, unlinked, tip, pruned, job, verdict>>
    BY <1>1 DEF ResetBlockFailureFlags, blocks, sequence, Worse
  <1>3. /\ ~Activating /\ ~Activating' /\ job.at \notin {"find", "step", "connect", "aborted"}
        /\ Chain' = Chain /\ tip \in Blocks /\ tip \in Chain /\ seq \in [Blocks -> Int]
    BY <1>2, NobodyActivating, Down DEF Activating, Chain, IInv, Typed, Numbers
  <1>4. Failed' = Failed \ (reset \cup Ancestors[b])  BY <1>2 DEF Failed
  <1>5. \A c \in index : b \in Ancestors[c] /\ c \in Failed => c \in reset  BY <1>1
  <1>6. \A c \in reset : c \in index /\ b \in Ancestors[c]  BY <1>1
  <1>7. b \in Ancestors[b] /\ candidates' \subseteq linked  BY <1>2, Down DEF Indexed
  <1>8. ASSUME ~disturbed'
        PROVE  /\ ~disturbed
               /\ \A x \in Ancestors[b] \ {b} : x \notin Failed
               /\ \A c \in data \ (linked \cup unlinked) : b \notin Ancestors[c]
    BY <1>2, <1>8 DEF Forgotten
  <1>9. ASSUME ~disturbed', NEW x \in Blocks, Invalid(x), b \notin Ancestors[x] PROVE Invalid(x)'
    <2>1. PICK v \in Ancestors[x] : v \in failedValid  BY <1>9 DEF Invalid
    <2>2. v \in Blocks /\ Ancestors[v] \subseteq Ancestors[x]  BY <1>9, Down
    <2>3. v \notin reset  BY <1>6, <1>9, <2>2
    <2>4. v \notin Ancestors[b]  BY <1>8, <1>9, <2>1 DEF Failed
    <2> QED  BY <1>2, <2>1, <2>3, <2>4 DEF Invalid
  <1>10. Numbers'  BY <1>2 DEF Numbers
  <1>11. Indexed'  BY <1>2, <1>4, <1>7 DEF Indexed
  <1>12. JobIndexed'  BY <1>2, <1>3 DEF JobIndexed
  <1>13. Waits'  BY <1>2, <1>3 DEF Waits
  <1>14. Ordered'
    <2>1. \A c \in Blocks : WorseBy(seq, tip, c) => ~WorseBy(seq, c, tip)  BY <1>3, Order
    <2>2. \A c \in candidates' : c \in Blocks  BY <1>7 DEF Indexed
    <2> QED  BY <1>2, <2>1, <2>2 DEF Ordered
  <1>15. Marks'
    <2>1. SUFFICES ASSUME ~disturbed' PROVE
              /\ \A x \in failedChild' : Invalid(x)'
              /\ \A x \in data \ (linked \cup unlinked) : Invalid(x)'
      BY <1>2 DEF Marks
    <2>2. ASSUME NEW x \in failedChild' PROVE Invalid(x)'
      <3>1. x \in failedChild /\ x \notin reset /\ x \in index /\ x \in Blocks /\ x \in Failed
        BY <1>2, <2>2 DEF Failed, Indexed
      <3>2. b \notin Ancestors[x]  BY <1>5, <3>1
      <3> QED  BY <1>8, <1>9, <2>1, <3>1, <3>2 DEF Marks
    <2>3. ASSUME NEW x \in data \ (linked \cup unlinked) PROVE Invalid(x)'
      <3>1. x \in Blocks /\ b \notin Ancestors[x]  BY <1>8, <2>1 DEF Indexed
      <3> QED  BY <1>8, <1>9, <2>1, <2>3, <3>1 DEF Marks
    <2> QED  BY <2>2, <2>3
  <1>16. Offered'
    <2>1. SUFFICES ASSUME ~disturbed', job.at \notin {"walk", "aborted"},
                          NEW x \in (linked \cap data) \ Failed', ~WorseBy(seq, x, tip)
                   PROVE  x \in candidates' \cup unlinked
      BY <1>2, <1>3 DEF Offered
    <2>2. x \in Blocks /\ x \in index /\ x \in received  BY DEF Indexed
    <2>3. CASE x \notin Failed  BY <1>2, <1>3, <1>8, <2>1, <2>3 DEF Offered
    <2>4. CASE x \in Failed
      <3>1. x \in reset  BY <1>4, <1>5, <1>7, <1>8, <2>1, <2>2, <2>4
      <3>2. x # tip  BY <1>3, <2>4 DEF IInv, ChainValid
      <3>3. WorseBy(seq, tip, x)  BY <1>3, <2>1, <2>2, <3>2, Order
      <3> QED  BY <1>2, <2>1, <2>2, <3>1, <3>3
    <2> QED  BY <2>3, <2>4
  <1>17. TipOffered'  BY <1>2, <1>3 DEF TipOffered
  <1>18. Returns' /\ Chosen'  BY <1>2, <1>3 DEF Returns, Chosen
  <1> QED  BY <1>10, <1>11, <1>12, <1>13, <1>14, <1>15, <1>16, <1>17, <1>18

\* InvalidateBlock starts with linked blocks.
LEMMA InvalidateBlockIndex == ASSUME IInv, JInv, NEW b \in Blocks, InvalidateBlock(b) PROVE JInv'
  <1> USE DEF JInv
  <1>1. PICK byWork : byWork = {c \in index \ Chain : Eligible(c) /\ ~Worse(c, Parent[b])}  OBVIOUS
  <1>2. /\ UNCHANGED <<seq, nextSeq, reverseSeq, index, data, received, linked, scripts, unlinked, candidates, tip, pruned,
                       disturbed, verdict, failedValid, failedChild>>
        /\ job = Idle /\ b \in index /\ job' = [at |-> "walk", block |-> b, mark |-> b, byWork |-> byWork]
    BY <1>1 DEF InvalidateBlock, blocks, flags, sets, sequence
  <1>3. job'.at = "walk" /\ job'.mark = b /\ job'.byWork = byWork /\ job' # Idle  BY <1>2 DEF Idle
  <1>4. byWork \subseteq linked  BY <1>1 DEF Eligible
  <1>5. ~Activating /\ ~Activating' /\ job.at = "idle"  BY <1>2, <1>3 DEF Activating, Idle
  <1>6. JobIndexed'  BY <1>2, <1>3, <1>4, <1>5 DEF JobIndexed
  <1>7. Offered' /\ Returns' /\ Chosen'  BY <1>3, <1>5 DEF Offered, Returns, Chosen
  <1>8. TipOffered'  BY <1>2, <1>3, <1>5 DEF TipOffered
  <1> QED  BY <1>2, <1>6, <1>7, <1>8, OnlyJob

\* InvalidateBlock disconnects the tip and marks it; its parent becomes a
\* candidate.
LEMMA WalkBackIndex == ASSUME IInv, JInv, WalkBack PROVE JInv'
  <1> USE DEF JInv
  <1>1. PICK prev, better, child : /\ prev = Parent[tip] /\ better = {c \in job.byWork : ~WorseBy(seq, c, prev)}
                                   /\ child = {m \in {job.mark} : prev = m /\ m \in failedValid}
    OBVIOUS
  <1>2. /\ UNCHANGED <<seq, nextSeq, reverseSeq, index, data, received, linked, scripts, unlinked, pruned,
                       disturbed, pending, verdict>>
        /\ job.at = "walk" /\ job.block \in Chain /\ tip' = prev
        /\ failedValid' = (failedValid \cup {tip}) \ child /\ failedChild' = failedChild \cup child
        /\ candidates' = (candidates \ {tip}) \cup {prev} \cup better
        /\ job' = [job EXCEPT !.mark = tip, !.byWork = @ \ better]
    BY <1>1 DEF WalkBack, blocks, sequence, Worse
  <1>3. job \in Invalidation /\ tip \in Blocks /\ tip \in Chain /\ seq \in [Blocks -> Int]
    BY <1>2, InvalidationJob, Down DEF IInv, Typed, Chain, Numbers
  <1>4. tip # Base
    <2>1. job.block # Base  BY <1>3 DEF Invalidation
    <2>2. Ancestors[Base] = {Base}  BY TreeAssumption
    <2> QED  BY <1>2, <2>1, <2>2 DEF Chain
  <1>5. /\ prev \in Blocks /\ Chain = {tip} \cup Ancestors[prev] /\ tip \notin Ancestors[prev]
        /\ prev \in Ancestors[prev] /\ prev \in Ancestors[tip]
    BY <1>1, <1>3, <1>4, OneMore, Down DEF Chain
  <1>6. child = {}  BY <1>1, <1>5 DEF IInv, ChainValid, Failed
  <1>7. failedValid' = failedValid \cup {tip} /\ failedChild' = failedChild /\ Failed' = Failed \cup {tip}
    BY <1>2, <1>6 DEF Failed
  <1>8. Chain' = Ancestors[prev] /\ Chain' \subseteq Chain  BY <1>2, <1>5 DEF Chain
  <1>9. job'.at = "walk" /\ job'.mark = tip /\ job'.byWork = job.byWork \ better /\ job' # Idle
    BY <1>2, <1>3 DEF Invalidation, Idle
  <1>10. ~Activating'  BY <1>9 DEF Activating
  <1>11. better \subseteq linked /\ prev \in linked  BY <1>1, <1>2, <1>5 DEF JobIndexed, Indexed
  <1>12. Numbers'  BY <1>2 DEF Numbers
  <1>13. Indexed'
    <2>1. Failed' \subseteq index /\ candidates' \subseteq linked  BY <1>2, <1>7, <1>11 DEF Indexed
    <2> QED  BY <1>2, <1>11, <2>1 DEF Indexed
  <1>14. JobIndexed'  BY <1>2, <1>9, <1>10 DEF JobIndexed, Indexed
  <1>15. Waits'  BY <1>2, <1>8 DEF Waits
  <1>16. Ordered'
    <2>1. ~WorseBy(seq, tip, prev) /\ ~WorseBy(seq, prev, prev)  BY <1>3, <1>5, Lower, Order
    <2>2. \A c \in candidates : ~WorseBy(seq, c, prev)
      BY <1>3, <1>5, <2>1, OrderTransitive DEF Ordered, IInv, Typed
    <2> QED  BY <1>1, <1>2, <2>1, <2>2 DEF Ordered
  <1>17. Marks'  BY <1>2, <1>7 DEF Marks, Invalid
  <1>18. TipOffered'  BY <1>2 DEF TipOffered
  <1>19. Offered' /\ Returns' /\ Chosen'  BY <1>9, <1>10 DEF Offered, Returns, Chosen
  <1> QED  BY <1>12, <1>13, <1>14, <1>15, <1>16, <1>17, <1>18, <1>19

\* InvalidateBlock gives up; nothing is promised from then on.
LEMMA WalkFailsIndex == ASSUME IInv, JInv, WalkFails PROVE JInv'
  <1> USE DEF JInv
  <1>1. /\ UNCHANGED <<seq, nextSeq, reverseSeq, index, data, received, linked, scripts, unlinked, candidates, tip, pruned,
                       verdict, failedValid, failedChild>>
        /\ disturbed' = TRUE /\ job' = Idle
    BY DEF WalkFails, blocks, flags, sets, sequence
  <1>2. Failed' = Failed /\ Chain' = Chain /\ ~Activating' /\ job'.at = "idle"
    BY <1>1 DEF Failed, Chain, Activating, Idle
  <1>3. Numbers' /\ Ordered'  BY <1>1 DEF Numbers, Ordered
  <1>4. Indexed'  BY <1>1, <1>2 DEF Indexed
  <1>5. Waits'  BY <1>1, <1>2 DEF Waits
  <1>6. JobIndexed' /\ Returns'  BY <1>2 DEF JobIndexed, Returns
  <1>7. Marks' /\ Offered' /\ TipOffered' /\ Chosen'  BY <1>1 DEF Marks, Offered, TipOffered, Chosen
  <1> QED  BY <1>3, <1>4, <1>5, <1>6, <1>7

\* The last block is marked, and the candidates are collected anew.
LEMMA MarkFailedIndex == ASSUME IInv, JInv, MarkFailed PROVE JInv'
  <1> USE DEF JInv
  <1>1. /\ UNCHANGED <<seq, nextSeq, reverseSeq, index, data, received, linked, scripts, unlinked, tip, pruned,
                       disturbed, verdict, failedChild>>
        /\ job.at = "walk" /\ job.block \notin Chain /\ failedValid' = failedValid \cup {job.mark}
        /\ candidates' = (candidates \ {job.mark}) \cup {c \in index \ {job.mark} : Eligible(c) /\ ~WorseBy(seq, c, tip)}
        /\ job' = Idle /\ pending' = TRUE
    BY DEF MarkFailed, blocks, sequence, Better
  <1>2. /\ Failed' = Failed \cup {job.mark} /\ Chain' = Chain /\ ~Activating' /\ job'.at = "idle"
        /\ tip \in Chain
    BY <1>1, Down DEF Failed, Chain, Activating, Idle, IInv, Typed
  <1>3. job.mark \in index /\ job.mark \notin Chain  BY <1>1 DEF JobIndexed, IInv, Underway
  <1>4. candidates' \subseteq linked  BY <1>1 DEF Eligible, Indexed
  <1>5. Numbers'  BY <1>1 DEF Numbers
  <1>6. Indexed'  BY <1>1, <1>2, <1>3, <1>4 DEF Indexed
  <1>7. Waits'  BY <1>1, <1>2 DEF Waits
  <1>8. JobIndexed' /\ Returns' /\ Chosen'  BY <1>1, <1>2 DEF JobIndexed, Returns, Chosen
  <1>9. Ordered'  BY <1>1 DEF Ordered
  <1>10. Marks'  BY <1>1 DEF Marks, Invalid
  <1>11. Offered'
    <2>1. SUFFICES ASSUME NEW x \in (linked \cap data) \ Failed', ~WorseBy(seq, x, tip) PROVE x \in candidates'
      BY <1>1 DEF Offered
    <2>2. x # job.mark /\ x \in index /\ Eligible(x)  BY <1>2 DEF Eligible, Indexed
    <2> QED  BY <1>1, <2>1, <2>2
  <1>12. TipOffered'
    <2>1. ~Activating  BY <1>1 DEF Activating
    <2> QED  BY <1>1, <1>2, <1>3, <2>1 DEF TipOffered
  <1> QED  BY <1>5, <1>6, <1>7, <1>8, <1>9, <1>10, <1>11, <1>12
-----------------------------------------------------------------------------
\* The invariant of the index and of the candidates holds in every state: no
\* order in which headers and blocks arrive, are pruned, invalidated,
\* reconsidered and preferred breaks it, at whatever point of ActivateBestChain
\* or InvalidateBlock that happens.  A step of ActivateBestChain may prune the
\* chain that it left; that the loop finds it again when a block does not connect
\* is part of the invariant only until that has failed (LosesWayBack).
THEOREM IndexInvariance == Spec => [](IInv /\ JInv)
  <1>1. Init => JInv
    <2> SUFFICES ASSUME Init PROVE JInv  OBVIOUS
    <2>1. Base \in Blocks /\ Ancestors[Base] = {Base}  BY TreeAssumption
    <2>2. Numbers  BY SMTT(30) DEF Init, Numbers
    <2>3. Indexed /\ Waits  BY <2>1 DEF Init, Indexed, Waits, Failed, Chain
    <2>4. job.at = "idle" /\ ~Activating /\ job = Idle  BY DEF Init, Idle, Activating
    <2>5. JobIndexed /\ Returns  BY <2>4 DEF JobIndexed, Returns
    <2>6. ~WorseBy(seq, Base, Base)  BY <2>1, <2>2, Order DEF Numbers
    <2>7. Ordered /\ Offered /\ TipOffered  BY <2>4, <2>6 DEF Init, Ordered, Offered, TipOffered
    <2>8. Marks  BY DEF Init, Marks
    <2>9. Chosen  BY <2>4, <2>6 DEF Init, Chosen, Good
    <2> QED  BY <2>2, <2>3, <2>5, <2>7, <2>8, <2>9 DEF JInv
  <1>2. IInv /\ JInv /\ [Next]_vars => JInv'
    <2> SUFFICES ASSUME IInv, JInv, [Next]_vars PROVE JInv'  OBVIOUS
    <2>1. CASE \E b \in Blocks \ {Base} : RejectHeader(b) \/ AcceptBlockHeader(b) \/ AcceptBlock(b)
      BY <2>1, RejectHeaderIndex, AcceptBlockHeaderIndex, AcceptBlockIndex
    <2>2. CASE FlushStateToDisk \/ \E b \in Blocks : PreciousBlock(b) \/ ResetBlockFailureFlags(b) \/ InvalidateBlock(b)
      BY <2>2, FlushIndex, PreciousBlockIndex, ResetIndex, InvalidateBlockIndex
    <2>3. CASE Activate
      BY <2>3, ActivateBestChainIndex, ContinueIndex, FindMostWorkChainIndex, ActivateBestChainStepIndex, ConnectIndex
         DEF Activate
    <2>4. CASE Invalidate
      BY <2>4, WalkBackIndex, WalkFailsIndex, MarkFailedIndex DEF Invalidate
    <2>5. CASE UNCHANGED vars
      <3>1. UNCHANGED <<seq, nextSeq, reverseSeq, index, data, received, linked, scripts, unlinked, candidates, tip, pruned,
                        disturbed, pending, verdict, failedValid, failedChild, job>>
        BY <2>5 DEF vars, blocks, flags, sets, sequence
      <3>2. Failed' = Failed /\ Chain' = Chain /\ (Activating' <=> Activating)  BY <3>1 DEF Failed, Chain, Activating
      <3>3. JobIndexed' /\ Offered' /\ TipOffered' /\ Returns'
        BY <3>1, <3>2 DEF JInv, JobIndexed, Offered, TipOffered, Returns, Missing
      <3>4. \A b \in Blocks : Good(b)' <=> Good(b)  BY <3>1, <3>2 DEF Good, Missing
      <3>5. Chosen'  BY <3>1, <3>4 DEF JInv, Chosen, Idle
      <3> QED  BY <3>1, <3>3, <3>5, OnlyJob
    <2> QED  BY <2>1, <2>2, <2>3, <2>4, <2>5 DEF Next
  <1> QED  BY <1>1, <1>2, Invariance, PTL DEF Spec

\* Marks are only above invalid blocks, what is linked has all its ancestors,
\* and where nothing is invalid a block waits in m_blocks_unlinked exactly while
\* something is missing, until one of the cases of disturbed.
THEOREM IndexSafe == Spec => []IndexConsistent
  <1>1. IInv /\ JInv => IndexConsistent  BY IndexFromInv
  <1> QED  BY <1>1, IndexInvariance, PTL

\* setBlockIndexCandidates has what can be connected and is not worse than the
\* tip, whenever cs_main can be taken and InvalidateBlock is not under way, until
\* one of the cases of disturbed.
THEOREM CandidatesSafe == Spec => []CandidatesExact
  <1>1. IInv /\ JInv => CandidatesExact  BY CandidatesFromInv
  <1> QED  BY <1>1, IndexInvariance, PTL

\* When ActivateBestChain returns, and until somebody asks for it again, no
\* block that can be connected is better than the tip, before the first of the
\* cases of disturbed: also when a reorganisation prunes the chain that it left,
\* as long as it does not then meet a block that fails to connect.
THEOREM TipSafe == Spec => []TipIsBestUndisturbed
  <1>1. JInv => TipIsBestUndisturbed  BY TipFromInv
  <1> QED  BY <1>1, IndexInvariance, PTL
=============================================================================
