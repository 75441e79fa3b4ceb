----------------------------- MODULE ChainState -----------------------------
(***************************************************************************)
(* CChainState and BlockManager: the block index, the candidates for the   *)
(* tip, and the active chain.                                              *)
(*                                                                         *)
(* ActivateBestChain and InvalidateBlock hold m_cs_chainstate until they   *)
(* return, and release cs_main between their steps; headers, blocks, RPC   *)
(* calls and pruning come in between.  A job is the call that holds        *)
(* m_cs_chainstate; while it is at a step of Locked it holds cs_main too.  *)
(*                                                                         *)
(* What the checks of a block say is given by verdict: "valid", "badcheck" *)
(* (ContextualCheckBlock fails), "invalid" (ConnectBlock fails) and        *)
(* "mutated" (ConnectBlock returns BLOCK_MUTATED, as it does when the      *)
(* extension block does not connect).  Each block has its own block file.  *)
(* pindexBestHeader and pindexBestInvalid, which nothing here depends on,  *)
(* and restarts are left out.                                              *)
(***************************************************************************)
EXTENDS Integers, FiniteSets

CONSTANTS Blocks, Base,     \* the tree of blocks and its genesis block
          Parent,           \* pprev
          Work,             \* nChainWork
          Verdicts,         \* the blocks there may be, and what the checks say of them
          Address,          \* the order of the index entries in memory
          MinBlocksToKeep,
          MaxSteps,         \* bounds the sequence numbers and the calls together
          MaxCalls,         \* MaxCalls[v]: calls of invalidateblock, reconsiderblock, preciousblock
          None

VARIABLES verdict,
          index,            \* m_block_index
          data,             \* BLOCK_HAVE_DATA
          received,         \* nTx > 0, and BLOCK_VALID_TRANSACTIONS
          linked,           \* nChainTx > 0: HaveTxsDownloaded
          scripts,          \* BLOCK_VALID_SCRIPTS
          failedValid, failedChild, failedBlocks,   \* the last is m_failed_blocks
          seq, nextSeq,     \* nSequenceId, nBlockSequenceId
          reverseSeq, lastPrecious,
          candidates,       \* setBlockIndexCandidates
          unlinked,         \* the second components of m_blocks_unlinked
          again,            \* those that it has more than once
          tip,              \* m_chain
          pruned,           \* fHavePruned
          job,              \* the call that holds m_cs_chainstate
          pending,          \* a call of ActivateBestChain is to come
          calls,            \* the RPC calls so far
          disturbed         \* history: see Checked

flags == <<failedValid, failedChild, failedBlocks>>
sequence == <<seq, nextSeq, reverseSeq, lastPrecious>>
blocks == <<index, data, received, linked>>
sets == <<candidates, unlinked, again>>
vars == <<blocks, scripts, flags, sequence, sets, tip, pruned, job, pending, calls, disturbed, verdict>>

Ancestors[b \in Blocks] == IF b = Base THEN {b} ELSE {b} \cup Ancestors[Parent[b]]
Height[b \in Blocks] == IF b = Base THEN 0 ELSE Height[Parent[b]] + 1

\* The last of a set of blocks of one branch.
Highest(S) == CHOOSE b \in S : S \subseteq Ancestors[b]

\* The blocks are a tree, and a set of blocks of one branch has a highest one.
ASSUME TreeAssumption ==
    /\ Base \in Blocks /\ Parent \in [Blocks \ {Base} -> Blocks] /\ None \notin Blocks
    /\ \A b \in Blocks :
         /\ Ancestors[b] = IF b = Base THEN {b} ELSE {b} \cup Ancestors[Parent[b]]
         /\ b # Base => b \notin Ancestors[Parent[b]]
         /\ Ancestors[b] \subseteq Blocks /\ Base \in Ancestors[b]
         /\ \A a \in Ancestors[b] : Ancestors[a] \subseteq Ancestors[b]
         /\ \A S \in SUBSET Ancestors[b] : S # {} => \E t \in S : S \subseteq Ancestors[t]

\* It has a lowest one, too, since the branches start at Base.
ASSUME RootAssumption ==
    \A b \in Blocks :
        /\ \A S \in SUBSET Ancestors[b] : S # {} => \E t \in S : S \cap Ancestors[t] = {t}
        /\ Height[b] \in Nat /\ Height[b] = IF b = Base THEN 0 ELSE Height[Parent[b]] + 1

\* Sets of blocks can be counted, a block has more work than its parent, and no
\* two are at one address.
ASSUME OrderAssumption ==
    /\ \A S \in SUBSET Blocks : Cardinality(S) \in Nat
    /\ Work \in [Blocks -> Int] /\ Address \in [Blocks -> Int]
    /\ \A b \in Blocks \ {Base} : Work[Parent[b]] < Work[b]
    /\ \A a, b \in Blocks : Address[a] = Address[b] => a = b

ASSUME MinBlocksAssumption == MinBlocksToKeep \in Nat

Chain == Ancestors[tip]
Failed == failedValid \cup failedChild

\* CBlockIndexWorkComparator, with the sequence numbers s and the current ones.
WorseBy(s, a, b) ==
    \/ Work[a] < Work[b]
    \/ Work[a] = Work[b] /\ s[a] > s[b]
    \/ Work[a] = Work[b] /\ s[a] = s[b] /\ Address[a] > Address[b]

Worse(a, b) == WorseBy(seq, a, b)

\* IsValid(BLOCK_VALID_TRANSACTIONS) && HaveTxsDownloaded().
Eligible(b) == b \in (received \cap linked) \ Failed

\* A block that has to be connected to reach b is not there.
Missing(b) == ~(Ancestors[b] \ Chain \subseteq data)

Idle == [at |-> "idle"]
Aborted == [at |-> "aborted"]
Locked == {"find", "step", "connect", "aborted"}
Unlocked == job.at \notin Locked

\* The genesis block is connected.
Init ==
    /\ verdict \in Verdicts
    /\ index = {Base} /\ data = {Base} /\ received = {Base} /\ linked = {Base} /\ scripts = {Base}
    /\ failedValid = {} /\ failedChild = {} /\ failedBlocks = {}
    /\ seq = [b \in Blocks |-> IF b = Base THEN 1 ELSE 0] /\ nextSeq = 2
    /\ reverseSeq = -1 /\ lastPrecious = 0
    /\ candidates = {Base} /\ unlinked = {} /\ again = {} /\ tip = Base /\ pruned = FALSE
    /\ job = Idle /\ pending = FALSE /\ calls = 0 /\ disturbed = FALSE
-----------------------------------------------------------------------------
\* AcceptBlockHeader of a new header whose parent descends from a block in
\* m_failed_blocks: the blocks in between are marked.
FailedBelow(b) == IF b \in scripts \ Failed THEN {} ELSE failedBlocks \cap Ancestors[b]

\* Variant of RejectHeader: the ancestors of the failed block are marked too.
RejectAncestors(b) ==
    /\ Unlocked /\ b \in DOMAIN verdict \ index /\ Parent[b] \in index \ Failed /\ FailedBelow(Parent[b]) # {}
    /\ failedChild' = failedChild \cup Ancestors[Parent[b]]
    /\ UNCHANGED <<blocks, scripts, failedValid, failedBlocks, sequence, sets, tip, pruned, job, pending, calls, disturbed, verdict>>

RejectHeader(b) ==
    /\ Unlocked /\ b \in DOMAIN verdict \ index /\ Parent[b] \in index \ Failed /\ FailedBelow(Parent[b]) # {}
    /\ \E f \in FailedBelow(Parent[b]) : failedChild' = failedChild \cup (Ancestors[Parent[b]] \ Ancestors[f])
    /\ UNCHANGED <<blocks, scripts, failedValid, failedBlocks, sequence, sets, tip, pruned, job, pending, calls, disturbed, verdict>>

\* The header is in the index, and not marked, when AcceptBlockHeader is done.
HeaderAccepted(b) ==
    \/ b \in index \ Failed
    \/ b \notin index /\ Parent[b] \in index \ Failed /\ FailedBelow(Parent[b]) = {}

\* AcceptBlockHeader, also that of AcceptBlock when the block was not asked for
\* and is not wanted.
AcceptBlockHeader(b) ==
    /\ Unlocked /\ b \in DOMAIN verdict \ index /\ HeaderAccepted(b)
    /\ index' = index \cup {b}
    /\ UNCHANGED <<data, received, linked, scripts, flags, sequence, sets, tip, pruned, job, pending, calls, disturbed, verdict>>

\* Variant of Queue: the children of b are linked, but not theirs.
QueueChildren(b) == {d \in Blocks : b \in Ancestors[d] /\ Ancestors[d] \ Ancestors[b] \subseteq unlinked \cap {d}}

\* The blocks that can be linked now that b can be.
Queue(b) == {d \in Blocks : b \in Ancestors[d] /\ Ancestors[d] \ Ancestors[b] \subseteq unlinked}

\* Variant of Better that passes over the descendants of the received block.
BetterFirst(s, Q) == {x \in Q : ~WorseBy(s, x, tip) /\ (x = Base \/ Parent[x] \in linked)}

\* Those of Q that are not worse than the tip.
Better(s, Q) == {x \in Q : ~WorseBy(s, x, tip)}

\* ReceivedBlockTransactions, when all ancestors of b had been received.
\* The children of a block are taken in the order of the multimap.
Link(b) ==
    LET Q == Queue(b)
        order == {f \in [Q -> 0 .. Cardinality(Q) - 1] : \A x, y \in Q :
                     /\ x # y => f[x] # f[y]
                     /\ Height[x] < Height[y] => f[x] < f[y]}
    IN \E f \in order :
         /\ seq' = [x \in Blocks |-> IF x \in Q THEN nextSeq + f[x] ELSE seq[x]]
         /\ nextSeq' = nextSeq + Cardinality(Q)
         /\ linked' = linked \cup Q /\ unlinked' = unlinked \ Q
         /\ candidates' = candidates \cup Better(seq', Q)

ReceivedBlockTransactions(b) ==
    /\ data' = data \cup {b} /\ received' = received \cup {b}
    /\ \/ Parent[b] \in linked /\ Link(b)
       \/ /\ Parent[b] \notin linked
          /\ linked' = linked \ {b}
          /\ unlinked' = IF Parent[b] \in Failed THEN unlinked ELSE unlinked \cup {b}
          /\ UNCHANGED <<seq, nextSeq, candidates>>

\* AcceptBlock of a block that is asked for, which a block of the active chain
\* is not, and ProcessNewBlock's call of ActivateBestChain.  A block that was
\* pruned is not received again when a candidate would get another sequence
\* number by that: it is an element of a set ordered by these numbers, and what
\* happens then is undefined.
AcceptBlock(b) ==
    /\ Unlocked /\ nextSeq + calls <= MaxSteps /\ b \in DOMAIN verdict \ (data \cup Chain) /\ HeaderAccepted(b)
    /\ Queue(b) \cap (candidates \cup again) = {}
    /\ index' = index \cup {b}
    /\ \/ /\ verdict[b] = "badcheck" /\ failedValid' = failedValid \cup {b}
          /\ UNCHANGED <<data, received, linked, seq, nextSeq, candidates, unlinked, pending>>
       \/ /\ verdict[b] # "badcheck" /\ ReceivedBlockTransactions(b) /\ pending' = TRUE
          /\ UNCHANGED failedValid
    /\ UNCHANGED <<scripts, failedChild, failedBlocks, reverseSeq, lastPrecious, again, tip, pruned, job, calls, disturbed, verdict>>

\* Variant of FindFilesToPrune without the check of the height.
FindAllFiles == data

\* FindFilesToPrune and FindFilesToPruneManual: the files that may go, of which
\* the disk space and the height asked for select some.
FindFilesToPrune == {b \in data : Height[b] <= Height[tip] - MinBlocksToKeep}

\* PruneOneBlockFile for the files of P.
PruneOneBlockFile(P) ==
    /\ data' = data \ P /\ unlinked' = unlinked \ P /\ again' = again \ P
    /\ pruned' = (pruned \/ P # {})

\* FlushStateToDisk outside ActivateBestChainStep: after a block was accepted, or
\* when an RPC call or another thread asks for it.
FlushStateToDisk ==
    /\ Unlocked /\ \E P \in SUBSET FindFilesToPrune : P # {} /\ PruneOneBlockFile(P)
    /\ UNCHANGED <<index, received, linked, scripts, flags, sequence, candidates, tip, job, pending, calls, disturbed, verdict>>
-----------------------------------------------------------------------------
\* ActivateBestChain takes m_cs_chainstate and cs_main.
ActivateBestChain ==
    /\ job = Idle /\ pending /\ pending' = FALSE
    /\ job' = [at |-> "find", start |-> tip, old |-> None, most |-> None, connected |-> FALSE]
    /\ UNCHANGED <<blocks, scripts, flags, sequence, sets, tip, pruned, calls, disturbed, verdict>>

\* The loop goes on, with what was the best chain.
Continue ==
    /\ job.at = "outer"
    /\ job' = [job EXCEPT !.at = IF job.most = None THEN "find" ELSE "step", !.start = tip, !.connected = FALSE]
    /\ UNCHANGED <<blocks, scripts, flags, sequence, sets, tip, pruned, pending, calls, disturbed, verdict>>

\* Where the inner loop goes after the best chain is known.
Found(most) ==
    IF most \in {None, tip} THEN IF job.connected /\ most # tip THEN [job EXCEPT !.at = "outer", !.most = most] ELSE Idle
    ELSE [job EXCEPT !.at = "step", !.most = most]

\* A turn of the loop of FindMostWorkChain.
FindMostWorkChain ==
    /\ job.at = "find"
    /\ \/ candidates = {} /\ job' = Found(None) /\ UNCHANGED <<sets, failedChild>>
       \/ \E b \in candidates :
            LET path == Ancestors[b] \ Chain
                unusable == {x \in path : x \in Failed \/ x \notin data}
                test == Highest(unusable)
                above == Ancestors[b] \ Ancestors[test]
            IN /\ \A c \in candidates : ~Worse(b, c)
               /\ \/ unusable = {} /\ job' = Found(b) /\ UNCHANGED <<sets, failedChild>>
                  \/ /\ unusable # {} /\ candidates' = (candidates \ above) \ {test}
                     /\ failedChild' = IF test \in Failed THEN failedChild \cup above ELSE failedChild
                     /\ unlinked' = IF test \in Failed THEN unlinked ELSE unlinked \cup above
                     /\ again' = IF test \in Failed THEN again ELSE again \cup (unlinked \cap above)
                     /\ UNCHANGED job
    /\ UNCHANGED <<blocks, scripts, failedValid, failedBlocks, sequence, tip, pruned, pending, calls, disturbed, verdict>>

\* ActivateBestChainStep: the blocks that are not on the way to the best chain
\* are disconnected.  The node aborts when one of them cannot be read.
ActivateBestChainStep ==
    /\ job.at = "step"
    /\ LET leave == Chain \ Ancestors[job.most]
           unreadable == leave \ data
       IN \/ /\ unreadable = {}
             /\ tip' = Highest(Chain \cap Ancestors[job.most])
             /\ job' = [job EXCEPT !.at = "connect", !.old = tip]
          \/ unreadable # {} /\ tip' = Highest(unreadable) /\ job' = Aborted
    /\ UNCHANGED <<blocks, scripts, flags, sequence, sets, pruned, pending, calls, disturbed, verdict>>

\* The end of a step: the inner loop goes on while the tip is worse than it was.
StepDone(most, newTip) ==
    IF Worse(newTip, job.start) THEN [job EXCEPT !.at = IF most = None THEN "find" ELSE "step", !.most = most, !.connected = TRUE]
    ELSE IF newTip = most THEN Idle
    ELSE [job EXCEPT !.at = "outer", !.most = most, !.connected = TRUE]

\* The step goes on until the tip has more work than before it.  ConnectTip calls
\* FlushStateToDisk before it sets the tip, so that files are pruned while cs_main
\* is held.
ConnectTip(b) ==
    /\ b \in data /\ verdict[b] = "valid"
    /\ \E P \in SUBSET FindFilesToPrune : PruneOneBlockFile(P)
    /\ tip' = b /\ scripts' = scripts \cup {b}
    /\ candidates' = {c \in candidates : ~Worse(c, b)}
    /\ job' = IF b # job.most /\ Work[b] <= Work[job.old] THEN job ELSE StepDone(job.most, b)
    /\ UNCHANGED <<failedValid, failedBlocks, disturbed>>

\* The tip is worse than it was, and the chain of then has been pruned meanwhile.
LosesWayBack == Worse(tip, job.start) /\ Missing(job.start)

\* The step ends at a block that does not connect.
NotConnected ==
    /\ job' = StepDone(None, tip) /\ disturbed' = (disturbed \/ LosesWayBack)
    /\ UNCHANGED <<data, unlinked, again, pruned, tip, scripts>>

\* Variant of InvalidBlockFound: the block stays a candidate.
InvalidBlockKept(b) ==
    /\ b \in data /\ verdict[b] = "invalid" /\ NotConnected
    /\ UNCHANGED <<failedValid, failedBlocks, candidates>>

InvalidBlockFound(b) ==
    /\ b \in data /\ verdict[b] = "invalid" /\ NotConnected
    /\ failedValid' = failedValid \cup {b} /\ failedBlocks' = failedBlocks \cup {b}
    /\ candidates' = candidates \ {b}

MutatedBlockFound(b) ==
    /\ b \in data /\ verdict[b] = "mutated" /\ NotConnected
    /\ UNCHANGED <<failedValid, failedBlocks, candidates>>

\* The next block on the way.  That it can be read is PathUsable.
Connect ==
    /\ job.at = "connect"
    /\ \E b \in Ancestors[job.most] \ {Base} :
         /\ Parent[b] = tip
         /\ ConnectTip(b) \/ InvalidBlockFound(b) \/ MutatedBlockFound(b)
    /\ UNCHANGED <<index, received, linked, failedChild, sequence, pending, calls, verdict>>
-----------------------------------------------------------------------------
\* The bounds on calls.
MayCall == calls < MaxCalls[verdict] /\ nextSeq + calls <= MaxSteps

\* The sequence number that PreciousBlock gives.
PreciousSeq == IF Work[tip] > lastPrecious THEN -1 ELSE reverseSeq

\* The tip had a lower one from an earlier call, and blocks that were worse than
\* it may be better now.
LosesRank(b) == b = tip /\ PreciousSeq > seq[b]

\* PreciousBlock, up to its call of ActivateBestChain.
PreciousBlock(b) ==
    /\ Unlocked /\ MayCall /\ b \in index /\ Work[b] >= Work[tip]
    /\ seq' = [seq EXCEPT ![b] = PreciousSeq] /\ reverseSeq' = PreciousSeq - 1
    /\ lastPrecious' = Work[tip]
    /\ candidates' = IF Eligible(b) THEN {c \in candidates \cup {b} : ~WorseBy(seq', c, tip)} ELSE candidates \ {b}
    /\ disturbed' = (disturbed \/ LosesRank(b))
    /\ pending' = TRUE /\ calls' = calls + 1
    /\ UNCHANGED <<blocks, scripts, flags, nextSeq, unlinked, again, tip, pruned, job, verdict>>

\* InvalidateBlock takes m_cs_chainstate, and looks for blocks that may become
\* candidates.
InvalidateBlock(b) ==
    /\ job = Idle /\ MayCall /\ b \in index \ {Base}
    /\ job' = [at |-> "walk", block |-> b, mark |-> b,
               byWork |-> {c \in index \ Chain : Eligible(c) /\ ~Worse(c, Parent[b])}]
    /\ calls' = calls + 1
    /\ UNCHANGED <<blocks, scripts, flags, sequence, sets, tip, pruned, pending, disturbed, verdict>>

\* The tip is disconnected and marked.
WalkBack ==
    /\ job.at = "walk" /\ job.block \in Chain /\ tip \in data
    /\ LET prev == Parent[tip]
           better == {c \in job.byWork : ~Worse(c, prev)}
           child == {m \in {job.mark} : prev = m /\ m \in failedValid}
       IN /\ tip' = prev
          /\ failedValid' = (failedValid \cup {tip}) \ child /\ failedChild' = failedChild \cup child
          /\ candidates' = (candidates \ {tip}) \cup {prev} \cup better
          /\ job' = [job EXCEPT !.mark = tip, !.byWork = @ \ better]
    /\ UNCHANGED <<blocks, scripts, failedBlocks, sequence, unlinked, again, pruned, pending, calls, disturbed, verdict>>

\* DisconnectTip cannot read the block, and InvalidateBlock returns.
WalkFails ==
    /\ job.at = "walk" /\ job.block \in Chain /\ tip \notin data
    /\ disturbed' = TRUE /\ job' = Idle /\ pending' = TRUE
    /\ UNCHANGED <<blocks, scripts, flags, sequence, sets, tip, pruned, calls, verdict>>

\* Variant of MarkFailed: blocks that came in meanwhile are not looked at.
MarkFailedOnly ==
    /\ job.at = "walk" /\ job.block \notin Chain
    /\ failedValid' = failedValid \cup {job.mark} /\ failedBlocks' = failedBlocks \cup {job.mark}
    /\ candidates' = candidates \ {job.mark}
    /\ job' = Idle /\ pending' = TRUE
    /\ UNCHANGED <<blocks, scripts, failedChild, sequence, unlinked, again, tip, pruned, calls, disturbed, verdict>>

\* The last block is marked; invalidateblock then calls ActivateBestChain.
MarkFailed ==
    /\ job.at = "walk" /\ job.block \notin Chain
    /\ failedValid' = failedValid \cup {job.mark} /\ failedBlocks' = failedBlocks \cup {job.mark}
    /\ candidates' = (candidates \ {job.mark}) \cup Better(seq, {c \in index \ {job.mark} : Eligible(c)})
    /\ job' = Idle /\ pending' = TRUE
    /\ UNCHANGED <<blocks, scripts, failedChild, sequence, unlinked, again, tip, pruned, calls, disturbed, verdict>>

\* What it should put back but does not: ancestors of b that were marked, and
\* descendants that came while their parent was.
Forgotten(b) ==
    ((Ancestors[b] \ {b}) \cap Failed) \cup {c \in data \ (linked \cup unlinked) : b \in Ancestors[c]}

\* reconsiderblock.
ResetBlockFailureFlags(b) ==
    /\ Unlocked /\ MayCall /\ b \in index
    /\ LET reset == {c \in index : b \in Ancestors[c] /\ c \notin received \ Failed}
           all == reset \cup Ancestors[b]
       IN /\ failedValid' = failedValid \ all /\ failedChild' = failedChild \ all
          /\ failedBlocks' = failedBlocks \ (reset \cup (Ancestors[b] \cap Failed))
          /\ candidates' = candidates \cup {c \in reset \cap received \cap linked : Worse(tip, c)}
    /\ disturbed' = (disturbed \/ Forgotten(b) # {})
    /\ pending' = TRUE /\ calls' = calls + 1
    /\ UNCHANGED <<blocks, scripts, sequence, unlinked, again, tip, pruned, job, verdict>>
-----------------------------------------------------------------------------
Activate == ActivateBestChain \/ Continue \/ FindMostWorkChain \/ ActivateBestChainStep \/ Connect
Invalidate == WalkBack \/ WalkFails \/ MarkFailed

Next == \/ \E b \in Blocks \ {Base} : RejectHeader(b) \/ AcceptBlockHeader(b) \/ AcceptBlock(b)
        \/ FlushStateToDisk
        \/ \E b \in Blocks : PreciousBlock(b) \/ ResetBlockFailureFlags(b) \/ InvalidateBlock(b)
        \/ Activate \/ Invalidate

Spec == Init /\ [][Next]_vars

\* The thread that holds m_cs_chainstate goes on, and one that waits for it to
\* call ActivateBestChain gets it.
FairSpec == Spec /\ WF_vars(Activate \/ Invalidate)
-----------------------------------------------------------------------------
\* b, or a block below it, is marked.
Invalid(b) == Ancestors[b] \cap failedValid # {}

\* The locks are free, and the candidates are not to be looked at in the middle
\* of InvalidateBlock.  disturbed: reconsiderblock has forgotten blocks (see
\* Forgotten), InvalidateBlock could not read a block and left its work half
\* done, preciousblock has moved the tip back in the order (LosesRank), or a
\* block did not connect in a reorganisation that had pruned the chain it came
\* from (LosesWayBack).
Checked == ~disturbed /\ Unlocked /\ job.at # "walk"

\* setBlockIndexCandidates has every block that is at least as good as the tip
\* and can be connected, and none that is worse, or is not linked.  A block that
\* is as good but not in it waits in m_blocks_unlinked for one that was pruned.
CandidatesExact ==
    /\ \A b \in candidates : ~Worse(b, tip) /\ Ancestors[b] \subseteq received
    /\ Checked => \A b \in index : ~Worse(b, tip) /\ ~Invalid(b) =>
          /\ ~Missing(b) => b \in candidates
          /\ b \in linked \cap data => b \in candidates \cup unlinked

\* Blocks are marked as failed only above an invalid one.  The blocks whose
\* ancestors are all there are linked, and m_blocks_unlinked has those that wait
\* for an ancestor, so that its arrival makes them candidates, at least where
\* nothing is invalid.
IndexConsistent ==
    /\ ~pruned => data = received
    /\ ~disturbed => \A b \in index :
        /\ b \in Failed => Invalid(b)
        /\ b \in linked => Ancestors[b] \subseteq received
        /\ b \in unlinked => b \in data
        /\ ~Invalid(b) => /\ ~Missing(b) => b \in linked
                          /\ b \in data \ linked => b \in unlinked
                          /\ b \in unlinked => Missing(b)

\* No block of the active chain is marked as failed, whatever headers arrive
\* and whichever blocks are invalidated while the chain is being changed, and
\* all of them passed ConnectBlock.
ChainValid == Chain \cap Failed = {} /\ Chain \subseteq scripts

\* ActivateBestChain keeps pindexMostWork while it releases cs_main: the blocks
\* that it still has to connect are not marked or pruned in between.
PathUsable ==
    job.at \in {"outer", "step", "connect"} =>
        job.most = None \/ Ancestors[job.most] \ Chain \subseteq data \ Failed

\* "The result is either failure or an activated best chain": when nobody has
\* called ActivateBestChain since, no block that can be connected is better
\* than the tip.
TipIsBest ==
    job = Idle /\ ~pending =>
        \A b \in linked : ~Missing(b) /\ Ancestors[b] \cap Failed = {} => ~Worse(tip, b)

\* The same before anything of what disturbed records has happened.
TipIsBestUndisturbed == ~disturbed => TipIsBest

\* A call of ActivateBestChain or InvalidateBlock ends, or the node aborts,
\* unless a candidate needs a block that is reported as mutated: such a block is
\* not marked, and is tried again and again.
ActivationEnds == job.at \notin {"idle", "aborted"} ~>
                      \/ job.at \in {"idle", "aborted"}
                      \/ \E b \in candidates : \E a \in Ancestors[b] : verdict[a] = "mutated"
=============================================================================
