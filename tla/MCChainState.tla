---------------------------- MODULE MCChainState ----------------------------
EXTENDS ChainState, TLC

MCBlocks == {"g", "a1", "a2", "b1", "b2", "b3", "b4", "c1"}
MCParent == "a1" :> "g" @@ "a2" :> "a1" @@ "b1" :> "g" @@ "b2" :> "b1" @@ "b3" :> "b2" @@ "b4" :> "b3"
                @@ "c1" :> "g"
MCWork == "g" :> 1 @@ "a1" :> 2 @@ "a2" :> 3 @@ "b1" :> 2 @@ "b2" :> 3 @@ "b3" :> 4 @@ "b4" :> 5 @@ "c1" :> 4
MCAddress == "g" :> 1 @@ "a1" :> 2 @@ "a2" :> 6 @@ "b1" :> 3 @@ "b2" :> 4 @@ "b3" :> 5 @@ "b4" :> 7 @@ "c1" :> 8

\* Two branches that are long enough for pruning below a candidate, with a block
\* that is reported as mutated.
TwoBranches == "g" :> "valid" @@ "a1" :> "valid" @@ "a2" :> "mutated" @@ "b1" :> "valid" @@ "b2" :> "valid"
\* A branch whose second block does not connect.
InvalidBranch == "g" :> "valid" @@ "a1" :> "valid" @@ "b1" :> "valid" @@ "b2" :> "invalid"
\* And whose third fails its checks.
BadBranch == InvalidBranch @@ "b3" :> "badcheck"
\* Two blocks of equal work.
Rivals == "g" :> "valid" @@ "a1" :> "valid" @@ "b1" :> "valid"
\* One branch, so that blocks wait for others through several generations.
OneBranch == [b \in {"g", "b1", "b2", "b3", "b4"} |-> "valid"]
\* A branch that is pruned while it waits.
ShortBranch == [b \in {"g", "a1", "a2", "b1", "b2", "b3"} |-> "valid"]
\* A reorganisation that prunes the branch it leaves, a block of more work, and
\* then does not reach its end.
LongWay == [b \in {"g", "b1", "b2", "b3", "c1"} |-> "valid"] @@ "b4" :> "invalid"

MCVerdicts == {TwoBranches, InvalidBranch, BadBranch, Rivals, OneBranch, ShortBranch, LongWay}
MCMaxCalls == TwoBranches :> 1 @@ InvalidBranch :> 2 @@ BadBranch :> 1 @@ Rivals :> 3
                @@ OneBranch :> 1 @@ ShortBranch :> 0 @@ LongWay :> 0
=============================================================================
