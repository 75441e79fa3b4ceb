------------------------------ MODULE MCCoinsDB ------------------------------
(***************************************************************************)
(* A small block tree for CoinsDB: two branches after the genesis block.   *)
(* Output p is created on both, at different heights and so with different *)
(* coins; q is created after p is spent; s is created and spent within one *)
(* block, and r on one branch only.                                        *)
(***************************************************************************)
EXTENDS CoinsDB, TLC

MCBlocks == {"g", "a1", "a2", "b1", "b2"}
MCParent == "g" :> "null" @@ "a1" :> "g" @@ "a2" :> "a1" @@ "b1" :> "g" @@ "b2" :> "b1"
MCAncestors[b \in MCBlocks] == {b} \cup (IF b = "g" THEN {} ELSE MCAncestors[MCParent[b]])
MCHeight[b \in MCBlocks] == IF b = "g" THEN 0 ELSE MCHeight[MCParent[b]] + 1

MCOutPoints == {"p", "q", "r", "s"}
MCCoins == {"height 1", "height 2"}
None == [o \in MCOutPoints |-> "spent"]
MCCreates == "g" :> None
          @@ "a1" :> [None EXCEPT !["p"] = "height 1", !["s"] = "height 1"]
          @@ "a2" :> [None EXCEPT !["q"] = "height 2"]
          @@ "b1" :> [None EXCEPT !["r"] = "height 1"]
          @@ "b2" :> [None EXCEPT !["p"] = "height 2"]
MCSpends == "g" :> {} @@ "a1" :> {"s"} @@ "a2" :> {"p"} @@ "b1" :> {} @@ "b2" :> {"r"}
MCUTXO[b \in MCBlocks \cup {"null"}] ==
    IF b \in {"g", "null"} THEN None
    ELSE [o \in MCOutPoints |-> IF o \in MCSpends[b] THEN "spent"
                                ELSE IF MCCreates[b][o] # "spent" THEN MCCreates[b][o]
                                ELSE MCUTXO[MCParent[b]][o]]
=============================================================================
