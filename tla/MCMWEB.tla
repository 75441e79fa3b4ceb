------------------------------- MODULE MCMWEB -------------------------------
(***************************************************************************)
(* A small tree for MWEBNode.  Block a2 spends an output of a1 and one of  *)
(* its own; b2 adds an output again that b1 spent; the leaves of the two   *)
(* branches differ from the first on, and a byte of the leaf set has two   *)
(* bits.                                                                   *)
(***************************************************************************)
EXTENDS MWEBNode

MCBlocks == {"g", "a1", "a2", "b1", "b2"}
MCParent == "a1" :> "g" @@ "a2" :> "a1" @@ "b1" :> "g" @@ "b2" :> "b1"
MCOutputs == "g" :> <<"p">> @@ "a1" :> <<"q", "r">> @@ "a2" :> <<"s">>
          @@ "b1" :> <<"s">> @@ "b2" :> <<"p", "r">>
MCInputs == "g" :> <<>> @@ "a1" :> <<"p">> @@ "a2" :> <<"q", "s">> @@ "b1" :> <<"p">> @@ "b2" :> <<"s">>
MCIDs == {"p", "q", "r", "s"}
=============================================================================
