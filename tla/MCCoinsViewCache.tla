-------------------------- MODULE MCCoinsViewCache --------------------------
(***************************************************************************)
(* Instances of CoinsViewCache: a coin whose script is stored inline and   *)
(* uses no heap memory, and one whose script does.                         *)
(***************************************************************************)
EXTENDS CoinsViewCache, TLC

CONSTANTS small, large

MCCoins == {small, large}
MCCoinUsage == small :> 0 @@ large :> 2

=============================================================================
