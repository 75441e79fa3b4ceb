------------------------------ MODULE UTXOStack ------------------------------
(***************************************************************************)
(* What the stack of coin views promises: nested versions of one UTXO map, *)
(* each with the block it belongs to.  A write changes the newest version  *)
(* only; committing it makes the version below equal to it; discarding it  *)
(* leaves every version below as it was.  There are no caches, flags or    *)
(* lookups here.                                                           *)
(***************************************************************************)
EXTENDS Integers

CONSTANTS OutPoints, Coins, Spent, Blocks, NullHash, Depth

VARIABLES depth,   \* the newest version; version 0 is the database
          utxo,    \* utxo[i][o]: the coin at o in version i, or Spent
          best     \* best[i]: the block version i belongs to

vars == <<depth, utxo, best>>

Init == /\ depth = 1
        /\ \E m \in [OutPoints -> Coins \cup {Spent}] : utxo = [i \in 0..1 |-> m]
        /\ \E b \in Blocks \cup {NullHash} : best = [i \in 0..1 |-> b]

Write(o, c) == /\ utxo' = [utxo EXCEPT ![depth][o] = c]
               /\ UNCHANGED <<depth, best>>

SetBest(b) == /\ best' = [best EXCEPT ![depth] = b]
              /\ UNCHANGED <<depth, utxo>>

Open == /\ depth < Depth
        /\ depth' = depth + 1
        /\ utxo' = [i \in 0..depth' |-> utxo[IF i <= depth THEN i ELSE depth]]
        /\ best' = [i \in 0..depth' |-> best[IF i <= depth THEN i ELSE depth]]

Discard == /\ depth > 1
           /\ depth' = depth - 1
           /\ utxo' = [i \in 0..depth' |-> utxo[i]]
           /\ best' = [i \in 0..depth' |-> best[i]]

Commit == /\ utxo' = [utxo EXCEPT ![depth - 1] = utxo[depth]]
          /\ best' = [best EXCEPT ![depth - 1] = best[depth]]
          /\ depth' = depth

Next == \/ \E o \in OutPoints, c \in Coins \cup {Spent} : Write(o, c)
        \/ \E b \in Blocks : SetBest(b)
        \/ Open \/ Discard \/ Commit

Spec == Init /\ [][Next]_vars
=============================================================================
