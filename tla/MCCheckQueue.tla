---------------------------- MODULE MCCheckQueue ----------------------------
EXTENDS CheckQueue, TLC

CONSTANTS w1, w2, m1, m2, c1, c2, c3, c4

\* Workers are alike, and so are masters and checks with the same result.
Symmetry == Permutations({w1, w2}) \cup Permutations({m1, m2}) \cup Permutations({c2, c3, c4})
=============================================================================
