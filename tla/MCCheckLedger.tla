---------------------------- MODULE MCCheckLedger ----------------------------
EXTENDS CheckLedgerRefinement, TLC

CONSTANTS m1, c1, c2, s1, s2, w1, w2

\* Checks, schedulers and workers are interchangeable in the safety runs.
Symmetry == Permutations({c1, c2}) \cup Permutations({s1, s2}) \cup Permutations({w1, w2})
=============================================================================
