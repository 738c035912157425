---------------------------- MODULE MCTokenBucket ----------------------------
EXTENDS TokenBucket, TLC

Symmetry == Permutations(Calls)
=============================================================================
