---------------------------- MODULE MCLoginLimiter ----------------------------
EXTENDS LoginLimiter, TLC

Symmetry == Permutations(Attempts)
=============================================================================
