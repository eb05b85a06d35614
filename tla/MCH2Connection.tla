---------------------------- MODULE MCH2Connection ----------------------------
EXTENDS H2ConnectionClaims, TLC
Symmetry == Permutations(Tasks)
===============================================================================
