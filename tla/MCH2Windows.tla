----------------------------- MODULE MCH2Windows -----------------------------
EXTENDS H2SendWire, TLC
Symmetry == Permutations(Tasks)
===============================================================================
