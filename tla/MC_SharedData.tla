--------------------------- MODULE MC_SharedData ---------------------------
EXTENDS SharedData, TLC

CONSTANTS v1, v2, v3, v4

MC_Workers == {v1, v2, v3}
MC_FourWorkers == {v1, v2, v3, v4}
MC_Symmetry == Permutations(MC_Workers)
=============================================================================
