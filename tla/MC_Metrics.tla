----------------------------- MODULE MC_Metrics -----------------------------
(* Model-checking instance of Metrics: root ids and metric names are      *)
(* model values.                                                           *)
EXTENDS Metrics, TLC

CONSTANTS r1, n1, n2

MC_Roots == {r1}
MC_Names == {n1}
MC_TwoNames == {n1, n2}
MC_NameSymmetry == Permutations(MC_TwoNames)
MC_Kinds == {"counter", "gauge", "histogram"}
=============================================================================
