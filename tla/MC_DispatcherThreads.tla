------------------------ MODULE MC_DispatcherThreads ------------------------
(* Model-checking instance of DispatcherThreads: host threads, root ids   *)
(* and call tokens are model values.                                       *)
EXTENDS DispatcherThreads

CONSTANTS w1, w2, r1, r2, k1, k2

MC_OneThread == {w1}
MC_TwoThreads == {w1, w2}
MC_Ids == {r1}
MC_Tokens == {k1}
MC_TwoIds == {r1, r2}
MC_TwoTokens == {k1, k2}

(* Threads are interchangeable: no action or property orders them.        *)
MC_Symmetry == Permutations(MC_TwoThreads)
=============================================================================
