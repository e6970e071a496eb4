---------------------------- MODULE MCAnalysisRuns ----------------------------
(* Bounded instances of Analysis Runs. *)
EXTENDS AnalysisRuns, TLC

CONSTANTS r1, r2, a1, a2, a3, w1, w2, s1, s2, c1, c2, c3, c4, c5, k1, k2

\* The queue of one Application, and the empty one when it is analyzed.
OneApplication == {<<>>, <<a1>>}

\* Of three Applications a target of one admits two.
PairOfThree == {<<>>, <<a1>>, <<a2, a1>>, <<a1, a2>>, <<a2, a3>>, <<a1, a3>>, <<a3>>, <<a2>>}

WorkersAlike == Permutations(Workers)

=============================================================================
