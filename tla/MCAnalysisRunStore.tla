-------------------------- MODULE MCAnalysisRunStore --------------------------
(* Bounded instance of the Analysis Run Store, under arbitrary callers. *)
EXTENDS AnalysisRunStore, TLC

CONSTANTS r1, r2, a1, a2, w1, w2, c1, c2, c3, k1, k2

OneCandidate == {<<a1>>}

TwoCandidates == {<<a1, a2>>}

Symmetry == Permutations(Runs) \cup Permutations(Keys)
             \cup Permutations(Workers) \cup Permutations(Calls)

=============================================================================
