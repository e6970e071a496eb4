-------------------------- MODULE MCDashboardSession --------------------------
(* Bounded instances of the Dashboard session. *)
EXTENDS DashboardSession, TLC

CONSTANTS t1, t2, p1, p2

SlotsAlike == Permutations(PollSlots) \cup Permutations(Slots \ PollSlots)

=============================================================================
