---------------------------- MODULE MCScheduler ----------------------------
(* Scheduler for TLC: two cores, four pages. *)
EXTENDS Scheduler, TLC

CONSTANTS c1, c2

MCCore == {c1, c2}
Symmetry == Permutations(MCCore)
=============================================================================
