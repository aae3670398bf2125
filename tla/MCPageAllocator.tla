-------------------------- MODULE MCPageAllocator --------------------------
(* PageAllocator for TLC: three callers, three pages. *)
EXTENDS PageAllocator, TLC

CONSTANTS a1, a2, a3

MCCaller == {a1, a2, a3}
Symmetry == Permutations(MCCaller)
=============================================================================
