----------------------------- MODULE MCSpinlock -----------------------------
(* Spinlock for TLC: three cores race for one lock word. *)
EXTENDS Spinlock, TLC

CONSTANTS c1, c2, c3

MCCore == {c1, c2, c3}
=============================================================================
