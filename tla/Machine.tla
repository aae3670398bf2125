------------------------------- MODULE Machine -------------------------------
(***************************************************************************)
(* The integers of the C code.  The kernel is built for AArch64 without    *)
(* optimisation, so that signed overflow wraps.  An int has IntBits bits   *)
(* (32 in the build) and a u64 has LongBits (64); the runs use smaller     *)
(* widths, so that every value of a type is an input.                      *)
(***************************************************************************)
EXTENDS Integers

CONSTANTS IntBits, LongBits

ASSUME WidthAssumption == IntBits \in Nat /\ LongBits \in Nat /\ 4 <= IntBits /\ IntBits <= LongBits
ASSUME PowerAssumption ==  \* arithmetic, for the provers
  /\ 2^IntBits \in Nat /\ 2^LongBits \in Nat /\ 2^(IntBits - 1) \in Nat
  /\ 8 <= 2^(IntBits - 1) /\ 2^IntBits = 2 * 2^(IntBits - 1) /\ 2^IntBits <= 2^LongBits

\* The values of an unsigned int, a u64 and a non-negative int.
UInt == 0 .. 2^IntBits - 1
ULong == 0 .. 2^LongBits - 1
PosInt == 0 .. 2^(IntBits - 1) - 1

\* What is kept of n in an unsigned int, in a u64 and in an int.
ToUInt(n) == n % 2^IntBits
ToULong(n) == n % 2^LongBits
ToInt(n) == IF ToUInt(n) \in PosInt THEN ToUInt(n) ELSE ToUInt(n) - 2^IntBits

\* udiv: a division by zero gives zero and does not trap.
UDiv(a, b) == IF b = 0 THEN 0 ELSE a \div b
=============================================================================
