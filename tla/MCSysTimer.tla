----------------------------- MODULE MCSysTimer -----------------------------
(* SysTimer for TLC: two cores, a second of four ticks, a register of 64 values. *)
EXTENDS SysTimer

MCCores == {0, 1}
MCStart == {58}
MCDelay == {2, 5}
=============================================================================
