----------------------------- MODULE MCConsole -----------------------------
(* Console for TLC: a program "b", a command "bb", lines of up to four characters. *)
EXTENDS Console

CONSTANTS sh, p1

MCWriters == {sh, p1}
MCProgs == {p1}
MCCommands == {<<98, 98>>}
MCNames == {<<98>>}
MCTyped == {98, 32, 127}
=============================================================================
