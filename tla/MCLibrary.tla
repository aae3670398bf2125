----------------------------- MODULE MCLibrary -----------------------------
(* Library for TLC: ints of 8 bits, a screen of 7 by 6 pixels. *)
EXTENDS Library

MCNumber == 0 .. 15
MCWidth == {0, 1, 4, 12}
MCWord == {<<>>, <<97>>, <<98>>, <<97, 98>>, <<97, 98, 99>>}
MCFuncSelect == {0, 2^30 - 1, 613566756}
MCEntry == {0, 1, 2} \X ({0, 15, 16, 17, 3839, 3840, 8190, 8191} \cup {61 * k : k \in 1 .. 134})
MCBssEnd == {720896, 720897, 720904}
MCUptime == {0, 59999, 60000, 86399999, 86400000, 273599123}
MCResolution == {<<7, 6>>, <<8, 6>>}
MCBootText == <<"lf", "glyph", "lf", "cr", "glyph">>
MCOpaque == {<<0, 0>>, <<1, 1>>, <<1, 2>>}
MCPlace == {0, 3}
=============================================================================
