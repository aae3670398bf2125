-------------------------------- MODULE Font --------------------------------
(***************************************************************************)
(* font.h: one picture of all characters from the space on, 18 in a row,   *)
(* which font.c reads pixel by pixel.  Every character is drawn with dots  *)
(* of two by two pixels, five dots wide and seven high, and a margin of    *)
(* two pixels on each side.  A table below has a line for each line of     *)
(* dots and, in it, a number for each character, whose five binary digits  *)
(* are the dots from left to right.                                        *)
(***************************************************************************)
EXTENDS Integers, Sequences

fontmap == [width |-> 252, height |-> 108, cols |-> 18, rows |-> 6]
char_width == fontmap.width \div fontmap.cols
char_height == fontmap.height \div fontmap.rows
fontmap_data == 0 .. fontmap.width * fontmap.height - 1

\* From space to 1.
Dots0 == <<
  << 0,  4, 10, 10,  4, 24, 14,  4,  2,  8,  0,  0,  0,  0,  0,  0, 14,  4>>,
  << 0,  4, 10, 10, 15, 25, 18,  4,  4,  4, 21,  4,  0,  0,  0,  1, 17, 12>>,
  << 0,  4,  0, 31, 20,  2, 20,  0,  8,  2, 14,  4,  0,  0,  0,  2, 19, 20>>,
  << 0,  4,  0, 10, 14,  4,  8,  0,  8,  2, 31, 31,  0, 31,  0,  4, 21,  4>>,
  << 0,  4,  0, 31,  5,  8, 21,  0,  8,  2, 14,  4,  4,  0,  0,  8, 25,  4>>,
  << 0,  0,  0, 10, 30, 19, 18,  0,  4,  4, 21,  4,  4,  0,  0, 16, 17,  4>>,
  << 0,  4,  0, 10,  4,  3, 13,  0,  2,  8,  0,  0,  8,  0,  4,  0, 14, 31>>
>>

\* From 2 to C.
Dots1 == <<
  <<14, 14,  6, 31, 14, 31, 14, 14,  0,  0,  0,  0,  0, 14, 14, 14, 30, 14>>,
  <<17, 17, 10, 16, 16,  1, 17, 17,  4,  4,  2,  0,  8, 17, 17, 17, 17, 17>>,
  << 1,  1, 18, 16, 16,  2, 17, 17,  0,  0,  4, 31,  4, 17, 23, 17, 17, 16>>,
  << 2,  6, 31, 30, 30,  4, 14, 15,  0,  0,  8,  0,  2,  2, 21, 31, 30, 16>>,
  << 4,  1,  2,  1, 17,  8, 17,  1,  0,  4,  4, 31,  4,  4, 23, 17, 17, 16>>,
  << 8, 17,  2,  1, 17,  8, 17,  1,  4,  4,  2,  0,  8,  0, 16, 17, 17, 17>>,
  <<31, 14,  2, 30, 14,  8, 14, 14,  0,  8,  0,  0,  0,  4, 14, 17, 30, 14>>
>>

\* From D to U.
Dots2 == <<
  <<30, 31, 31, 14, 17, 31, 31, 17, 16, 17, 17, 14, 30, 14, 30, 15, 31, 17>>,
  <<17, 16, 16, 17, 17,  4,  1, 17, 16, 27, 17, 17, 17, 17, 17, 16,  4, 17>>,
  <<17, 16, 16, 16, 17,  4,  1, 18, 16, 21, 25, 17, 17, 17, 17, 16,  4, 17>>,
  <<17, 30, 30, 16, 31,  4,  1, 28, 16, 17, 21, 17, 30, 17, 30, 14,  4, 17>>,
  <<17, 16, 16, 19, 17,  4,  1, 18, 16, 17, 19, 17, 16, 21, 17,  1,  4, 17>>,
  <<17, 16, 16, 17, 17,  4, 17, 17, 16, 17, 17, 17, 16, 18, 17,  1,  4, 17>>,
  <<30, 31, 16, 14, 17, 31, 14, 17, 31, 17, 17, 14, 16, 13, 17, 30,  4, 14>>
>>

\* From V to g.
Dots3 == <<
  <<17, 17, 17, 17, 31,  6,  0, 12,  4,  0,  8,  0, 16,  0,  1,  0,  6,  0>>,
  <<17, 17, 17, 17,  1,  4, 16,  4, 10,  0,  4,  0, 16,  0,  1,  0,  8,  0>>,
  <<17, 17, 10, 10,  2,  4,  8,  4,  0,  0,  0, 14, 30, 14, 15, 14, 31, 15>>,
  <<17, 17,  4,  4,  4,  4,  4,  4,  0,  0,  0,  1, 17, 17, 17, 17,  8, 17>>,
  <<17, 21, 10,  4,  8,  4,  2,  4,  0,  0,  0, 15, 17, 16, 17, 31,  8, 15>>,
  <<10, 27, 17,  4, 16,  4,  1,  4,  0,  0,  0, 17, 17, 17, 17, 16,  8,  1>>,
  << 4, 17, 17,  4, 31,  6,  0, 12,  0, 31,  0, 15, 30, 14, 15, 15,  8, 14>>
>>

\* From h to y.
Dots4 == <<
  <<16,  4,  1, 16, 16,  0,  0,  0,  0,  0,  0,  0,  8,  0,  0,  0,  0,  0>>,
  <<16,  0,  0, 16, 16,  0,  0,  0,  0,  0,  0,  0,  8,  0,  0,  0,  0,  0>>,
  <<30, 28,  7, 18, 16, 26, 30, 14, 30, 15, 22, 15, 30, 17, 17, 17, 17, 17>>,
  <<17,  4,  1, 28, 16, 21, 17, 17, 17, 17, 25, 16,  8, 17, 17, 17, 10, 17>>,
  <<17,  4,  1, 18, 16, 21, 17, 17, 30, 15, 16, 14,  8, 17, 17, 17,  4, 15>>,
  <<17,  4, 17, 17, 16, 17, 17, 17, 16,  1, 16,  1,  9, 17, 10, 21, 10,  1>>,
  <<17, 31, 14, 17, 14, 17, 17, 14, 16,  1, 16, 30,  6, 15,  4, 10, 17, 14>>
>>

\* From z to ~, and fourteen characters without a dot.
Dots5 == <<
  << 0,  2,  4,  8,  0,  0,  0,  0,  0,  0,  0,  0,  0,  0,  0,  0,  0,  0>>,
  << 0,  4,  4,  4,  0,  0,  0,  0,  0,  0,  0,  0,  0,  0,  0,  0,  0,  0>>,
  <<31,  4,  4,  4,  9,  0,  0,  0,  0,  0,  0,  0,  0,  0,  0,  0,  0,  0>>,
  << 2,  8,  4,  2, 22,  0,  0,  0,  0,  0,  0,  0,  0,  0,  0,  0,  0,  0>>,
  << 4,  4,  4,  4,  0,  0,  0,  0,  0,  0,  0,  0,  0,  0,  0,  0,  0,  0>>,
  << 8,  4,  4,  4,  0,  0,  0,  0,  0,  0,  0,  0,  0,  0,  0,  0,  0,  0>>,
  <<31,  2,  4,  8,  0,  0,  0,  0,  0,  0,  0,  0,  0,  0,  0,  0,  0,  0>>
>>

Dots == <<Dots0, Dots1, Dots2, Dots3, Dots4, Dots5>>

\* Is a pixel of the picture 1?
Ink(p) ==
  LET x == p % fontmap.width
      y == p \div fontmap.width
      line == ((y % char_height) - 2) \div 2
      dot == ((x % char_width) - 2) \div 2
  IN /\ p \in fontmap_data /\ line \in 0 .. 6 /\ dot \in 0 .. 4
     /\ (Dots[y \div char_height + 1][line + 1][x \div char_width + 1] \div 2^(4 - dot)) % 2 = 1

\* The place in the picture that fbputc starts from; c is a u8 and wraps below
\* a space.
GlyphStart(c) ==
  LET n == (c - 32) % 256
  IN (n \div fontmap.cols) * fontmap.width * char_height + (n % fontmap.cols) * char_width

\* Faulty: at the end of a line data goes on by a line of the whole picture.
GlyphSlanted(c) == {GlyphStart(c) + y * (fontmap.width + char_width) + x : y \in 0 .. char_height - 1, x \in 0 .. char_width - 1}

\* The pixels that fbputc reads.
Glyph(c) == {GlyphStart(c) + y * fontmap.width + x : y \in 0 .. char_height - 1, x \in 0 .. char_width - 1}

\* Those it colours, as places of the cell.
Shape(c) == {p - GlyphStart(c) : p \in {q \in Glyph(c) : Ink(q)}}
=============================================================================
