------------------------------ MODULE Graphics ------------------------------
(***************************************************************************)
(* The framebuffer: fbinit and fbsetres with mbox_call and the VideoCore   *)
(* that answers it (fb.c, mbox.c), text (font.c) and drawing (gfx.c).      *)
(* A pixel is its number from fb.ptr on, in 32-bit words; the colours are  *)
(* left out (the programs clear with 0), wheel excepted.                   *)
(***************************************************************************)
EXTENDS Machine, Sequences, FiniteSets

CONSTANTS
  Resolution,   \* the <<width, height>> a caller asks for or the VideoCore sets
  CharWidth, CharHeight,              \* 14 and 18
  FirstLine,                          \* cursor_y after fbinit, 128
  BootText,                           \* what fbinit prints: "glyph", "lf", "cr"
  SquareSize,                         \* 32
  LogoWidth, LogoHeight, Opaque,      \* the picture: <<row, column>> that are not 0
  Place,                              \* the coordinates programs draw at
  MaxLineFeeds, FifoDepth             \* bounds: line feeds in a row, mailbox entries

ASSUME ScreenAssumption ==
  /\ Resolution \subseteq UInt \X UInt /\ Place \subseteq Nat /\ FirstLine \in Nat
  /\ {CharWidth, CharHeight, SquareSize} \subseteq Nat \ {0}
  /\ BootText \in Seq({"glyph", "lf", "cr"})
  /\ {LogoWidth, LogoHeight} \subseteq Nat \ {0} /\ Opaque \subseteq (0 .. LogoHeight - 1) \X (0 .. LogoWidth - 1)

VARIABLES
  pc,      \* the caller of mbox_call: idle, mbox_write, mbox_read, returned; or fbputs
  caller,  \* fbinit or fbsetres, the last one called
  full,    \* the mailbox takes no word at present
  fifo,    \* the words mbox_read will give: of our request, or of others
  mbox,    \* the request, later the answer
  fb,      \* struct FrameBuffer; by is who set it, lf counts the line feeds since
           \* the last glyph
  chars,   \* what fbputs or pf_fbputc has still to print
  last     \* what the last drawing call wrote: glyphs, and pixel numbers; and
           \* the shape it was asked for, with its place

gvars == <<pc, caller, full, fifo, mbox, fb, chars, last>>

NoShape == [shape |-> "none", x |-> 0, y |-> 0]
Nothing == [glyphs |-> {}, pixels |-> {}, wiped |-> {}, asked |-> NoShape]
NoFramebuffer == [by |-> "none", ptr |-> "null", width |-> 0, height |-> 0, pitch |-> 0, x |-> 0, y |-> 0, lf |-> 0]
Request(r) == [code |-> "request", depth |-> 32, width |-> r[1], height |-> r[2], pitch |-> 0, ptr |-> "align"]

GInit ==
  /\ pc = "idle" /\ caller = "none" /\ full = FALSE /\ fifo = <<>>
  /\ mbox = [Request(<<0, 0>>) EXCEPT !.ptr = "zero"]
  /\ fb = NoFramebuffer /\ chars = <<>> /\ last = Nothing
-----------------------------------------------------------------------------
\* Drawing: operators from a framebuffer to what a call leaves.

\* fbclear stores a u64, two pixels, for every pixel; pitch counts bytes.
Wiped(f) == {2 * (y * (f.width + ToUInt(f.pitch - 4 * f.width)) + x) + k : x \in 0 .. f.width - 1, y \in 0 .. f.height - 1, k \in {0, 1}}

fbclear(s) == [fb |-> [s.fb EXCEPT !.x = 0, !.y = 0], last |-> [s.last EXCEPT !.wiped = Wiped(s.fb)]]

\* Faulty: a line is wrapped when the next glyph no longer starts on it.
WrapLate(f) == IF f.x >= f.width THEN [f EXCEPT !.x = 0, !.y = @ + CharHeight] ELSE f

Wrap(f) == IF f.x >= ToUInt(f.width - CharWidth) THEN [f EXCEPT !.x = 0, !.y = @ + CharHeight] ELSE f
Advance(f) == IF f.x < ToUInt(f.width - CharWidth) THEN [f EXCEPT !.x = @ + CharWidth] ELSE [f EXCEPT !.x = 0, !.y = @ + CharHeight]

\* fbputc: a line feed returns before the test for the end of the screen.
fbputc(s, c) ==
  CASE c = "lf" -> [s EXCEPT !.fb.y = @ + CharHeight, !.fb.lf = @ + 1]
    [] c = "cr" -> [s EXCEPT !.fb.x = 0]
    [] c = "glyph" ->
         LET at == Wrap(s.fb)
             drawn == [fb |-> [Advance(at) EXCEPT !.lf = 0],
                       last |-> [s.last EXCEPT !.glyphs = @ \cup {[x |-> at.x, y |-> at.y, lf |-> at.lf]}]]
         IN IF drawn.fb.y + CharHeight > at.height THEN fbclear(drawn) ELSE drawn

\* The picture: where its pixels are not 0.
pi_logo == [width |-> LogoWidth, height |-> LogoHeight, opaque |-> Opaque]

\* draw_rect and draw_pi_logo_at_pos step through memory row by row.
draw_rect(f, x, y, w, h) == {x + f.width * y + row * (w + ToUInt(f.width - w)) + col : row \in 0 .. h - 1, col \in 0 .. w - 1}
draw_pi_logo_at_pos(f, x, y) ==
  LET out == {x + f.width * y + p[1] * (pi_logo.width + ToUInt(f.width - pi_logo.width)) + p[2] : p \in pi_logo.opaque}
  IN {n \in out : n >= 0}

wheel(color) ==
  LET pos == 255 - color
  IN CASE pos < 85 -> <<255 - pos * 3, 0, pos * 3>>
       [] pos \in 85 .. 169 -> <<255 - (pos - 85) * 3, (pos - 85) * 3, 0>>
       [] OTHER -> <<(pos - 170) * 3, 255 - (pos - 170) * 3, 0>>
-----------------------------------------------------------------------------
\* fbinit and fbsetres write the request and call mbox_call.
Ask(who, r) ==
  /\ pc = "idle" /\ pc' = "mbox_write"
  /\ caller' = who /\ mbox' = Request(r)
  /\ UNCHANGED <<full, fifo, fb, chars, last>>

MboxWrite ==
  /\ pc = "mbox_write" /\ ~full
  /\ pc' = "mbox_read"
  /\ UNCHANGED <<caller, full, fifo, mbox, fb, chars, last>>

\* Faulty: any word is taken for the answer.
MboxReturnAny ==
  /\ pc = "mbox_read" /\ fifo # <<>>
  /\ pc' = "returned" /\ fifo' = Tail(fifo)
  /\ UNCHANGED <<caller, full, mbox, fb, chars, last>>

\* A word of another request is dropped; ours ends the call.
MboxDiscard ==
  /\ pc = "mbox_read" /\ fifo # <<>> /\ Head(fifo) # "own"
  /\ fifo' = Tail(fifo)
  /\ UNCHANGED <<pc, caller, full, mbox, fb, chars, last>>

MboxReturn ==
  /\ pc = "mbox_read" /\ fifo # <<>> /\ Head(fifo) = "own"
  /\ pc' = "returned" /\ fifo' = Tail(fifo)
  /\ UNCHANGED <<caller, full, mbox, fb, chars, last>>

\* The VideoCore: it answers, other words arrive, its queue fills and empties.
\* An error leaves the values of the request in place.
VcAnswer ==
  /\ pc = "mbox_read" /\ mbox.code = "request" /\ Len(fifo) < FifoDepth
  /\ \/ \E r \in Resolution, depth \in {32, 16}, p \in {"bus", "zero"} :
          mbox' = [code |-> "ok", depth |-> depth, width |-> r[1], height |-> r[2], pitch |-> 4 * r[1], ptr |-> p]
     \/ mbox' = [mbox EXCEPT !.code = "error"]
  /\ fifo' = Append(fifo, "own")
  /\ UNCHANGED <<pc, caller, full, fb, chars, last>>

VcOther ==
  /\ pc \in {"mbox_write", "mbox_read"} /\ Len(fifo) < FifoDepth - 1
  /\ fifo' = Append(fifo, "other")
  /\ UNCHANGED <<pc, caller, full, mbox, fb, chars, last>>

VcQueue ==
  /\ pc = "mbox_write" /\ full' = ~full
  /\ UNCHANGED <<pc, caller, fifo, mbox, fb, chars, last>>
-----------------------------------------------------------------------------
\* The address of the VideoCore's bus without its two top bits.
ArmAddress(p) == IF p = "bus" THEN "arm" ELSE p

FbInitDone ==
  /\ pc = "returned" /\ caller = "fbinit"
  /\ IF mbox.code # "request" /\ mbox.depth = 32 /\ mbox.ptr # "zero"
     THEN LET f == [by |-> "fbinit", ptr |-> ArmAddress(mbox.ptr), width |-> mbox.width, height |-> mbox.height,
                    pitch |-> mbox.pitch, x |-> 0, y |-> FirstLine, lf |-> 0]
          IN /\ fb' = f /\ last' = [Nothing EXCEPT !.pixels = draw_pi_logo_at_pos(f, 0, 0), !.asked = [shape |-> "logo", x |-> 0, y |-> 0]]
             /\ chars' = BootText /\ pc' = "fbputs"
     ELSE pc' = "idle" /\ UNCHANGED <<fb, chars, last>>
  /\ UNCHANGED <<caller, full, fifo, mbox>>

FbSetResDone ==
  /\ pc = "returned" /\ caller = "fbsetres" /\ pc' = "idle"
  /\ fb' = [fb EXCEPT !.by = "fbsetres", !.width = mbox.width, !.height = mbox.height, !.pitch = mbox.pitch, !.ptr = mbox.ptr]
  /\ last' = Nothing
  /\ UNCHANGED <<caller, full, fifo, mbox, chars>>

Draws(s) == fb' = s.fb /\ last' = s.last /\ UNCHANGED <<caller, full, fifo, mbox>>

\* fbprintf, through pf_fbputc: \n becomes \r\n.
PfFbputc(c) ==
  /\ pc = "idle" /\ fb.ptr # "null" /\ (c = "lf" => fb.lf < MaxLineFeeds)
  /\ pc' = "fbputs" /\ chars' = IF c = "lf" THEN <<"cr", "lf">> ELSE <<c>>
  /\ UNCHANGED <<caller, full, fifo, mbox, fb, last>>

\* The loop of fbputs: a character, or the end of the string.
Fbputs ==
  /\ pc = "fbputs" /\ chars # <<>>
  /\ chars' = Tail(chars) /\ Draws(fbputc([fb |-> fb, last |-> Nothing], Head(chars)))
  /\ UNCHANGED pc

FbputsReturn ==
  /\ pc = "fbputs" /\ chars = <<>>
  /\ pc' = "idle"
  /\ UNCHANGED <<caller, full, fifo, mbox, fb, chars, last>>

\* The programs clear, colors and pi_logo; only clear looks at fb.ptr.
ClearFramebuffer ==
  /\ pc = "idle" /\ Draws(IF fb.ptr = "null" THEN [fb |-> fb, last |-> Nothing] ELSE fbclear([fb |-> fb, last |-> Nothing]))
  /\ UNCHANGED <<pc, chars>>

\* Without a place to draw at, colors and pi_logo exit.
TooFewArguments(argc) ==
  /\ pc = "idle" /\ argc < 3
  /\ Draws([fb |-> fb, last |-> Nothing]) /\ UNCHANGED <<pc, chars>>

DrawShape(what, x, y, pixels) ==
  /\ pc = "idle"
  /\ Draws([fb |-> fb, last |-> [Nothing EXCEPT !.pixels = pixels, !.asked = [shape |-> what, x |-> x, y |-> y]]])
  /\ UNCHANGED <<pc, chars>>

RainbowSquare(argc, x, y) ==
  \/ TooFewArguments(argc)
  \/ argc >= 3 /\ DrawShape("square", x, y, draw_rect(fb, x, y, SquareSize, SquareSize))

DrawPiLogo(argc, x, y) ==
  \/ TooFewArguments(argc)
  \/ argc >= 3 /\ DrawShape("logo", x, y, draw_pi_logo_at_pos(fb, x, y))

GNext ==
  \/ \E who \in {"fbinit", "fbsetres"}, r \in Resolution : Ask(who, r)
  \/ MboxWrite \/ MboxDiscard \/ MboxReturn
  \/ VcAnswer \/ VcOther \/ VcQueue
  \/ FbInitDone \/ FbSetResDone
  \/ \E c \in {"glyph", "lf", "cr"} : PfFbputc(c)
  \/ Fbputs \/ FbputsReturn \/ ClearFramebuffer
  \/ \E argc \in 1 .. 3, x, y \in Place : RainbowSquare(argc, x, y) \/ DrawPiLogo(argc, x, y)
-----------------------------------------------------------------------------
(* Properties *)

\* A glyph never crosses the right edge, and below the last line there is
\* at most one line more than line feeds came since the glyph before it: only
\* a glyph, not a line feed or a wrap, is followed by the test for the end.
GlyphsOnScreen ==
  fb.by = "fbinit" => \A g \in last.glyphs : /\ g.x + CharWidth <= fb.width
                                            /\ g.y <= fb.height + g.lf * CharHeight

\* Clearing leaves no pixel of the screen, although fbclear steps through
\* memory by two pixels; it then also writes as much again behind it.
ClearFillsScreen ==
  last.wiped # {} /\ fb.pitch = 4 * fb.width => 0 .. fb.width * fb.height - 1 \subseteq last.wiped

\* The dots of a shape, by row and column, and its extent.
ShapeDots == [square |-> (0 .. SquareSize - 1) \X (0 .. SquareSize - 1), logo |-> Opaque]
ShapeSize == [square |-> <<SquareSize, SquareSize>>, logo |-> <<LogoWidth, LogoHeight>>]

\* A square or a logo that fits is drawn where it was asked for and nowhere
\* else, also by fbinit.
ShapesInPlace ==
  LET s == last.asked.shape   x == last.asked.x   y == last.asked.y
  IN s # "none" /\ x + ShapeSize[s][1] <= fb.width /\ y + ShapeSize[s][2] <= fb.height =>
       last.pixels = {p \in 0 .. fb.width * fb.height - 1 : <<(p \div fb.width) - y, (p % fb.width) - x>> \in ShapeDots[s]}

\* Text, clearing, squares and the logo write the pixels they should.
DrawnWhereMeant == GlyphsOnScreen /\ ClearFillsScreen /\ ShapesInPlace

\* mbox_call "returns 0 on failure" (mbox.c:7), and fbinit tests the result: it
\* goes on to draw and print only on a framebuffer that the VideoCore granted.
FramebufferGranted == caller = "fbinit" /\ pc = "fbputs" /\ chars = BootText => mbox.code = "ok"

\* mbox_call returns only when the VideoCore has written its answer over the
\* request, whatever else arrives in the mailbox in between.
AnswerBeforeUse == pc = "returned" => mbox.code # "request"
=============================================================================
