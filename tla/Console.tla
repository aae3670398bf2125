------------------------------- MODULE Console -------------------------------
(***************************************************************************)
(* The shell of src/shell.c at the UART: its loop, the command buffer,     *)
(* parse_command, and the programs it starts, which hold pointers into the *)
(* buffer while the user types on.  A pointer is an offset into the buffer.*)
(***************************************************************************)
EXTENDS Text, Uart

CONSTANTS
  Shell, Progs,    \* the writers: the shell and the processes it can start
  Commands, Names, \* the names of commands and of programs
  Typed,           \* the characters the user types
  Message, Prompt, \* bytes of a command's output, of a prompt
  BufferSize,      \* CMD_BUFFER_SIZE, 128
  MaxArgs,         \* MAX_SHELL_ARGS, 16
  MaxLine          \* bound: characters of a line, which the code does not count

ASSUME ConsoleAssumption ==
  /\ Writers = Progs \cup {Shell} /\ Shell \notin Progs
  /\ Typed \subseteq 0 .. 255 /\ MaxArgs \in Nat
  /\ BufferSize \in Nat /\ MaxLine \in Nat /\ MaxLine < BufferSize

Return == 13
Backspace == 127
Null == "null"

VARIABLES
  pc,             \* the shell: start, getc, store, parse
  ch,             \* the character taken
  commandbuffer, ci, args,
  line,           \* history: the line as it was taken
  prog            \* the processes: free, or argc and, as history, the arguments
                  \* typed and whether they belong to the last line

cvars == <<pc, ch, commandbuffer, ci, args, line, prog>>
vars == <<cvars, uvars>>

Free == [argc |-> 0, typed |-> <<>>, last |-> FALSE]

Init ==
  /\ UInit
  /\ pc = "start" /\ ch = 0
  /\ commandbuffer = [i \in 0 .. BufferSize - 1 |-> 0] /\ ci = 0
  /\ args = [k \in 0 .. MaxArgs + 2 |-> Null]
  /\ line = <<>>
  /\ prog = [p \in Progs |-> Free]

\* Faulty: the space stays in the buffer.
ParseUncut(s, i) ==
  IF s.ignored \/ s.argc > MaxArgs THEN [s EXCEPT !.ignored = TRUE]
  ELSE IF s.buf[i] = Space THEN [s EXCEPT !.args[s.argc] = s.start, !.argc = @ + 1, !.start = i + 1]
  ELSE s

\* The loop of parse_command, at the character at place i: a space ends an
\* argument and becomes its terminator.  A line with more arguments is ignored.
ParseChar(s, i) ==
  IF s.ignored \/ s.argc > MaxArgs THEN [s EXCEPT !.ignored = TRUE]
  ELSE IF s.buf[i] = Space THEN [s EXCEPT !.args[s.argc] = s.start, !.argc = @ + 1, !.buf[i] = 0, !.start = i + 1]
  ELSE s

parse_command(buf, ptrs) ==
  LET after[i \in 0 .. strlen(buf, 0)] ==
        IF i = 0 THEN [argc |-> 0, start |-> 0, buf |-> buf, args |-> ptrs, ignored |-> FALSE]
        ELSE ParseChar(after[i - 1], i - 1)
      end == after[strlen(buf, 0)]
  IN IF end.ignored THEN end ELSE [end EXCEPT !.args[end.argc] = end.start, !.args[end.argc + 1] = Null, !.argc = @ + 1]

\* The strings that argv points to.
Strings(r) == [k \in 1 .. r.argc |-> StringAt(r.buf, r.args[k - 1])]
-----------------------------------------------------------------------------
Ready(place) == pc = place /\ left[Shell] = 0

Start ==
  /\ Ready("start") /\ pc' = "getc"
  /\ Output(Shell, Bytes(Prompt, 1))
  /\ UNCHANGED <<ch, commandbuffer, ci, args, line, prog>>

\* A backspace is answered and otherwise ignored.
GetBackspace ==
  /\ Ready("getc") /\ Backspace \in Typed
  /\ Output(Shell, Bytes(Message, 1))
  /\ UNCHANGED cvars

GetReturn ==
  /\ Ready("getc") /\ pc' = "parse"
  /\ commandbuffer' = [commandbuffer EXCEPT ![ci] = 0] /\ ci' = 0
  /\ prog' = [p \in Progs |-> [prog[p] EXCEPT !.last = FALSE]]
  /\ Output(Shell, Bytes(0, 1))
  /\ UNCHANGED <<ch, args, line>>

\* Any other character is echoed, then stored.
GetChar(c) ==
  /\ Ready("getc") /\ c \notin {Return, Backspace} /\ ci < MaxLine
  /\ pc' = "store" /\ ch' = c
  /\ Output(Shell, Bytes(1, 0))
  /\ UNCHANGED <<commandbuffer, ci, args, line, prog>>

\* Faulty: the buffer is kept terminated.
StoreTerminated ==
  /\ Ready("store") /\ pc' = "getc"
  /\ commandbuffer' = [commandbuffer EXCEPT ![ci] = ch, ![ci + 1] = 0] /\ ci' = ci + 1
  /\ line' = Append(line, ch)
  /\ UNCHANGED <<ch, args, prog, uvars>>

StoreChar ==
  /\ Ready("store") /\ pc' = "getc"
  /\ commandbuffer' = [commandbuffer EXCEPT ![ci] = ch] /\ ci' = ci + 1
  /\ line' = Append(line, ch)
  /\ UNCHANGED <<ch, args, prog, uvars>>

Is(name, set) == \E n \in set : strcmp(name, n) = 0

\* parse_command.  A command runs here and prints; a program becomes a process,
\* if there is a page for it, that gets the pointers and not the strings.
ParseCommand ==
  /\ Ready("parse") /\ pc' = "getc"
  /\ LET r == parse_command(commandbuffer, args)
         argv == Strings(r)
     IN /\ commandbuffer' = r.buf /\ args' = r.args
        /\ Output(Shell, Prompt + (IF ~r.ignored /\ Is(argv[1], Commands) THEN Bytes(Message, 1) ELSE 0))
        /\ \/ UNCHANGED prog
           \/ /\ ~r.ignored /\ Is(argv[1], Names)
              /\ \E p \in Progs : prog[p] = Free /\ prog' = [prog EXCEPT ![p] = [argc |-> r.argc, typed |-> argv, last |-> TRUE]]
  /\ line' = <<>>
  /\ UNCHANGED <<ch, ci>>

\* A program prints, and ends.
PrintLine(p) == prog[p] # Free /\ Output(p, Bytes(Message, 1)) /\ UNCHANGED cvars
Exit(p) ==
  /\ prog[p] # Free /\ left[p] = 0
  /\ prog' = [prog EXCEPT ![p] = Free]
  /\ UNCHANGED <<pc, ch, commandbuffer, ci, args, line, uvars>>

Next ==
  \/ Start \/ GetBackspace \/ GetReturn \/ StoreChar \/ ParseCommand
  \/ \E c \in Typed : GetChar(c)
  \/ \E p \in Progs : PrintLine(p) \/ Exit(p)
  \/ UNext /\ UNCHANGED cvars

Spec == Init /\ [][Next]_vars
-----------------------------------------------------------------------------
(* Properties *)

Joined(strings) ==
  LET upto[k \in 1 .. Len(strings)] == IF k = 1 THEN strings[1] ELSE upto[k - 1] \o <<Space>> \o strings[k]
  IN upto[Len(strings)]

\* What parse_command hands out is the line the user typed, whatever older
\* lines left in the buffer: its arguments joined by spaces give the line, none
\* contains one, and a null pointer follows them.  A line is ignored if and
\* only if a character follows the first MAX_SHELL_ARGS + 1 of its spaces.
CommandParsed ==
  pc = "parse" =>
    LET r == parse_command(commandbuffer, args)
    IN /\ r.argc <= MaxArgs + 2
       /\ r.ignored <=> \E i \in 2 .. Len(line) : Cardinality({j \in 1 .. i - 1 : line[j] = Space}) > MaxArgs
       /\ ~r.ignored => /\ Joined(Strings(r)) = line
                        /\ \A s \in {Strings(r)[k] : k \in 1 .. r.argc} : \A i \in DOMAIN s : s[i] # Space
                        /\ r.args[r.argc] = Null

\* A program finds an argument as it was typed until the user has typed past the
\* place of the argument, or ended another line (shell.c:105,148): up to then
\* the pointers it got are good.
ArgsIntactUntilOverwritten ==
  \A p \in Progs : prog[p].last =>
    \A k \in 1 .. prog[p].argc : ci <= args[k - 1] => StringAt(commandbuffer, args[k - 1]) = prog[p].typed[k]
=============================================================================
