------------------------------- MODULE Pages --------------------------------
(***************************************************************************)
(* What get_free_page and free_page promise to the code above them, and    *)
(* what that code has to keep in return.  A page is either in use or free; *)
(* the free page given out is the first one; a page comes back cleared;    *)
(* and nobody writes to a page that is not in use.                         *)
(***************************************************************************)
EXTENDS Integers

CONSTANTS Page,   \* the pages by number
          Clear   \* Clear[p]: what page p holds when it is cleared

VARIABLES used,    \* the pages in use
          content  \* content[p]: what page p holds

vars == <<used, content>>

\* Only the pages of S may have changed.
Keeps(S) == \A p \in Page \ S : content'[p] = content[p]

Init == used \subseteq Page

\* The first free page; who takes it may fill it in.
Take(p) ==
  /\ p \in Page \ used
  /\ \A q \in Page \ used : p <= q
  /\ used' = used \cup {p}
  /\ Keeps(used')

Give(p) ==
  /\ p \in used
  /\ used' = used \ {p}
  /\ content'[p] = Clear[p]
  /\ Keeps(used)

Write == used' = used /\ Keeps(used)

Next == (\E p \in Page : Take(p) \/ Give(p)) \/ Write

Spec == Init /\ [][Next]_vars
=============================================================================
