---------------------------- MODULE PageAllocator ----------------------------
(***************************************************************************)
(* get_free_page and free_page of src/memory/mm.c.  Callers are contexts of *)
(* execution, not cores: get_free_page runs with interrupts enabled when   *)
(* new_process calls it.  A page is its index in page_map.                 *)
(***************************************************************************)
EXTENDS Integers

CONSTANTS Caller,    \* the contexts that allocate and free
          NumPages,  \* NUM_PAGES, 256 in mm.h
          NULL       \* no caller

ASSUME PageAllocatorAssumption == NumPages \in Nat \ {0} /\ NULL \notin Caller

Page == 0 .. NumPages - 1

VARIABLES
  memLock,  \* the caller that owns mem_map_lock, or NULL
  pageMap,  \* page_map: pageMap[p] is TRUE when p is marked used
  zeroed,   \* zeroed[p]: every word of p is 0
  held,     \* the pages callers were given and did not pass to free_page
  pc,       \* pc[c]: where caller c is
  i,        \* i[c]: the loop variable of get_free_page, then its result
  page      \* page[c]: the argument of free_page

vars == <<memLock, pageMap, zeroed, held, pc, i, page>>

Pc == {"client", "gfp_acquire", "gfp_scan", "gfp_mark", "gfp_zero",
       "gfp_release", "gfp_full", "gfp_got", "fp_acquire", "fp_clear", "fp_zero", "fp_release"}

TypeOK ==
  /\ memLock \in Caller \cup {NULL}
  /\ pageMap \in [Page -> BOOLEAN]
  /\ zeroed \in [Page -> BOOLEAN]
  /\ held \subseteq Page
  /\ pc \in [Caller -> Pc]
  /\ i \in [Caller -> 0 .. NumPages]
  /\ page \in [Caller -> Page]

\* page_map is all zero in the image; the heap holds whatever the RAM held.
Init ==
  /\ memLock = NULL
  /\ pageMap = [p \in Page |-> FALSE]
  /\ zeroed \in [Page -> BOOLEAN]
  /\ held = {}
  /\ pc = [c \in Caller |-> "client"]
  /\ i = [c \in Caller |-> 0]
  /\ page = [c \in Caller |-> 0]

Goto(c, from, to) ==
  /\ pc[c] = from
  /\ pc' = [pc EXCEPT ![c] = to]

Lock(c) == memLock = NULL /\ memLock' = c
Unlock(c) == memLock' = NULL
-----------------------------------------------------------------------------
GetFreePage(c) ==
  /\ Goto(c, "client", "gfp_acquire")
  /\ UNCHANGED <<memLock, pageMap, zeroed, held, i, page>>

\* Faulty: the scan starts without waiting for the lock.
GfpAcquireUnlocked(c) ==
  /\ Goto(c, "gfp_acquire", "gfp_scan")
  /\ memLock' = c
  /\ i' = [i EXCEPT ![c] = 0]
  /\ UNCHANGED <<pageMap, zeroed, held, page>>

\* Faulty: the scan starts where the last one of this caller ended.
GfpAcquireNoReset(c) ==
  /\ Goto(c, "gfp_acquire", "gfp_scan")
  /\ Lock(c)
  /\ UNCHANGED <<pageMap, zeroed, held, i, page>>

GfpAcquire(c) ==
  /\ Goto(c, "gfp_acquire", "gfp_scan")
  /\ Lock(c)
  /\ i' = [i EXCEPT ![c] = 0]
  /\ UNCHANGED <<pageMap, zeroed, held, page>>

ScanNext(c) ==
  /\ pc[c] = "gfp_scan"
  /\ i[c] < NumPages
  /\ pageMap[i[c]]
  /\ i' = [i EXCEPT ![c] = @ + 1]
  /\ UNCHANGED <<memLock, pageMap, zeroed, held, pc, page>>

ScanFound(c) ==
  /\ Goto(c, "gfp_scan", "gfp_mark")
  /\ i[c] < NumPages
  /\ ~pageMap[i[c]]
  /\ UNCHANGED <<memLock, pageMap, zeroed, held, i, page>>

Mark(c) ==
  /\ Goto(c, "gfp_mark", "gfp_zero")
  /\ pageMap' = [pageMap EXCEPT ![i[c]] = TRUE]
  /\ UNCHANGED <<memLock, zeroed, held, i, page>>

\* Faulty: the found page is handed out without the clearing loop.
NoZero(c) ==
  /\ Goto(c, "gfp_zero", "gfp_release")
  /\ UNCHANGED <<memLock, pageMap, zeroed, held, i, page>>

GfpZero(c) ==
  /\ Goto(c, "gfp_zero", "gfp_release")
  /\ zeroed' = [zeroed EXCEPT ![i[c]] = TRUE]
  /\ UNCHANGED <<memLock, pageMap, held, i, page>>

GfpRelease(c) ==
  /\ Goto(c, "gfp_release", "gfp_got")
  /\ Unlock(c)
  /\ UNCHANGED <<pageMap, zeroed, held, i, page>>

\* Faulty: the loop gives up one page early.
ScanOneShort(c) ==
  /\ Goto(c, "gfp_scan", "gfp_full")
  /\ i[c] >= NumPages - 1
  /\ UNCHANGED <<memLock, pageMap, zeroed, held, i, page>>

ScanEnd(c) ==
  /\ Goto(c, "gfp_scan", "gfp_full")
  /\ i[c] = NumPages
  /\ UNCHANGED <<memLock, pageMap, zeroed, held, i, page>>

\* The out-of-memory path: report, release and return 0.
GfpFull(c) ==
  /\ Goto(c, "gfp_full", "client")
  /\ Unlock(c)
  /\ UNCHANGED <<pageMap, zeroed, held, i, page>>

\* The caller takes the result.
Return(c) ==
  /\ Goto(c, "gfp_got", "client")
  /\ held' = held \cup {i[c]}
  /\ UNCHANGED <<memLock, pageMap, zeroed, i, page>>
-----------------------------------------------------------------------------
\* A holder stores into its page: a struct process and its stack.
Write(p) ==
  /\ p \in held
  /\ zeroed' = [zeroed EXCEPT ![p] = FALSE]
  /\ UNCHANGED <<memLock, pageMap, held, pc, i, page>>

\* free_page(p): p is given up by the caller for good.
FreePage(c, p) ==
  /\ p \in held
  /\ Goto(c, "client", "fp_acquire")
  /\ held' = held \ {p}
  /\ page' = [page EXCEPT ![c] = p]
  /\ UNCHANGED <<memLock, pageMap, zeroed, i>>

FpAcquire(c) ==
  /\ Goto(c, "fp_acquire", "fp_clear")
  /\ Lock(c)
  /\ UNCHANGED <<pageMap, zeroed, held, i, page>>

\* Faulty: the lock is dropped between the map update and the clearing loop.
FpClearUnlock(c) ==
  /\ Goto(c, "fp_clear", "fp_zero")
  /\ pageMap' = [pageMap EXCEPT ![page[c]] = FALSE]
  /\ Unlock(c)
  /\ UNCHANGED <<zeroed, held, i, page>>

FpClear(c) ==
  /\ Goto(c, "fp_clear", "fp_zero")
  /\ pageMap' = [pageMap EXCEPT ![page[c]] = FALSE]
  /\ UNCHANGED <<memLock, zeroed, held, i, page>>

FpZero(c) ==
  /\ Goto(c, "fp_zero", "fp_release")
  /\ zeroed' = [zeroed EXCEPT ![page[c]] = TRUE]
  /\ UNCHANGED <<memLock, pageMap, held, i, page>>

FpRelease(c) ==
  /\ Goto(c, "fp_release", "client")
  /\ Unlock(c)
  /\ UNCHANGED <<pageMap, zeroed, held, i, page>>

Alloc(c) ==
  \/ GetFreePage(c) \/ GfpAcquire(c) \/ ScanNext(c) \/ ScanFound(c) \/ Mark(c)
  \/ GfpZero(c) \/ GfpRelease(c) \/ ScanEnd(c) \/ GfpFull(c) \/ Return(c)

Free(c) ==
  \/ \E p \in Page : FreePage(c, p)
  \/ FpAcquire(c) \/ FpClear(c) \/ FpZero(c) \/ FpRelease(c)

Next ==
  \/ \E c \in Caller : Alloc(c) \/ Free(c)
  \/ \E p \in Page : Write(p)

Spec == Init /\ [][Next]_vars
-----------------------------------------------------------------------------
InLock == {"gfp_scan", "gfp_mark", "gfp_zero", "gfp_release", "gfp_full",
           "fp_clear", "fp_zero", "fp_release"}

\* Page p is on its way to caller c, or on its way back from it.
InTransit(c, p) ==
  \/ pc[c] \in {"gfp_zero", "gfp_release", "gfp_got"} /\ p = i[c]
  \/ pc[c] \in {"fp_acquire", "fp_clear"} /\ p = page[c]

\* A page is marked used exactly while it is held, on its way to a caller or
\* on its way back: none is lost, none is free and in use.
MapMatchesOwners ==
  \A p \in Page : pageMap[p] <=> p \in held \/ \E c \in Caller : InTransit(c, p)

\* get_free_page never gives out a page somebody else has.
NoSharedPage ==
  \A c \in Caller, p \in Page :
    InTransit(c, p) => p \notin held /\ \A d \in Caller \ {c} : ~InTransit(d, p)

\* The clearing loop of free_page runs after the page was marked unused: it
\* must not run into a page that was given out again.
ClearsOnlyFreePages ==
  \A c \in Caller : pc[c] = "fp_zero" => ~pageMap[page[c]]

\* A new page arrives cleared, whatever the last holder left in it.
FreshPageIsZero ==
  \A c \in Caller : pc[c] \in {"gfp_release", "gfp_got"} => zeroed[i[c]]

\* get_free_page answers 0 only when every page is in use.
ZeroMeansFull ==
  \A c \in Caller : pc[c] = "gfp_full" => \A p \in Page : pageMap[p]

\* To the code above, which takes and gives whole pages, a page is in use from
\* its mark in get_free_page to the end of the clearing loop of free_page; what
\* happens in between, in many steps and on many cores, is the atomic
\* interface of Pages (mm.c:110, mm.c:130).
InUse ==
  {p \in Page : p \in held \/ \E c \in Caller : InTransit(c, p)
                                    \/ (pc[c] = "fp_zero" /\ p = page[c])}
PG == INSTANCE Pages WITH used <- InUse, content <- zeroed,
                          Clear <- [p \in Page |-> TRUE]
ImplementsPages == PG!Spec
-----------------------------------------------------------------------------
LockDiscipline == \A c \in Caller : memLock = c <=> pc[c] \in InLock

ScanInvariant ==
  \A c \in Caller :
    /\ pc[c] \in {"gfp_scan", "gfp_mark", "gfp_full"} =>
         \A p \in Page : p < i[c] => pageMap[p]
    /\ pc[c] \in {"gfp_zero", "gfp_release", "gfp_got"} => i[c] \in Page
    /\ pc[c] = "gfp_mark" => i[c] \in Page /\ ~pageMap[i[c]]
    /\ pc[c] = "gfp_full" => i[c] = NumPages

\* The inductive invariant behind the properties above.
IInv ==
  /\ TypeOK
  /\ LockDiscipline
  /\ MapMatchesOwners
  /\ NoSharedPage
  /\ ClearsOnlyFreePages
  /\ FreshPageIsZero
  /\ ScanInvariant
=============================================================================
