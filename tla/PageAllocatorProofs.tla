------------------------- MODULE PageAllocatorProofs -------------------------
(***************************************************************************)
(* No page has two owners, for any number of pages and of callers.         *)
(***************************************************************************)
EXTENDS PageAllocator, TLAPS

\* The ranges of pages and of the loop variable.
LEMMA PageFacts ==
  /\ NumPages \in Nat
  /\ 0 \in Page
  /\ \A n \in 0 .. NumPages : n < NumPages => n \in Page /\ n + 1 \in 0 .. NumPages
  /\ \A p \in Page : p \in 0 .. NumPages /\ p \in Int /\ p < NumPages
  BY PageAllocatorAssumption DEF Page

\* The step of the scan.
LEMMA NextIndex == \A p, n \in Int : p < n + 1 => p < n \/ p = n
  OBVIOUS

\* The empty map satisfies the invariant.
LEMMA InitIInv == Init => IInv
  BY PageFacts, PageAllocatorAssumption
  DEF Init, IInv, TypeOK, Pc, LockDiscipline, InLock, MapMatchesOwners,
      NoSharedPage, ClearsOnlyFreePages, FreshPageIsZero, ScanInvariant,
      InTransit

\* Every step of an allocation keeps the map, the lock and the owners in
\* agreement.
LEMMA AllocIInv ==
  ASSUME IInv, NEW c \in Caller, Alloc(c)
  PROVE  IInv'
<1> USE PageFacts, PageAllocatorAssumption
    DEF IInv, TypeOK, Pc, LockDiscipline, InLock, MapMatchesOwners,
        NoSharedPage, ClearsOnlyFreePages, FreshPageIsZero, ScanInvariant,
        InTransit, Goto, Lock, Unlock
<1>1. CASE GetFreePage(c)
  <2> USE <1>1 DEF GetFreePage
  <2>1. TypeOK' /\ LockDiscipline' /\ ScanInvariant'
    OBVIOUS
  <2>2. NoSharedPage'
    OBVIOUS
  <2>3. MapMatchesOwners'
    OBVIOUS
  <2>4. ClearsOnlyFreePages' /\ FreshPageIsZero'
    OBVIOUS
  <2> QED
    BY <2>1, <2>2, <2>3, <2>4
<1>2. CASE GfpAcquire(c)
  <2> USE <1>2 DEF GfpAcquire
  <2>1. TypeOK' /\ LockDiscipline' /\ ScanInvariant'
    OBVIOUS
  <2>2. NoSharedPage'
    OBVIOUS
  <2>3. MapMatchesOwners'
    OBVIOUS
  <2>4. ClearsOnlyFreePages' /\ FreshPageIsZero'
    OBVIOUS
  <2> QED
    BY <2>1, <2>2, <2>3, <2>4
<1>3. CASE ScanNext(c)
  <2> USE <1>3 DEF ScanNext
  <2>1. TypeOK' /\ LockDiscipline' /\ ScanInvariant'
    <3>1. i[c] \in Int /\ i[c] + 1 \in 0 .. NumPages
      OBVIOUS
    <3>2. TypeOK' /\ LockDiscipline'
      BY <3>1
    <3>3. \A p \in Page : p < i[c] + 1 => pageMap[p]
      <4>1. (\A p \in Page : p < i[c] => pageMap[p]) /\ pageMap[i[c]]
        OBVIOUS
      <4> HIDE DEF IInv, TypeOK, LockDiscipline, MapMatchesOwners, NoSharedPage,
                   ClearsOnlyFreePages, FreshPageIsZero, ScanInvariant, ScanNext
      <4> QED
        BY <3>1, <4>1, NextIndex
    <3>4. ScanInvariant'
      BY <3>1, <3>3
    <3> QED
      BY <3>2, <3>4
  <2>2. NoSharedPage'
    OBVIOUS
  <2>3. MapMatchesOwners'
    OBVIOUS
  <2>4. ClearsOnlyFreePages' /\ FreshPageIsZero'
    OBVIOUS
  <2> QED
    BY <2>1, <2>2, <2>3, <2>4
<1>4. CASE ScanFound(c)
  <2> USE <1>4 DEF ScanFound
  <2>1. TypeOK' /\ LockDiscipline' /\ ScanInvariant'
    OBVIOUS
  <2>2. NoSharedPage'
    OBVIOUS
  <2>3. MapMatchesOwners'
    OBVIOUS
  <2>4. ClearsOnlyFreePages' /\ FreshPageIsZero'
    OBVIOUS
  <2> QED
    BY <2>1, <2>2, <2>3, <2>4
<1>5. CASE Mark(c)
  <2> USE <1>5 DEF Mark
  <2>1. TypeOK' /\ LockDiscipline' /\ ScanInvariant'
    OBVIOUS
  <2>2. NoSharedPage'
    OBVIOUS
  <2>3. MapMatchesOwners'
    OBVIOUS
  <2>4. ClearsOnlyFreePages' /\ FreshPageIsZero'
    OBVIOUS
  <2> QED
    BY <2>1, <2>2, <2>3, <2>4
<1>6. CASE GfpZero(c)
  <2> USE <1>6 DEF GfpZero
  <2>1. TypeOK' /\ LockDiscipline' /\ ScanInvariant'
    OBVIOUS
  <2>2. NoSharedPage'
    OBVIOUS
  <2>3. MapMatchesOwners'
    OBVIOUS
  <2>4. ClearsOnlyFreePages' /\ FreshPageIsZero'
    OBVIOUS
  <2> QED
    BY <2>1, <2>2, <2>3, <2>4
<1>7. CASE GfpRelease(c)
  <2> USE <1>7 DEF GfpRelease
  <2>1. TypeOK' /\ LockDiscipline' /\ ScanInvariant'
    OBVIOUS
  <2>2. NoSharedPage'
    OBVIOUS
  <2>3. MapMatchesOwners'
    OBVIOUS
  <2>4. ClearsOnlyFreePages' /\ FreshPageIsZero'
    OBVIOUS
  <2> QED
    BY <2>1, <2>2, <2>3, <2>4
<1>8. CASE ScanEnd(c)
  <2> USE <1>8 DEF ScanEnd
  <2>1. TypeOK' /\ LockDiscipline' /\ ScanInvariant'
    OBVIOUS
  <2>2. NoSharedPage'
    OBVIOUS
  <2>3. MapMatchesOwners'
    OBVIOUS
  <2>4. ClearsOnlyFreePages' /\ FreshPageIsZero'
    OBVIOUS
  <2> QED
    BY <2>1, <2>2, <2>3, <2>4
<1>9. CASE GfpFull(c)
  <2> USE <1>9 DEF GfpFull
  <2>1. TypeOK' /\ LockDiscipline' /\ ScanInvariant'
    OBVIOUS
  <2>2. NoSharedPage'
    OBVIOUS
  <2>3. MapMatchesOwners'
    OBVIOUS
  <2>4. ClearsOnlyFreePages' /\ FreshPageIsZero'
    OBVIOUS
  <2> QED
    BY <2>1, <2>2, <2>3, <2>4
<1>10. CASE Return(c)
  <2> USE <1>10 DEF Return
  <2>1. TypeOK' /\ LockDiscipline' /\ ScanInvariant'
    OBVIOUS
  <2>2. NoSharedPage'
    OBVIOUS
  <2>3. MapMatchesOwners'
    OBVIOUS
  <2>4. ClearsOnlyFreePages' /\ FreshPageIsZero'
    OBVIOUS
  <2> QED
    BY <2>1, <2>2, <2>3, <2>4
<1> QED
  BY <1>1, <1>2, <1>3, <1>4, <1>5, <1>6, <1>7, <1>8, <1>9, <1>10 DEF Alloc

\* So does every step of a free and every store of a holder.
LEMMA FreeIInv ==
  ASSUME IInv, NEW c \in Caller, Free(c)
  PROVE  IInv'
<1> USE PageFacts, PageAllocatorAssumption
    DEF IInv, TypeOK, Pc, LockDiscipline, InLock, MapMatchesOwners,
        NoSharedPage, ClearsOnlyFreePages, FreshPageIsZero, ScanInvariant,
        InTransit, Goto, Lock, Unlock
<1>1. ASSUME NEW p \in Page, FreePage(c, p) PROVE IInv'
  <2> USE <1>1 DEF FreePage
  <2>1. TypeOK' /\ LockDiscipline' /\ ScanInvariant'
    OBVIOUS
  <2>2. NoSharedPage'
    OBVIOUS
  <2>3. MapMatchesOwners'
    OBVIOUS
  <2>4. ClearsOnlyFreePages' /\ FreshPageIsZero'
    OBVIOUS
  <2> QED
    BY <2>1, <2>2, <2>3, <2>4
<1>2. CASE FpAcquire(c)
  <2> USE <1>2 DEF FpAcquire
  <2>1. TypeOK' /\ LockDiscipline' /\ ScanInvariant'
    OBVIOUS
  <2>2. NoSharedPage'
    OBVIOUS
  <2>3. MapMatchesOwners'
    OBVIOUS
  <2>4. ClearsOnlyFreePages' /\ FreshPageIsZero'
    OBVIOUS
  <2> QED
    BY <2>1, <2>2, <2>3, <2>4
<1>3. CASE FpClear(c)
  <2> USE <1>3 DEF FpClear
  <2>1. TypeOK' /\ LockDiscipline' /\ ScanInvariant'
    OBVIOUS
  <2>2. NoSharedPage'
    OBVIOUS
  <2>3. MapMatchesOwners'
    OBVIOUS
  <2>4. ClearsOnlyFreePages' /\ FreshPageIsZero'
    OBVIOUS
  <2> QED
    BY <2>1, <2>2, <2>3, <2>4
<1>4. CASE FpZero(c)
  <2> USE <1>4 DEF FpZero
  <2>1. TypeOK' /\ LockDiscipline' /\ ScanInvariant'
    OBVIOUS
  <2>2. NoSharedPage'
    OBVIOUS
  <2>3. MapMatchesOwners'
    OBVIOUS
  <2>4. ClearsOnlyFreePages' /\ FreshPageIsZero'
    OBVIOUS
  <2> QED
    BY <2>1, <2>2, <2>3, <2>4
<1>5. CASE FpRelease(c)
  <2> USE <1>5 DEF FpRelease
  <2>1. TypeOK' /\ LockDiscipline' /\ ScanInvariant'
    OBVIOUS
  <2>2. NoSharedPage'
    OBVIOUS
  <2>3. MapMatchesOwners'
    OBVIOUS
  <2>4. ClearsOnlyFreePages' /\ FreshPageIsZero'
    OBVIOUS
  <2> QED
    BY <2>1, <2>2, <2>3, <2>4
<1> QED
  BY <1>1, <1>2, <1>3, <1>4, <1>5 DEF Free

\* Every step of the specification keeps the invariant.
LEMMA NextIInv == IInv /\ [Next]_vars => IInv'
<1> SUFFICES ASSUME IInv, [Next]_vars PROVE IInv'
  OBVIOUS
<1>1. ASSUME NEW p \in Page, Write(p) PROVE IInv'
  BY <1>1, PageFacts
  DEF Write, IInv, TypeOK, LockDiscipline, MapMatchesOwners, NoSharedPage,
      ClearsOnlyFreePages, FreshPageIsZero, ScanInvariant, InTransit
<1>2. CASE UNCHANGED vars
  BY <1>2
  DEF vars, IInv, TypeOK, LockDiscipline, MapMatchesOwners, NoSharedPage,
      ClearsOnlyFreePages, FreshPageIsZero, ScanInvariant, InTransit
<1> QED
  BY <1>1, <1>2, AllocIInv, FreeIInv DEF Next

\* IInv holds in every reachable state of the allocator.
THEOREM Invariance == Spec => []IInv
  BY InitIInv, NextIInv, PTL DEF Spec

\* page_map marks exactly the owned pages: mm.c loses no page.
THEOREM NoPageIsLost == Spec => []MapMatchesOwners
<1>1. IInv => MapMatchesOwners
  BY DEF IInv
<1> QED
  BY Invariance, <1>1, PTL

\* A page has one owner: get_free_page gives none out twice.
THEOREM PagesHaveOneOwner == Spec => []NoSharedPage
<1>1. IInv => NoSharedPage
  BY DEF IInv
<1> QED
  BY Invariance, <1>1, PTL

\* free_page clears a page only while nobody has it.
THEOREM ClearingIsSafe == Spec => []ClearsOnlyFreePages
<1>1. IInv => ClearsOnlyFreePages
  BY DEF IInv
<1> QED
  BY Invariance, <1>1, PTL

\* get_free_page hands out cleared pages.
THEOREM NewPagesAreClear == Spec => []FreshPageIsZero
<1>1. IInv => FreshPageIsZero
  BY DEF IInv
<1> QED
  BY Invariance, <1>1, PTL

\* The 0 of get_free_page means that every page is in use.
THEOREM ZeroOnlyWhenFull == Spec => []ZeroMeansFull
<1>1. IInv => ZeroMeansFull
  BY PageFacts DEF IInv, ScanInvariant, ZeroMeansFull
<1> QED
  BY Invariance, <1>1, PTL
-----------------------------------------------------------------------------
(* The refinement of Pages.                                                  *)

\* A page in use is marked, or free_page is still clearing it.
Clearing(p) == \E c \in Caller : pc[c] = "fp_zero" /\ p = page[c]

LEMMA InUseIsMarked ==
  ASSUME IInv
  PROVE  /\ \A p \in Page : p \in InUse <=> pageMap[p] \/ Clearing(p)
         /\ InUse \subseteq Page
  BY DEF IInv, MapMatchesOwners, InUse, Clearing

\* A step that neither marks a page nor starts or ends the clearing of one.
LEMMA SameInUse ==
  ASSUME IInv, IInv', pageMap' = pageMap,
         \A c \in Caller : /\ pc'[c] = "fp_zero" <=> pc[c] = "fp_zero"
                           /\ pc[c] = "fp_zero" => page'[c] = page[c]
  PROVE  InUse' = InUse
<1>1. \A p : Clearing(p)' <=> Clearing(p)
  BY DEF Clearing
<1>2. /\ \A p \in Page : p \in InUse' <=> pageMap'[p] \/ Clearing(p)'
      /\ InUse' \subseteq Page
  BY DEF IInv, MapMatchesOwners, InUse, Clearing
<1> QED
  BY <1>1, <1>2, InUseIsMarked

\* The two callers inside the lock are one.
LEMMA OneInLock ==
  ASSUME IInv, NEW c \in Caller, NEW d \in Caller, pc[c] \in InLock, pc[d] \in InLock
  PROVE  c = d
  BY DEF IInv, LockDiscipline

\* An allocation takes the page at its mark; what it does before and after
\* does not show, but for the clearing of a page that is in use by then.
LEMMA AllocPages ==
  ASSUME IInv, IInv', NEW c \in Caller, Alloc(c)
  PROVE  PG!Next \/ UNCHANGED PG!vars
<1>t. pc \in [Caller -> Pc] /\ pageMap \in [Page -> BOOLEAN] /\ zeroed \in [Page -> BOOLEAN]
  BY DEF IInv, TypeOK
<1>1. CASE \/ GetFreePage(c) \/ GfpAcquire(c) \/ ScanNext(c) \/ ScanFound(c)
           \/ GfpRelease(c) \/ ScanEnd(c) \/ GfpFull(c) \/ Return(c)
  <2>1. pageMap' = pageMap /\ zeroed' = zeroed /\ page' = page
    BY <1>1 DEF GetFreePage, GfpAcquire, ScanNext, ScanFound, GfpRelease, ScanEnd,
                GfpFull, Return
  <2>2. \A d \in Caller : pc'[d] = "fp_zero" <=> pc[d] = "fp_zero"
    BY <1>t, <1>1
    DEF GetFreePage, GfpAcquire, ScanNext, ScanFound, GfpRelease, ScanEnd, GfpFull,
        Return, Goto
  <2> QED
    BY <2>1, <2>2, SameInUse DEF PG!vars
<1>2. CASE GfpZero(c)
  <2>1. /\ pageMap' = pageMap /\ page' = page /\ zeroed' = [zeroed EXCEPT ![i[c]] = TRUE]
        /\ \A d \in Caller : pc'[d] = "fp_zero" <=> pc[d] = "fp_zero"
    BY <1>t, <1>2 DEF GfpZero, Goto
  <2>2. InUse' = InUse
    BY <2>1, SameInUse
  <2>3. i[c] \in InUse
    BY <1>2 DEF GfpZero, Goto, InUse, InTransit, IInv, ScanInvariant
  <2>4. \A p \in Page \ InUse : zeroed'[p] = zeroed[p]
    BY <1>t, <2>1, <2>3
  <2> QED
    BY <2>2, <2>4 DEF PG!Next, PG!Write, PG!Keeps
<1>3. CASE Mark(c)
  <2>1. /\ pc[c] = "gfp_mark" /\ i[c] \in Page /\ ~pageMap[i[c]]
        /\ \A p \in Page : p < i[c] => pageMap[p]
        /\ pageMap' = [pageMap EXCEPT ![i[c]] = TRUE]
        /\ zeroed' = zeroed /\ page' = page
    BY <1>3 DEF Mark, Goto, IInv, ScanInvariant
  <2>2. \A p : ~Clearing(p) /\ ~Clearing(p)'
    <3>1. \A d \in Caller : pc[d] # "fp_zero"
      BY <2>1, OneInLock DEF InLock
    <3>2. \A d \in Caller : pc'[d] # "fp_zero"
      BY <1>t, <1>3, <3>1 DEF Mark, Goto
    <3> QED
      BY <3>1, <3>2 DEF Clearing
  <2>3. /\ \A p \in Page : p \in InUse' <=> pageMap'[p] \/ Clearing(p)'
        /\ InUse' \subseteq Page
    BY DEF IInv, MapMatchesOwners, InUse, Clearing
  <2>4. i[c] \in Page \ InUse /\ InUse' = InUse \cup {i[c]}
    BY <1>t, <2>1, <2>2, <2>3, InUseIsMarked
  <2>5. \A q \in Page \ InUse : i[c] <= q
    <3>1. \A q \in Page : q \in Int /\ (q < i[c] \/ i[c] <= q)
      BY <2>1, PageFacts
    <3> QED
      BY <2>1, <3>1, InUseIsMarked
  <2>6. PG!Take(i[c])
    BY <2>1, <2>4, <2>5 DEF PG!Take, PG!Keeps
  <2> QED
    BY <2>1, <2>6 DEF PG!Next
<1> QED
  BY <1>1, <1>2, <1>3 DEF Alloc

\* free_page gives the page back at the end of its clearing loop.
LEMMA FreePages ==
  ASSUME IInv, IInv', NEW c \in Caller, Free(c)
  PROVE  PG!Next \/ UNCHANGED PG!vars
<1>t. /\ pc \in [Caller -> Pc] /\ pageMap \in [Page -> BOOLEAN]
      /\ zeroed \in [Page -> BOOLEAN] /\ page \in [Caller -> Page]
  BY DEF IInv, TypeOK
<1>3. /\ \A p \in Page : p \in InUse' <=> pageMap'[p] \/ Clearing(p)'
      /\ InUse' \subseteq Page
  BY DEF IInv, MapMatchesOwners, InUse, Clearing
<1>1. CASE (\E p \in Page : FreePage(c, p)) \/ FpAcquire(c) \/ FpRelease(c)
  <2>1. /\ pageMap' = pageMap /\ zeroed' = zeroed
        /\ pc[c] # "fp_zero" /\ \A d \in Caller \ {c} : page'[d] = page[d]
    BY <1>t, <1>1 DEF FreePage, FpAcquire, FpRelease, Goto
  <2>2. \A d \in Caller : pc'[d] = "fp_zero" <=> pc[d] = "fp_zero"
    BY <1>t, <1>1 DEF FreePage, FpAcquire, FpRelease, Goto
  <2> QED
    BY <2>1, <2>2, SameInUse DEF PG!vars
<1>2. CASE FpClear(c) \/ FpZero(c)
  <2> DEFINE p == page[c]
  <2>1. /\ p \in Page /\ page' = page /\ pc[c] \in {"fp_clear", "fp_zero"}
        /\ \A d \in Caller \ {c} : pc[d] # "fp_zero" /\ pc'[d] # "fp_zero"
    <3>1. \A d \in Caller \ {c} : pc[d] # "fp_zero"
      BY <1>2, OneInLock DEF FpClear, FpZero, Goto, InLock
    <3> QED
      BY <1>t, <1>2, <3>1 DEF FpClear, FpZero, Goto
  <2>2. CASE FpClear(c)
    <3>1. pageMap[p] /\ pageMap' = [pageMap EXCEPT ![p] = FALSE] /\ zeroed' = zeroed
      BY <2>1, <2>2 DEF FpClear, Goto, IInv, MapMatchesOwners, InTransit
    <3>2. \A q : ~Clearing(q) /\ (Clearing(q)' <=> q = p)
      BY <1>t, <2>1, <2>2 DEF Clearing, FpClear, Goto
    <3>3. InUse' = InUse
      BY <1>t, <1>3, <2>1, <3>1, <3>2, InUseIsMarked
    <3> QED
      BY <3>1, <3>3 DEF PG!vars
  <2>3. CASE FpZero(c)
    <3>1. ~pageMap[p] /\ pageMap' = pageMap /\ zeroed' = [zeroed EXCEPT ![p] = TRUE]
      BY <2>3 DEF FpZero, Goto, IInv, ClearsOnlyFreePages
    <3>2. \A q : ~Clearing(q)' /\ (Clearing(q) <=> q = p)
      BY <1>t, <2>1, <2>3 DEF Clearing, FpZero, Goto
    <3>3. p \in InUse /\ InUse' = InUse \ {p}
      BY <1>t, <1>3, <2>1, <3>1, <3>2, InUseIsMarked
    <3>4. zeroed'[p] = [q \in Page |-> TRUE][p] /\ \A q \in Page \ {p} : zeroed'[q] = zeroed[q]
      BY <1>t, <2>1, <3>1
    <3>5. PG!Give(p)
      BY <2>1, <3>3, <3>4 DEF PG!Give, PG!Keeps
    <3> QED
      BY <2>1, <3>5 DEF PG!Next
  <2> QED
    BY <1>2, <2>2, <2>3
<1> QED
  BY <1>1, <1>2 DEF Free

\* get_free_page and free_page, run by any number of callers at a time, are
\* the atomic operations that Pages promises: the first free page is taken,
\* a page comes back cleared, and no free page is ever stored to.
THEOREM AllocatorKeepsPromise == Spec => ImplementsPages
<1>1. Init => PG!Init
  BY DEF Init, PG!Init, InUse
<1>2. ASSUME IInv, IInv', [Next]_vars PROVE [PG!Next]_PG!vars
  <2>1. ASSUME NEW c \in Caller, Alloc(c) \/ Free(c) PROVE PG!Next \/ UNCHANGED PG!vars
    BY <1>2, <2>1, AllocPages, FreePages
  <2>2. ASSUME NEW p \in Page, Write(p) PROVE PG!Write
    <3>1. /\ pageMap' = pageMap /\ pc' = pc /\ page' = page
          /\ zeroed' = [zeroed EXCEPT ![p] = FALSE] /\ p \in InUse
      BY <2>2 DEF Write, InUse
    <3>2. InUse' = InUse
      BY <1>2, <3>1, SameInUse
    <3>3. \A q \in Page \ InUse : zeroed'[q] = zeroed[q]
      BY <1>2, <3>1 DEF IInv, TypeOK
    <3> QED
      BY <3>2, <3>3 DEF PG!Write, PG!Keeps
  <2>3. CASE UNCHANGED vars
    BY <2>3 DEF vars, PG!vars, InUse, InTransit
  <2> QED
    BY <1>2, <2>1, <2>2, <2>3 DEF Next, PG!Next
<1> QED
  BY <1>1, <1>2, Invariance, PTL DEF Spec, ImplementsPages, PG!Spec
==============================================================================
