----------------------------- MODULE PageTables -----------------------------
(***************************************************************************)
(* init_page_tables and mmu_init of src/memory/mm.c, with the numbers of   *)
(* the code: 64 KiB pages, NUM_TABLES level 3 tables of 8192 entries, one  *)
(* level 2 table.  The fields of an entry do not overlap, so that the      *)
(* code's | is +.  A register of eight bytes is the function of its bytes. *)
(***************************************************************************)
EXTENDS Integers

CONSTANT LocksPage  \* &locks: linker.ld aligns it to a page of the kernel image

NumTables == 3
NumEntries == 8192
PageSize == 65536
PBASE == 1056964608       \* 0x3F000000
LastMmio == 1073807359    \* 0x4000FFFF

Address == 0 .. NumTables * NumEntries * PageSize - 1

ASSUME LocksPageAssumption == LocksPage \in 0 .. PBASE - 1 /\ LocksPage % PageSize = 0

VirtAddr(i, j) == i * 536870912 + j * PageSize    \* (i << 29) + (j << 16)

\* Faulty: the peripherals end with the page before the last.
MairAttrShort(addr) == IF PBASE <= addr /\ addr + PageSize <= LastMmio THEN 0 ELSE IF addr = LocksPage THEN 1 ELSE 4

MairAttr(addr) == IF PBASE <= addr /\ addr <= LastMmio THEN 0 ELSE IF addr = LocksPage THEN 1 ELSE 4

\* lower_level3[i][j]: accessed, inner shareable, valid page.
Level3(i, j) == VirtAddr(i, j) + 1024 + 3 * 256 + MairAttr(VirtAddr(i, j)) * 4 + 3

\* A byte v shifted to byte n as an int, then a u64, as mmu_init does: at bit 24
\* it reaches the sign.  A shift by 32 or 40 is undefined: either the compiler
\* folds it to 0, or the instruction it makes takes the count modulo 32.
ShiftBeyond == {"fold", "modulo"}
Shifted(v, n, shift) ==
  LET byte == IF n > 3 /\ shift = "modulo" THEN n - 4 ELSE n
  IN [k \in 0 .. 7 |-> IF k = byte /\ byte <= 3 THEN v
                       ELSE IF byte = 3 /\ v > 127 /\ k > 3 THEN 255 ELSE 0]

\* Where two terms have bits in one byte, one has all that the other has.
mair_el1(shift) ==
  LET or(f, g) == [k \in 0 .. 7 |-> IF f[k] > g[k] THEN f[k] ELSE g[k]]
  IN or(or(or(Shifted(240, 5, shift), Shifted(68, 4, shift)), or(Shifted(187, 3, shift), Shifted(12, 2, shift))),
        or(Shifted(255, 1, shift), Shifted(0, 0, shift)))

\* The walk of the MMU: an address is below T0SZ's limit of 2^32 here; the
\* words behind lower_level2 are zero, which is a fault.
OutputAddr(entry) == entry - (entry % PageSize)
Attr(entry) == (entry \div 4) % 8
Walk(va, shift) == LET e == Level3(va \div 536870912, (va % 536870912) \div PageSize)
                   IN [pa |-> OutputAddr(e) + (va % PageSize), type |-> mair_el1(shift)[Attr(e)]]
=============================================================================
