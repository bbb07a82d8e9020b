------------------------------- MODULE Paging -------------------------------
(***************************************************************************)
(* paging.c: the two-level page tables paging_init builds and the bump     *)
(* allocator paging_map, with the processor's table walk.  Addresses are   *)
(* numbers below Space; the machine is scaled by Entries (1024) and Page   *)
(* (4096), Space being Entries * Entries * Page as on the i686.            *)
(***************************************************************************)
EXTENDS Naturals, Sequences

CONSTANTS
  Entries,         \* entries of a directory or table
  Page,            \* bytes of a page
  Dir, Low, Misc,  \* addresses of kernelpagedir, lowpagetable, miscpagetable
  IndexRange,      \* values of the uint16_t nMiscIndex
  Requests,        \* <<physical, flags>> arguments of paging_map
  MaxMaps          \* bound: calls of paging_map

Space      == Entries * Entries * Page
Span       == Entries * Page                  \* what one table maps, 4 MiB
KernelBase == 3 * (Entries \div 4) * Span     \* 0xC0000000, of kernel.ld

ASSUME SizesAssumption ==
  /\ Entries \in Nat /\ Entries >= 8 /\ Entries % 4 = 0
  /\ Page \in Nat /\ Page >= 4 /\ Page % 2 = 0
\* The tables are page aligned, apart, and in the first Span of the kernel.
ASSUME TablesAssumption ==
  /\ \A t \in {Dir, Low, Misc} :
       /\ t \in Nat /\ t > KernelBase /\ t < KernelBase + Span /\ t % Page = 0
  /\ Dir # Low /\ Dir # Misc /\ Low # Misc
ASSUME RequestsAssumption ==
  \A r \in Requests : r \in Nat \X Nat /\ r[1] < Space /\ r[2] < Page
ASSUME MapsAssumption ==
  IndexRange \in Nat /\ MaxMaps \in Nat /\ Entries < IndexRange /\ MaxMaps < IndexRange

VARIABLES
  phase,            \* how far paging_init has come
  i,                \* its loop counter
  kernelpagedir, lowpagetable, miscpagetable,
  nMiscIndex,
  pg, cr3,          \* CR0.PG and the directory the processor walks
  maps,             \* history: the calls of paging_map
  behind            \* history: indices stored to behind miscpagetable

tables     == <<kernelpagedir, lowpagetable, miscpagetable>>
pagingVars == <<phase, i, tables, nMiscIndex, pg, cr3, maps, behind>>

MISC_PAGEDIR   == Entries - 1
KERNEL_PAGEDIR == 3 * (Entries \div 4)
Index          == 0..Entries - 1

\* Where kernel.ld's AT clause has the boot loader put a linked address.
LoadAddress(v) == v - KernelBase

\* + 0x40000000, modulo the address space.
KERNEL_TO_REAL(x) == (x + (Entries \div 4) * Span) % Space

-----------------------------------------------------------------------------
(* The processor's walk.  An entry is a frame plus flags, bit 0 present.   *)

NotMapped  == Space           \* no physical address
Present(e) == e % 2 = 1
Frame(e)   == e - (e % Page)

\* What the entry n of the table in a frame is.
EntryIn(frame, n) ==
  CASE frame = LoadAddress(Low)  -> lowpagetable[n]
    [] frame = LoadAddress(Misc) -> miscpagetable[n]
    [] OTHER                     -> 0

Walk(lin) ==
  LET d == kernelpagedir[lin \div Span]
      e == EntryIn(Frame(d), (lin \div Page) % Entries)
  IN IF cr3 = LoadAddress(Dir) /\ Present(d) /\ Present(e)
       THEN Frame(e) + (lin % Page)
       ELSE NotMapped

Translate(lin) == IF pg THEN Walk(lin) ELSE lin

-----------------------------------------------------------------------------
(* paging_init.                                                            *)

\* The tables are in .bss, which the boot loader clears.
PagingStart ==
  /\ phase = "tables" /\ i = 0 /\ nMiscIndex = 0
  /\ kernelpagedir = [n \in Index |-> 0]
  /\ lowpagetable  = [n \in Index |-> 0]
  /\ miscpagetable = [n \in Index |-> 0]
  /\ pg = FALSE /\ cr3 = 0 /\ maps = << >> /\ behind = {}

\* Mutant of FillTables: the loop runs once too often.
FillTablesOneMore ==
  /\ phase = "tables" /\ i' = i + 1
  /\ phase' = IF i = Entries THEN "directory" ELSE "tables"
  /\ lowpagetable'  = [lowpagetable  EXCEPT ![i] = i * Page + 3]
  /\ kernelpagedir' = [kernelpagedir EXCEPT ![i] = 0]
  /\ miscpagetable' = [miscpagetable EXCEPT ![i] = 0]
  /\ UNCHANGED <<nMiscIndex, pg, cr3, maps, behind>>

\* One round of the loop: (i * 0x1000) | 0x3, and two cleared entries.
FillTables ==
  /\ phase = "tables" /\ i' = i + 1
  /\ phase' = IF i + 1 = Entries THEN "directory" ELSE "tables"
  /\ lowpagetable'  = [lowpagetable  EXCEPT ![i] = i * Page + 3]
  /\ kernelpagedir' = [kernelpagedir EXCEPT ![i] = 0]
  /\ miscpagetable' = [miscpagetable EXCEPT ![i] = 0]
  /\ UNCHANGED <<nMiscIndex, pg, cr3, maps, behind>>

\* Mutant of FillDirectory: only the higher half is mapped.
FillDirectoryHigh ==
  /\ phase = "directory" /\ phase' = "enable"
  /\ kernelpagedir' = [kernelpagedir EXCEPT
       ![KERNEL_PAGEDIR] = KERNEL_TO_REAL(Low) + 3,
       ![MISC_PAGEDIR] = KERNEL_TO_REAL(Misc) + 3]
  /\ UNCHANGED <<i, lowpagetable, miscpagetable, nMiscIndex, pg, cr3, maps, behind>>

FillDirectory ==
  /\ phase = "directory" /\ phase' = "enable"
  /\ kernelpagedir' = [kernelpagedir EXCEPT
       ![0] = KERNEL_TO_REAL(Low) + 3,
       ![KERNEL_PAGEDIR] = KERNEL_TO_REAL(Low) + 3,
       ![MISC_PAGEDIR] = KERNEL_TO_REAL(Misc) + 3]
  /\ UNCHANGED <<i, lowpagetable, miscpagetable, nMiscIndex, pg, cr3, maps, behind>>

\* CR3 and the paging bit of CR0.
EnablePaging ==
  /\ phase = "enable" /\ phase' = "ready"
  /\ pg' = TRUE /\ cr3' = KERNEL_TO_REAL(Dir)
  /\ UNCHANGED <<i, tables, nMiscIndex, maps, behind>>

PagingInit == FillTables \/ FillDirectory \/ EnablePaging

-----------------------------------------------------------------------------
(* paging_map.                                                             *)

\* physaddr | flags | 0x01
MapEntry(physical, flags) ==
  physical - (physical % Page) + flags + (IF flags % 2 = 0 THEN 1 ELSE 0)

\* The address returned for an index.  The bits of MISC_PAGEDIR are all ones,
\* so or-ing an index past the table into them leaves its remainder.
MapAddress(index, physical) ==
  MISC_PAGEDIR * Span + (index % Entries) * Page + (physical % Page)

\* miscpagetable[index] = entry.  Nothing compares the index with the size of
\* the table: behind it, depending on how the linker placed them, is one of
\* the other two tables or memory this module does not have.
StoreMisc(index, entry) ==
  IF index < Entries
    THEN /\ miscpagetable' = [miscpagetable EXCEPT ![index] = entry]
         /\ UNCHANGED <<kernelpagedir, lowpagetable, behind>>
    ELSE /\ behind' = behind \cup {index} /\ UNCHANGED miscpagetable
         /\ \/ /\ kernelpagedir' = [kernelpagedir EXCEPT ![index % Entries] = entry]
               /\ UNCHANGED lowpagetable
            \/ /\ lowpagetable' = [lowpagetable EXCEPT ![index % Entries] = entry]
               /\ UNCHANGED kernelpagedir
            \/ UNCHANGED <<kernelpagedir, lowpagetable>>

\* Mutant of PagingMap: nMiscIndex++ comes before the address is computed.
PagingMapLate(r) ==
  /\ phase = "ready" /\ Len(maps) < MaxMaps
  /\ StoreMisc(nMiscIndex, MapEntry(r[1], r[2]))
  /\ maps' = Append(maps, [physical |-> r[1], virtual |-> MapAddress(nMiscIndex + 1, r[1])])
  /\ nMiscIndex' = (nMiscIndex + 1) % IndexRange
  /\ UNCHANGED <<phase, i, pg, cr3>>

PagingMap(r) ==
  /\ phase = "ready" /\ Len(maps) < MaxMaps
  /\ StoreMisc(nMiscIndex, MapEntry(r[1], r[2]))
  /\ maps' = Append(maps, [physical |-> r[1], virtual |-> MapAddress(nMiscIndex, r[1])])
  /\ nMiscIndex' = (nMiscIndex + 1) % IndexRange
  /\ UNCHANGED <<phase, i, pg, cr3>>

PagingNext == PagingInit \/ \E r \in Requests : PagingMap(r)

\* paging.c on its own.
PagingSpec == PagingStart /\ [][PagingNext]_pagingVars

-----------------------------------------------------------------------------
(* Properties.                                                             *)

PagingTypeOK ==
  /\ phase \in {"tables", "directory", "enable", "ready"} /\ i \in 0..Entries
  /\ kernelpagedir \in [Index -> Nat] /\ lowpagetable \in [Index -> Nat]
  /\ miscpagetable \in [Index -> Nat]
  /\ nMiscIndex \in 0..IndexRange - 1 /\ pg \in BOOLEAN /\ cr3 \in Nat
  /\ maps \in Seq([physical : Nat, virtual : Nat]) /\ behind \subseteq Nat

\* No call has stored behind the table.
Intact == behind = {}

\* The first Entries addresses paging_map returns lead to the physical
\* address asked for, whatever is mapped after them, and none of these calls
\* stores outside the table; the call after them is the first that does.
MapsFaithful ==
  /\ Intact => \A k \in DOMAIN maps : Translate(maps[k].virtual) = maps[k].physical
  /\ Intact <=> Len(maps) <= Entries

\* With paging on, the first Span of memory is found at its own address and
\* from KernelBase on, whatever paging_map does within its table.
LowMemoryMapped ==
  pg /\ Intact =>
    \A n \in Index :
      /\ Translate(n * Page) = n * Page
      /\ Translate(KernelBase + n * Page) = n * Page

=============================================================================
