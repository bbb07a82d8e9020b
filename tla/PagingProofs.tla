---------------------------- MODULE PagingProofs ----------------------------
(***************************************************************************)
(* Theorems about the page tables of paging.c for tables and pages of any  *)
(* size, wherever the linker put the tables.                               *)
(***************************************************************************)
EXTENDS Paging, Integers, TLAPS

-----------------------------------------------------------------------------
(* Arithmetic of addresses.                                                *)

LEMMA DivMod ==
  ASSUME NEW n \in Nat, NEW p \in Nat \ {0}
  PROVE  n \div p \in Nat /\ n % p \in 0..p - 1 /\ n = (n \div p) * p + (n % p)
  OBVIOUS

\* Quotient and remainder are the only two numbers that do this.
LEMMA Compose ==
  ASSUME NEW p \in Nat \ {0}, NEW q \in Nat, NEW r \in 0..p - 1
  PROVE  (q * p + r) \div p = q /\ (q * p + r) % p = r
<1>1. \A a, b \in Nat : a < b => b * p >= a * p + p
  OBVIOUS
<1>2. \A a, b \in Nat, s, t \in 0..p - 1 : a < b => b * p + t # a * p + s
  BY <1>1
<1>3. \A a, b \in Nat, s, t \in 0..p - 1 : b * p + t = a * p + s => a = b /\ s = t
  BY <1>2
<1>4. q * p + r \in Nat
  OBVIOUS
<1>5. QED
  BY <1>3, <1>4, DivMod

LEMMA Small == ASSUME NEW m \in Nat, NEW n \in Nat, m < n PROVE m % n = m
  OBVIOUS

\* The sizes of the machine.
LEMMA Sizes ==
  /\ Page \in Nat \ {0} /\ Entries \in Nat \ {0} /\ Span \in Nat \ {0}
  /\ Space = Entries * Span /\ Space \in Nat \ {0} /\ Span = Entries * Page
  /\ KERNEL_PAGEDIR \in Index /\ MISC_PAGEDIR \in Index /\ 0 \in Index
  /\ KERNEL_PAGEDIR # 0 /\ MISC_PAGEDIR # 0 /\ KERNEL_PAGEDIR # MISC_PAGEDIR
  /\ KernelBase = KERNEL_PAGEDIR * Span /\ KernelBase \in Nat
  /\ KernelBase + (Entries \div 4) * Span = Space
<1>1. PICK q \in Nat : Entries = 4 * q /\ Entries \div 4 = q /\ q >= 2
  <2>1. LET q == Entries \div 4 IN q \in Nat /\ Entries = 4 * q /\ q >= 2
    BY SizesAssumption
  <2>2. QED
    BY <2>1
<1>2. Page \in Nat \ {0} /\ Entries \in Nat \ {0}
  BY SizesAssumption
<1>3. Span \in Nat \ {0} /\ Span = Entries * Page
  BY <1>2 DEF Span
<1>4. Space = Entries * Span
  BY <1>2 DEF Space, Span
<1>5. KernelBase = 3 * q * Span /\ KERNEL_PAGEDIR = 3 * q /\ MISC_PAGEDIR = 4 * q - 1
  BY <1>1 DEF KernelBase, KERNEL_PAGEDIR, MISC_PAGEDIR
<1>6. Index = 0..4 * q - 1
  BY <1>1 DEF Index
<1> HIDE DEF Span, Space
<1>7. Space \in Nat \ {0} /\ KernelBase = KERNEL_PAGEDIR * Span /\ KernelBase \in Nat
  BY <1>1, <1>2, <1>3, <1>4, <1>5
<1>8. KernelBase + (Entries \div 4) * Span = Space
  BY <1>1, <1>3, <1>4, <1>5
<1>9. /\ KERNEL_PAGEDIR \in Index /\ MISC_PAGEDIR \in Index /\ 0 \in Index
      /\ KERNEL_PAGEDIR # 0 /\ MISC_PAGEDIR # 0 /\ KERNEL_PAGEDIR # MISC_PAGEDIR
  BY <1>1, <1>5, <1>6
<1>10. QED
  BY <1>2, <1>3, <1>4, <1>7, <1>8, <1>9

\* KERNEL_TO_REAL is the boot loader's load address, for the first Span of the
\* kernel.
LEMMA ToReal ==
  ASSUME NEW t \in Nat, t > KernelBase, t < KernelBase + Span
  PROVE  KERNEL_TO_REAL(t) = LoadAddress(t) /\ LoadAddress(t) \in 1..Span - 1
<1>1. PICK o \in 1..Span - 1 : t = KernelBase + o
  <2>1. t - KernelBase \in 1..Span - 1 /\ t = KernelBase + (t - KernelBase)
    BY Sizes
  <2>2. QED
    BY <2>1
<1>2. LoadAddress(t) = o
  BY <1>1, Sizes DEF LoadAddress
<1>3. t + (Entries \div 4) * Span = 1 * Space + o
  <2>1. (Entries \div 4) * Span \in Int
    BY Sizes, SizesAssumption
  <2>2. QED
    BY <1>1, <2>1, Sizes
<1>4. o \in 0..Space - 1
  BY Sizes
<1>5. (1 * Space + o) % Space = o
  BY <1>4, Sizes, Compose
<1>6. QED
  BY <1>1, <1>2, <1>3, <1>5 DEF KERNEL_TO_REAL

\* The load address of a table is a frame.
LEMMA TableFrame ==
  ASSUME NEW t \in {Dir, Low, Misc}
  PROVE  /\ KERNEL_TO_REAL(t) = LoadAddress(t) /\ LoadAddress(t) \in Nat
         /\ \E q \in Nat : LoadAddress(t) = q * Page
<1>1. t \in Nat /\ t > KernelBase /\ t < KernelBase + Span /\ t % Page = 0
  BY TablesAssumption
<1>2. KERNEL_TO_REAL(t) = LoadAddress(t) /\ LoadAddress(t) \in Nat
  BY <1>1, ToReal, Sizes
<1>3. t = (t \div Page) * Page /\ t \div Page \in Nat
  <2>1. Page \in Nat \ {0}
    BY Sizes
  <2>2. t \div Page \in Nat /\ t = (t \div Page) * Page + (t % Page)
    BY <1>1, <2>1, DivMod
  <2>3. QED
    BY <1>1, <2>1, <2>2
<1>4. KernelBase = (KERNEL_PAGEDIR * Entries) * Page /\ KERNEL_PAGEDIR * Entries \in Nat
  BY Sizes DEF KERNEL_PAGEDIR
<1> DEFINE a == t \div Page
           b == KERNEL_PAGEDIR * Entries
<1>5. a \in Nat /\ b \in Nat /\ LoadAddress(t) = a * Page - b * Page
  BY <1>3, <1>4 DEF LoadAddress
<1> HIDE DEF a, b
<1>6. LoadAddress(t) = (a - b) * Page
  BY <1>5, Sizes
<1>7. a - b \in Nat
  BY <1>2, <1>5, <1>6, Sizes
<1>8. QED
  BY <1>2, <1>6, <1>7

\* What the processor reads out of an entry with the present bit set.
LEMMA EntryFields ==
  ASSUME NEW q \in Nat, NEW b \in 0..Page - 1, b % 2 = 1
  PROVE  Present(q * Page + b) /\ Frame(q * Page + b) = q * Page
<1>1. (q * Page + b) % Page = b
  BY Sizes, Compose
<1>2. PICK h \in Nat : Page = 2 * h
  BY SizesAssumption
<1>3. q * Page = 2 * (q * h) /\ q * h \in Nat
  BY <1>2
<1>4. \A m \in Nat : (2 * m + b) % 2 = 1
  BY Sizes
<1>5. (q * Page + b) % 2 = 1
  BY <1>3, <1>4
<1>6. q * Page \in Nat
  BY Sizes
<1>7. QED
  BY <1>1, <1>5, <1>6 DEF Present, Frame

\* The parts of a linear address that the walk uses.
LEMMA AddressParts ==
  ASSUME NEW d \in Index, NEW n \in Index, NEW o \in 0..Page - 1
  PROVE  LET lin == d * Span + n * Page + o
         IN lin \div Span = d /\ (lin \div Page) % Entries = n /\ lin % Page = o
<1> DEFINE lin == d * Span + n * Page + o
<1>1. d \in Nat /\ n \in Nat /\ o \in Nat /\ n \in 0..Entries - 1
  BY Sizes DEF Index
<1>2. n * Page + o \in 0..Span - 1
  <2>1. PICK m \in Nat : Entries = n + 1 + m
    <3>1. Entries - n - 1 \in Nat /\ Entries = n + 1 + (Entries - n - 1)
      BY <1>1, Sizes
    <3>2. QED
      BY <3>1
  <2>2. Span = n * Page + Page + m * Page /\ m * Page \in Nat /\ n * Page \in Nat
    BY <1>1, <2>1, Sizes
  <2>3. QED
    BY <1>1, <2>2, Sizes
<1>3. lin = d * Span + (n * Page + o)
  <2>1. d * Span \in Nat /\ n * Page \in Nat
    BY <1>1, Sizes
  <2>2. QED
    BY <1>1, <2>1
<1>4. lin = (d * Entries + n) * Page + o /\ d * Entries + n \in Nat
  BY <1>1, Sizes
<1> HIDE DEF lin
<1>5. lin \div Span = d
  <2>1. Span \in Nat \ {0}
    BY Sizes
  <2>2. (d * Span + (n * Page + o)) \div Span = d
    BY <1>1, <1>2, <2>1, Compose
  <2>3. QED
    BY <1>3, <2>2
<1>6. lin \div Page = d * Entries + n /\ lin % Page = o
  <2>1. Page \in Nat \ {0}
    BY Sizes
  <2>2. ASSUME NEW q \in Nat PROVE (q * Page + o) \div Page = q /\ (q * Page + o) % Page = o
    BY <2>1, Compose
  <2>3. QED
    BY <1>4, <2>2
<1>7. (d * Entries + n) % Entries = n
  BY <1>1, Compose, Sizes
<1>8. QED
  BY <1>5, <1>6, <1>7 DEF lin

-----------------------------------------------------------------------------
(* The invariant.                                                          *)

\* The loop of paging_init, and what it has filled in.
LoopInv ==
  /\ IF phase = "tables" THEN i < Entries ELSE i = Entries
  /\ Intact => \A n \in Index : n < i => lowpagetable[n] = n * Page + 3

\* The directory from the time it is set up, and the processor's registers.
DirectoryInv ==
  /\ Intact /\ phase \in {"enable", "ready"} =>
       /\ kernelpagedir[0] = LoadAddress(Low) + 3
       /\ kernelpagedir[KERNEL_PAGEDIR] = LoadAddress(Low) + 3
       /\ kernelpagedir[MISC_PAGEDIR] = LoadAddress(Misc) + 3
  /\ pg = (phase = "ready") /\ (pg => cr3 = LoadAddress(Dir))

\* The index counts the calls, and each call within the table has its entry.
MapsInv ==
  /\ nMiscIndex = Len(maps) /\ Len(maps) <= MaxMaps /\ (maps # << >> => pg)
  /\ Intact <=> Len(maps) <= Entries
  /\ \A k \in DOMAIN maps : k <= Entries =>
       \E r \in Requests :
         /\ maps[k] = [physical |-> r[1], virtual |-> MapAddress(k - 1, r[1])]
         /\ miscpagetable[k - 1] = MapEntry(r[1], r[2])

PagingInv == PagingTypeOK /\ LoopInv /\ DirectoryInv /\ MapsInv

\* An entry made by paging_map keeps the frame and is present.
LEMMA MapEntryFields ==
  ASSUME NEW physical \in Nat, NEW flags \in Nat, flags < Page
  PROVE  \E q \in Nat, b \in 0..Page - 1 :
           /\ b % 2 = 1 /\ MapEntry(physical, flags) = q * Page + b
           /\ physical = q * Page + (physical % Page)
<1> DEFINE q == physical \div Page
           b == flags + (IF flags % 2 = 0 THEN 1 ELSE 0)
<1>1. /\ q \in Nat /\ physical % Page \in 0..Page - 1
      /\ physical = q * Page + (physical % Page)
  BY Sizes, DivMod
<1>2. b \in 0..Page - 1 /\ b % 2 = 1
  BY SizesAssumption
<1>3. q * Page \in Nat
  BY <1>1, Sizes
<1>4. MapEntry(physical, flags) = q * Page + b
  <2>1. b = flags + (IF flags % 2 = 0 THEN 1 ELSE 0)
    OBVIOUS
  <2> HIDE DEF q
  <2>2. QED
    BY <1>1, <1>3 DEF MapEntry
<1>5. QED
  BY <1>1, <1>2, <1>4

\* A walk through one of the two tables.
LEMMA WalkThrough ==
  ASSUME NEW d \in Index, NEW n \in Index, NEW o \in 0..Page - 1, NEW t \in {Low, Misc},
         cr3 = LoadAddress(Dir), kernelpagedir[d] = LoadAddress(t) + 3,
         NEW q \in Nat, NEW b \in 0..Page - 1, b % 2 = 1,
         EntryIn(LoadAddress(t), n) = q * Page + b
  PROVE  Walk(d * Span + n * Page + o) = q * Page + o
<1> DEFINE lin == d * Span + n * Page + o
<1>1. lin \div Span = d /\ (lin \div Page) % Entries = n /\ lin % Page = o
  BY AddressParts
<1>2. PICK a \in Nat : LoadAddress(t) = a * Page
  BY TableFrame
<1>3. Present(kernelpagedir[d]) /\ Frame(kernelpagedir[d]) = LoadAddress(t)
  <2>1. 3 \in 0..Page - 1 /\ 3 % 2 = 1
    BY SizesAssumption
  <2>2. QED
    BY <1>2, <2>1, EntryFields
<1>4. Present(q * Page + b) /\ Frame(q * Page + b) = q * Page
  BY EntryFields
<1> HIDE DEF lin
<1>5. Walk(lin) = q * Page + o
  BY <1>1, <1>3, <1>4 DEF Walk
<1>6. QED
  BY <1>5 DEF lin

\* The boot loader clears the tables.
LEMMA StartInv == ASSUME PagingStart PROVE PagingInv
<1> USE DEF PagingStart
<1>1. maps = << >> /\ Len(maps) = 0 /\ DOMAIN maps = {} /\ Intact
  BY DEF Intact
<1>2. PagingTypeOK
  <2>1. /\ i \in 0..Entries /\ nMiscIndex \in 0..IndexRange - 1 /\ cr3 \in Nat
        /\ phase \in {"tables", "directory", "enable", "ready"} /\ behind \subseteq Nat
    BY Sizes, MapsAssumption
  <2>2. pg \in BOOLEAN
    BY Zenon
  <2>3. maps \in Seq([physical : Nat, virtual : Nat])
    OBVIOUS
  <2>4. /\ kernelpagedir \in [Index -> Nat] /\ lowpagetable \in [Index -> Nat]
        /\ miscpagetable \in [Index -> Nat]
    OBVIOUS
  <2>5. QED
    BY <2>1, <2>2, <2>3, <2>4, Zenon DEF PagingTypeOK
<1>3. LoopInv
  <2>1. i < Entries /\ \A n \in Index : ~(n < i)
    BY Sizes DEF Index
  <2>2. QED
    BY <2>1 DEF LoopInv
<1>4. DirectoryInv
  BY DEF DirectoryInv
<1>5. MapsInv
  BY <1>1, Sizes, MapsAssumption DEF MapsInv
<1>6. QED
  BY <1>2, <1>3, <1>4, <1>5 DEF PagingInv

\* The loop of paging_init.
LEMMA FillTablesStep == ASSUME PagingInv, FillTables PROVE PagingInv'
<1>1. /\ PagingTypeOK /\ LoopInv /\ DirectoryInv /\ MapsInv
      /\ phase = "tables" /\ i' = i + 1
      /\ phase' = IF i + 1 = Entries THEN "directory" ELSE "tables"
      /\ UNCHANGED <<nMiscIndex, pg, cr3, maps, behind>>
  BY DEF PagingInv, FillTables
<1>2. maps = << >> /\ ~pg /\ i < Entries /\ i \in Nat /\ i \in Index /\ Entries \in Nat
  <2>1. maps = << >> /\ ~pg
    BY <1>1 DEF MapsInv, DirectoryInv
  <2>2. i < Entries /\ i \in 0..Entries /\ Entries \in Nat
    BY <1>1, SizesAssumption DEF LoopInv, PagingTypeOK
  <2>3. QED
    BY <2>1, <2>2 DEF Index
<1>3. /\ lowpagetable' = [lowpagetable EXCEPT ![i] = i * Page + 3]
      /\ kernelpagedir' = [kernelpagedir EXCEPT ![i] = 0]
      /\ miscpagetable' = [miscpagetable EXCEPT ![i] = 0]
      /\ i * Page + 3 \in Nat
  BY <1>2, Sizes DEF FillTables
<1>4. PagingTypeOK'
  <2>1. i' \in 0..Entries
    BY <1>1, <1>2
  <2>2. QED
    BY <1>1, <1>2, <1>3, <2>1 DEF PagingTypeOK
<1>5. LoopInv'
  <2>1. IF phase' = "tables" THEN i' < Entries ELSE i' = Entries
    BY <1>1, <1>2
  <2>2. ASSUME Intact, NEW n \in Index, n < i + 1
        PROVE  lowpagetable'[n] = n * Page + 3
    <3>1. n < i \/ n = i
      BY <1>2, <2>2 DEF Index
    <3>2. QED
      BY <1>1, <1>2, <1>3, <2>2, <3>1 DEF LoopInv, PagingTypeOK
  <2>3. QED
    BY <1>1, <2>1, <2>2 DEF LoopInv, Intact
<1>6. DirectoryInv'
  BY <1>1, <1>2 DEF DirectoryInv
<1>7. MapsInv'
  BY <1>1, <1>2 DEF MapsInv, Intact
<1>8. QED
  BY <1>4, <1>5, <1>6, <1>7 DEF PagingInv

\* The three entries of the directory.
LEMMA FillDirectoryStep == ASSUME PagingInv, FillDirectory PROVE PagingInv'
<1>1. /\ PagingTypeOK /\ LoopInv /\ DirectoryInv /\ MapsInv
      /\ phase = "directory" /\ phase' = "enable"
      /\ UNCHANGED <<i, lowpagetable, miscpagetable, nMiscIndex, pg, cr3, maps, behind>>
  BY DEF PagingInv, FillDirectory
<1>2. /\ KERNEL_TO_REAL(Low) = LoadAddress(Low) /\ LoadAddress(Low) \in Nat
      /\ KERNEL_TO_REAL(Misc) = LoadAddress(Misc) /\ LoadAddress(Misc) \in Nat
  BY TableFrame
<1>3. /\ kernelpagedir' \in [Index -> Nat]
      /\ kernelpagedir'[0] = LoadAddress(Low) + 3
      /\ kernelpagedir'[KERNEL_PAGEDIR] = LoadAddress(Low) + 3
      /\ kernelpagedir'[MISC_PAGEDIR] = LoadAddress(Misc) + 3
  <2>1. kernelpagedir' = [kernelpagedir EXCEPT
                            ![0] = LoadAddress(Low) + 3,
                            ![KERNEL_PAGEDIR] = LoadAddress(Low) + 3,
                            ![MISC_PAGEDIR] = LoadAddress(Misc) + 3]
    BY <1>2 DEF FillDirectory
  <2>2. kernelpagedir \in [Index -> Nat]
    BY <1>1 DEF PagingTypeOK
  <2>3. LoadAddress(Low) + 3 \in Nat /\ LoadAddress(Misc) + 3 \in Nat
    BY <1>2
  <2>4. /\ KERNEL_PAGEDIR \in Index /\ MISC_PAGEDIR \in Index /\ 0 \in Index
        /\ KERNEL_PAGEDIR # 0 /\ MISC_PAGEDIR # 0 /\ KERNEL_PAGEDIR # MISC_PAGEDIR
    BY Sizes
  <2>5. QED
    BY <2>1, <2>2, <2>3, <2>4
<1>4. PagingTypeOK'
  BY <1>1, <1>3 DEF PagingTypeOK
<1>5. LoopInv' /\ DirectoryInv' /\ MapsInv'
  BY <1>1, <1>3 DEF LoopInv, DirectoryInv, MapsInv, Intact
<1>6. QED
  BY <1>4, <1>5 DEF PagingInv

\* CR3 holds the load address of the directory.
LEMMA EnablePagingStep == ASSUME PagingInv, EnablePaging PROVE PagingInv'
<1>1. /\ PagingTypeOK /\ LoopInv /\ DirectoryInv /\ MapsInv
      /\ phase = "enable" /\ phase' = "ready" /\ pg' = TRUE
      /\ UNCHANGED <<i, kernelpagedir, lowpagetable, miscpagetable, nMiscIndex, maps, behind>>
  BY DEF PagingInv, EnablePaging, tables
<1>2. cr3' = LoadAddress(Dir) /\ LoadAddress(Dir) \in Nat
  BY TableFrame DEF EnablePaging
<1>3. PagingTypeOK'
  BY <1>1, <1>2 DEF PagingTypeOK
<1>4. LoopInv' /\ DirectoryInv' /\ MapsInv'
  BY <1>1, <1>2 DEF LoopInv, DirectoryInv, MapsInv, Intact
<1>5. QED
  BY <1>3, <1>4 DEF PagingInv

\* A call of paging_map, within the table or behind it.
LEMMA PagingMapStep == ASSUME PagingInv, NEW r \in Requests, PagingMap(r) PROVE PagingInv'
<1> DEFINE entry == MapEntry(r[1], r[2])
           map == [physical |-> r[1], virtual |-> MapAddress(nMiscIndex, r[1])]
<1>1. /\ PagingTypeOK /\ LoopInv /\ DirectoryInv /\ MapsInv
      /\ phase = "ready" /\ Len(maps) < MaxMaps
      /\ StoreMisc(nMiscIndex, entry) /\ maps' = Append(maps, map)
      /\ nMiscIndex' = (nMiscIndex + 1) % IndexRange
      /\ UNCHANGED <<phase, i, pg, cr3>>
  BY DEF PagingInv, PagingMap
<1>2. r[1] \in Nat /\ r[2] \in Nat /\ r[2] < Page
  BY RequestsAssumption
<1>3. entry \in Nat
  <2> HIDE DEF entry
  <2>1. PICK q \in Nat, b \in 0..Page - 1 : entry = q * Page + b
    <3>1. ASSUME NEW physical \in Nat, NEW flags \in Nat, flags < Page
          PROVE  \E q \in Nat, b \in 0..Page - 1 : MapEntry(physical, flags) = q * Page + b
      <4>1. PICK q \in Nat, b \in 0..Page - 1 :
              /\ b % 2 = 1 /\ MapEntry(physical, flags) = q * Page + b
              /\ physical = q * Page + (physical % Page)
        BY <3>1, MapEntryFields
      <4>2. QED
        BY <4>1
    <3>2. QED
      BY <1>2, <3>1, Zenon DEF entry
  <2>2. QED
    BY <2>1, SizesAssumption
<1>4. /\ nMiscIndex = Len(maps) /\ nMiscIndex \in Nat /\ nMiscIndex' = nMiscIndex + 1
      /\ nMiscIndex' <= MaxMaps /\ nMiscIndex' < IndexRange
  <2>1. nMiscIndex = Len(maps) /\ nMiscIndex \in Nat
    BY <1>1, MapsAssumption DEF MapsInv, PagingTypeOK
  <2>2. nMiscIndex + 1 <= MaxMaps /\ nMiscIndex + 1 < IndexRange /\ IndexRange \in Nat
    BY <1>1, <2>1, MapsAssumption
  <2>3. (nMiscIndex + 1) % IndexRange = nMiscIndex + 1
    BY <2>1, <2>2, Small
  <2>4. QED
    BY <1>1, <2>1, <2>2, <2>3
<1>5. map \in [physical : Nat, virtual : Nat]
  <2>1. /\ MISC_PAGEDIR \in Nat /\ Span \in Nat /\ Page \in Nat \ {0}
        /\ Entries \in Nat \ {0}
    BY Sizes DEF Index
  <2>2. nMiscIndex % Entries \in Nat /\ r[1] % Page \in Nat
    BY <1>2, <1>4, <2>1
  <2>3. MISC_PAGEDIR * Span \in Nat /\ (nMiscIndex % Entries) * Page \in Nat
    BY <2>1, <2>2
  <2>4. MapAddress(nMiscIndex, r[1]) \in Nat
    BY <2>2, <2>3 DEF MapAddress
  <2>5. QED
    BY <1>2, <2>4
<1> HIDE DEF entry, map
<1>6. /\ maps' \in Seq([physical : Nat, virtual : Nat]) /\ Len(maps') = Len(maps) + 1
      /\ \A k \in DOMAIN maps' :
           \/ k \in DOMAIN maps /\ maps'[k] = maps[k] /\ k \in 1..Len(maps)
           \/ k = Len(maps) + 1 /\ maps'[k] = map
  BY <1>1, <1>5, SMTT(30) DEF PagingTypeOK
<1>7. /\ kernelpagedir \in [Index -> Nat] /\ lowpagetable \in [Index -> Nat]
      /\ miscpagetable \in [Index -> Nat] /\ behind \subseteq Nat
  BY <1>1 DEF PagingTypeOK
<1>8. nMiscIndex % Entries \in Index
  BY <1>4, Sizes DEF Index
<1>9. /\ kernelpagedir' \in [Index -> Nat] /\ lowpagetable' \in [Index -> Nat]
      /\ miscpagetable' \in [Index -> Nat] /\ behind' \subseteq Nat
  <2>1. CASE nMiscIndex < Entries
    BY <1>1, <1>3, <1>4, <1>7, <2>1 DEF StoreMisc
  <2>2. CASE ~(nMiscIndex < Entries)
    BY <1>1, <1>3, <1>4, <1>7, <1>8, <2>2 DEF StoreMisc
  <2>3. QED
    BY <2>1, <2>2
<1>10. PagingTypeOK'
  <2>1. nMiscIndex' \in 0..IndexRange - 1
    BY <1>4, MapsAssumption
  <2>2. QED
    BY <1>1, <1>6, <1>9, <2>1 DEF PagingTypeOK
<1>11. /\ Intact' <=> Len(maps') <= Entries
       /\ Intact' => Intact /\ nMiscIndex < Entries
  <2>1. CASE nMiscIndex < Entries
    <3>1. behind' = behind
      BY <1>1, <2>1 DEF StoreMisc
    <3>2. QED
      BY <1>1, <1>4, <1>6, <2>1, <3>1, SizesAssumption DEF MapsInv, Intact
  <2>2. CASE ~(nMiscIndex < Entries)
    <3>1. nMiscIndex \in behind'
      BY <1>1, <2>2 DEF StoreMisc
    <3>2. QED
      BY <1>4, <1>6, <2>2, <3>1, SizesAssumption DEF Intact
  <2>3. QED
    BY <2>1, <2>2
<1>12. Intact' => UNCHANGED <<kernelpagedir, lowpagetable>>
  BY <1>1, <1>11 DEF StoreMisc
<1>13. LoopInv' /\ DirectoryInv'
  BY <1>1, <1>11, <1>12 DEF LoopInv, DirectoryInv
<1>14. pg
  BY <1>1 DEF DirectoryInv
<1>15. MapsInv'
  <2>1. SUFFICES ASSUME NEW k \in DOMAIN maps', k <= Entries
                 PROVE  \E s \in Requests :
                          /\ maps'[k] = [physical |-> s[1], virtual |-> MapAddress(k - 1, s[1])]
                          /\ miscpagetable'[k - 1] = MapEntry(s[1], s[2])
    BY <1>1, <1>4, <1>6, <1>11, <1>14 DEF MapsInv
  <2>2. CASE k \in DOMAIN maps /\ maps'[k] = maps[k] /\ k \in 1..Len(maps)
    <3>1. miscpagetable'[k - 1] = miscpagetable[k - 1]
      <4>1. k - 1 # nMiscIndex /\ k - 1 \in Index
        BY <1>4, <2>1, <2>2, SizesAssumption DEF Index
      <4>2. QED
        BY <1>1, <1>7, <4>1 DEF StoreMisc
    <3>2. QED
      BY <1>1, <2>1, <2>2, <3>1 DEF MapsInv
  <2>3. CASE k = Len(maps) + 1 /\ maps'[k] = map
    <3>1. nMiscIndex \in Index /\ nMiscIndex < Entries /\ k - 1 = nMiscIndex
      BY <1>4, <2>1, <2>3, SizesAssumption DEF Index
    <3>2. miscpagetable'[nMiscIndex] = entry
      BY <1>1, <1>7, <3>1 DEF StoreMisc
    <3>3. QED
      BY <2>3, <3>1, <3>2 DEF entry, map
  <2>4. QED
    BY <1>6, <2>2, <2>3
<1>16. QED
  BY <1>10, <1>13, <1>15 DEF PagingInv

\* The invariant of paging.c, for whatever calls it.
LEMMA PagingStep == PagingInv /\ [PagingNext]_pagingVars => PagingInv'
<1>1. SUFFICES ASSUME PagingInv, [PagingNext]_pagingVars PROVE PagingInv'
  OBVIOUS
<1>2. CASE UNCHANGED pagingVars
  BY <1>1, <1>2 DEF pagingVars, tables, PagingInv, PagingTypeOK, LoopInv, DirectoryInv,
                    MapsInv, Intact
<1>3. CASE PagingInit
  BY <1>1, <1>3, FillTablesStep, FillDirectoryStep, EnablePagingStep DEF PagingInit
<1>4. CASE \E r \in Requests : PagingMap(r)
  BY <1>1, <1>4, PagingMapStep
<1>5. QED
  BY <1>1, <1>2, <1>3, <1>4 DEF PagingNext

\* The two tables are different frames, so each is walked for what it is.
LEMMA TableEntries ==
  ASSUME NEW n
  PROVE  /\ EntryIn(LoadAddress(Low), n) = lowpagetable[n]
         /\ EntryIn(LoadAddress(Misc), n) = miscpagetable[n]
<1>1. LoadAddress(Low) # LoadAddress(Misc)
  <2>1. Low \in Nat /\ Misc \in Nat /\ KernelBase \in Nat /\ Low # Misc
    BY TablesAssumption, Sizes
  <2>2. QED
    BY <2>1 DEF LoadAddress
<1>2. QED
  BY <1>1 DEF EntryIn

LEMMA PagingInvFaithful == PagingInv => MapsFaithful
<1>1. SUFFICES ASSUME PagingInv, Intact, NEW k \in DOMAIN maps
               PROVE  Translate(maps[k].virtual) = maps[k].physical
  BY DEF PagingInv, MapsInv, MapsFaithful
<1>2. k \in Nat /\ k - 1 \in Index /\ k <= Entries /\ maps # << >>
  <2>1. maps \in Seq([physical : Nat, virtual : Nat]) /\ Len(maps) <= Entries
    BY <1>1 DEF PagingInv, PagingTypeOK, MapsInv
  <2>2. k \in 1..Len(maps) /\ maps # << >>
    BY <1>1, <2>1
  <2>3. QED
    BY <2>1, <2>2, SizesAssumption DEF Index
<1>3. /\ pg /\ cr3 = LoadAddress(Dir)
      /\ kernelpagedir[MISC_PAGEDIR] = LoadAddress(Misc) + 3
  BY <1>1, <1>2 DEF PagingInv, MapsInv, DirectoryInv
<1>4. PICK r \in Requests :
        /\ maps[k] = [physical |-> r[1], virtual |-> MapAddress(k - 1, r[1])]
        /\ miscpagetable[k - 1] = MapEntry(r[1], r[2])
  BY <1>1, <1>2 DEF PagingInv, MapsInv
<1>5. r[1] \in Nat /\ r[2] \in Nat /\ r[2] < Page
  BY RequestsAssumption
<1>6. PICK q \in Nat, b \in 0..Page - 1 :
        /\ b % 2 = 1 /\ MapEntry(r[1], r[2]) = q * Page + b
        /\ r[1] = q * Page + (r[1] % Page)
  BY <1>5, MapEntryFields
<1>7. r[1] % Page \in 0..Page - 1
  BY <1>5, SizesAssumption
<1>8. (k - 1) % Entries = k - 1
  <2>1. k - 1 \in Nat /\ k - 1 < Entries /\ Entries \in Nat
    BY <1>2, SizesAssumption DEF Index
  <2>2. QED
    BY <2>1, Small
<1>9. MapAddress(k - 1, r[1]) = MISC_PAGEDIR * Span + (k - 1) * Page + (r[1] % Page)
  BY <1>8 DEF MapAddress
<1>10. EntryIn(LoadAddress(Misc), k - 1) = q * Page + b
  BY <1>4, <1>6, TableEntries
<1>11. MISC_PAGEDIR \in Index
  BY Sizes
<1>12. Walk(MapAddress(k - 1, r[1])) = q * Page + (r[1] % Page)
  BY <1>2, <1>3, <1>6, <1>7, <1>9, <1>10, <1>11, WalkThrough
<1>13. QED
  BY <1>3, <1>4, <1>6, <1>12 DEF Translate

\* Every address of the first Span is found there, and at KernelBase.
LEMMA LowWalk ==
  ASSUME PagingInv, pg, Intact, NEW n \in Index, NEW o \in 0..Page - 1
  PROVE  /\ Translate(n * Page + o) = n * Page + o
         /\ Translate(KernelBase + n * Page + o) = n * Page + o
<1>1. /\ cr3 = LoadAddress(Dir)
      /\ kernelpagedir[0] = LoadAddress(Low) + 3
      /\ kernelpagedir[KERNEL_PAGEDIR] = LoadAddress(Low) + 3
  BY DEF PagingInv, DirectoryInv
<1>2. lowpagetable[n] = n * Page + 3
  <2>1. phase = "ready" /\ i = Entries
    BY DEF PagingInv, DirectoryInv, LoopInv
  <2>2. n < i
    BY <2>1, SizesAssumption DEF Index
  <2>3. QED
    BY <2>2 DEF PagingInv, LoopInv
<1>3. EntryIn(LoadAddress(Low), n) = n * Page + 3
  BY <1>2, TableEntries
<1>4. 3 \in 0..Page - 1 /\ 3 % 2 = 1 /\ n \in Nat /\ o \in Nat
  BY SizesAssumption DEF Index
<1>5. KERNEL_PAGEDIR \in Index /\ 0 \in Index
  BY Sizes
<1>6. /\ Walk(0 * Span + n * Page + o) = n * Page + o
      /\ Walk(KERNEL_PAGEDIR * Span + n * Page + o) = n * Page + o
  BY <1>1, <1>3, <1>4, <1>5, WalkThrough
<1>7. 0 * Span + n * Page + o = n * Page + o
  BY <1>4, Sizes
<1>8. QED
  BY <1>6, <1>7, Sizes DEF Translate

LEMMA PagingInvLow == PagingInv => LowMemoryMapped
<1>1. SUFFICES ASSUME PagingInv, pg, Intact, NEW n \in Index
               PROVE  /\ Translate(n * Page) = n * Page
                      /\ Translate(KernelBase + n * Page) = n * Page
  BY DEF LowMemoryMapped
<1>2. 0 \in 0..Page - 1
  BY Sizes
<1>3. /\ Translate(n * Page + 0) = n * Page + 0
      /\ Translate(KernelBase + n * Page + 0) = n * Page + 0
  BY <1>1, <1>2, LowWalk
<1>4. n * Page + 0 = n * Page /\ KernelBase + n * Page + 0 = KernelBase + n * Page
  BY Sizes DEF Index
<1>5. QED
  BY <1>3, <1>4

LEMMA PagingInvHolds == PagingSpec => []PagingInv
  BY StartInv, PagingStep, PTL DEF PagingSpec

-----------------------------------------------------------------------------
(* The theorems.                                                           *)

\* paging_init's loop stays within the tables, and so does every store of
\* paging_map that is not recorded as going behind them.
THEOREM PagingTypeCorrect == PagingSpec => []PagingTypeOK
<1>1. PagingInv => PagingTypeOK
  BY DEF PagingInv
<1>2. QED
  BY <1>1, PagingInvHolds, PTL

\* The first Entries calls of paging_map return addresses that the processor
\* translates to what was asked for, for every table and page size, every
\* physical address and all flags; the call after them is the first that
\* stores behind miscpagetable.
THEOREM PagingMapsFaithful == PagingSpec => []MapsFaithful
  BY PagingInvFaithful, PagingInvHolds, PTL

\* The tables of paging_init map the first Span of memory at its own address
\* and at the kernel's, and paging_map within its table does not disturb it.
THEOREM PagingLowMemoryMapped == PagingSpec => []LowMemoryMapped
  BY PagingInvLow, PagingInvHolds, PTL

=============================================================================
