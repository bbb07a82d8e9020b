----------------------------- MODULE BootProofs -----------------------------
(***************************************************************************)
(* Theorems about the way into the higher half, for a machine of any size: *)
(* the segments of .setup and the page tables bridge the same distance.    *)
(***************************************************************************)
EXTENDS Boot, PagingProofs

-----------------------------------------------------------------------------
(* Descriptors.                                                            *)

\* The base of the segments of .setup, 0x40000000.
Quarter == (Byte \div 4) * Word * Byte

LEMMA Widths ==
  /\ Nib \in Nat \ {0} /\ Byte \in Nat \ {0} /\ Word \in Nat \ {0} /\ Nib >= 2
  /\ Byte = Nib * Nib /\ Word = Byte * Byte /\ Word * Word = Space /\ Byte >= 4
<1>1. Nib \in Nat /\ Nib >= 2 /\ Word * Word = Space
  BY NibAssumption
<1>2. Byte \in Nat /\ Byte >= 4 /\ Byte = Nib * Nib
  BY <1>1 DEF Byte
<1>3. Word \in Nat \ {0} /\ Word = Byte * Byte
  BY <1>2 DEF Word
<1>4. QED
  BY <1>1, <1>2, <1>3

\* The segments of .setup add what KERNEL_TO_REAL adds.
LEMMA QuarterOfSpace == Quarter = (Entries \div 4) * Span /\ Quarter \in Nat
<1>1. PICK h \in Nat : Nib = 2 * h
  BY NibAssumption
<1>2. Byte = 4 * (h * h) /\ h * h \in Nat
  BY <1>1, Widths
<1>3. Byte \div 4 = h * h
  BY <1>2
<1>4. Quarter \in Nat /\ 4 * Quarter = Byte * Word * Byte
  BY <1>2, <1>3, Widths DEF Quarter
<1>5. Byte * Word * Byte = Space
  BY Widths
<1> DEFINE q == Entries \div 4
<1>6. q \in Nat /\ Entries = 4 * q
  BY SizesAssumption
<1> HIDE DEF q
<1>7. Space = 4 * (q * Span) /\ q * Span \in Nat
  BY <1>6, Sizes
<1>8. QED
  BY <1>4, <1>5, <1>7 DEF q

\* What lies in three digits of the sizes of a descriptor's parts.
LEMMA BaseBound ==
  ASSUME NEW d \in Descriptor
  PROVE  SegmentBase(d) \in 0..Space - 1
<1>1. d.base_low \in 0..Word - 1 /\ d.base_middle \in 0..Byte - 1 /\ d.base_high \in 0..Byte - 1
  BY DEF Descriptor
<1>2. ASSUME NEW l \in 0..Word - 1, NEW m \in 0..Byte - 1, NEW h \in 0..Byte - 1
      PROVE  l + m * Word + h * Word * Byte \in 0..Space - 1
  <2>1. l + m * Word \in 0..Word * Byte - 1
    <3>1. m * Word <= (Byte - 1) * Word /\ m * Word \in Nat
      BY Widths
    <3>2. (Byte - 1) * Word = Word * Byte - Word /\ Word * Byte \in Nat
      BY Widths
    <3>3. QED
      BY <3>1, <3>2, Widths
  <2> DEFINE W == Word * Byte
  <2>2. W \in Nat /\ h * Word * Byte = h * W /\ Space = Byte * W
    BY Widths
  <2>3. l + m * Word \in 0..W - 1
    BY <2>1
  <2> HIDE DEF W
  <2>4. h * W <= (Byte - 1) * W /\ h * W \in Nat /\ (Byte - 1) * W = Byte * W - W
    BY <2>2, Widths
  <2>5. QED
    BY <2>2, <2>3, <2>4
<1>3. QED
  BY <1>1, <1>2 DEF SegmentBase

\* The limit of a flat descriptor, both as .setup has it and as gdt_set_gate
\* packs it.
LEMMA FlatLimit ==
  /\ Flat % Nib = Nib - 1 /\ HighHalf(Flat) = Byte - Nib
  /\ NoLimit % Word = Word - 1 /\ (NoLimit \div Word) % Nib = Nib - 1
  /\ (Nib - 1 + (Byte - Nib)) % Nib = Nib - 1
  /\ Word - 1 + (Nib - 1) * Word = Word * Nib - 1
<1>1. Nib - 1 \in 0..Nib - 1 /\ Nib - 1 \in Nat /\ Word - 1 \in 0..Word - 1 /\ Word - 1 \in Nat
  BY Widths
<1>2. Flat = (Nib - 1) * Nib + (Nib - 1)
  BY Widths DEF Flat
<1>3. Flat % Nib = Nib - 1
  BY <1>1, <1>2, Widths, Compose
<1>4. HighHalf(Flat) = Byte - Nib
  BY <1>3, Widths DEF HighHalf, Flat
<1>5. NoLimit = (Word - 1) * Word + (Word - 1)
  BY Widths DEF NoLimit
<1>6. NoLimit % Word = Word - 1 /\ NoLimit \div Word = Word - 1
  <2>1. Word \in Nat \ {0}
    BY Widths
  <2>2. QED
    BY <1>1, <1>5, <2>1, Compose
<1>7. (Word - 1) % Nib = Nib - 1
  <2> DEFINE a == Nib * Nib * Nib - 1
  <2>1. a \in Nat /\ Word - 1 = a * Nib + (Nib - 1)
    BY Widths
  <2> HIDE DEF a
  <2>2. Nib \in Nat \ {0}
    BY Widths
  <2>3. (a * Nib + (Nib - 1)) % Nib = Nib - 1
    BY <1>1, <2>1, <2>2, Compose
  <2>4. QED
    BY <2>1, <2>3
<1>8. Nib - 1 + (Byte - Nib) = Flat
  BY Widths DEF Flat
<1>9. Word - 1 + (Nib - 1) * Word = Word * Nib - 1
  BY Widths
<1>10. QED
  BY <1>3, <1>4, <1>6, <1>7, <1>8, <1>9

Types == {"null", "code", "data", "user_code", "user_data"}

\* The descriptors of .setup as the processor reads them.
LEMMA FakeDescriptors ==
  ASSUME NEW a \in Types
  PROVE  /\ FakeDescriptor(a) \in Descriptor /\ FakeDescriptor(a).access = a
         /\ SegmentBase(FakeDescriptor(a)) = Quarter
         /\ SegmentLimit(FakeDescriptor(a)) = Word * Nib - 1
<1>1. /\ Byte \div 4 \in 0..Byte - 1 /\ Word - 1 \in 0..Word - 1 /\ Flat \in 0..Byte - 1
      /\ 0 \in 0..Word - 1 /\ 0 \in 0..Byte - 1
  BY Widths DEF Flat
<1>2. FakeDescriptor(a) \in Descriptor /\ FakeDescriptor(a).access = a
  BY <1>1 DEF FakeDescriptor, Descriptor, Types
<1>3. SegmentBase(FakeDescriptor(a)) = 0 + 0 * Word + (Byte \div 4) * Word * Byte
  BY DEF SegmentBase, FakeDescriptor
<1>4. 0 + 0 * Word + (Byte \div 4) * Word * Byte = Quarter
  BY QuarterOfSpace, Widths DEF Quarter
<1>5. SegmentLimit(FakeDescriptor(a)) = Word - 1 + (Flat % Nib) * Word
  BY DEF SegmentLimit, FakeDescriptor
<1>6. QED
  BY <1>2, <1>3, <1>4, <1>5, FlatLimit

LEMMA Zero ==
  ASSUME NEW n \in Nat \ {0}
  PROVE  0 % n = 0 /\ 0 \div n = 0
<1>1. (0 * n + 0) % n = 0 /\ (0 * n + 0) \div n = 0
  BY Compose
<1>2. QED
  BY <1>1

\* The descriptors gdt_init makes.
LEMMA FlatDescriptors ==
  ASSUME NEW a \in Types
  PROVE  LET d == gdt_set_gate(0, NoLimit, a, Flat)
         IN /\ d \in Descriptor /\ d.access = a
            /\ SegmentBase(d) = 0 /\ SegmentLimit(d) = Word * Nib - 1
<1> DEFINE d == gdt_set_gate(0, NoLimit, a, Flat)
<1>1. 0 % Word = 0 /\ 0 \div Word = 0 /\ 0 \div (Word * Byte) = 0 /\ 0 % Byte = 0
  <2>1. Word \in Nat \ {0} /\ Byte \in Nat \ {0} /\ Word * Byte \in Nat \ {0}
    BY Widths
  <2>2. QED
    BY <2>1, Zero
<1>2. d = [base_low |-> 0, base_middle |-> 0, base_high |-> 0, limit_low |-> Word - 1,
           granularity |-> Nib - 1 + (Byte - Nib), access |-> a]
  BY <1>1, FlatLimit DEF gdt_set_gate
<1> HIDE DEF d
<1>3. /\ Word - 1 \in 0..Word - 1 /\ Nib - 1 + (Byte - Nib) \in 0..Byte - 1
      /\ 0 \in 0..Word - 1 /\ 0 \in 0..Byte - 1
  BY Widths
<1>4. d \in Descriptor /\ d.access = a
  BY <1>2, <1>3 DEF Descriptor, Types
<1>5. SegmentBase(d) = 0 + 0 * Word + 0 * Word * Byte
  BY <1>2 DEF SegmentBase
<1>6. SegmentLimit(d) = Word - 1 + (Nib - 1) * Word
  BY <1>2, FlatLimit DEF SegmentLimit
<1>7. 0 + 0 * Word + 0 * Word * Byte = 0
  BY Widths
<1>8. QED
  BY <1>4, <1>5, <1>6, <1>7, FlatLimit DEF d

LEMMA NullDescriptorType == NullDescriptor \in Descriptor
<1>1. /\ 0 % Word = 0 /\ 0 \div Word = 0 /\ 0 \div (Word * Byte) = 0 /\ 0 % Byte = 0
      /\ 0 % Nib = 0
  <2>1. /\ Word \in Nat \ {0} /\ Byte \in Nat \ {0} /\ Word * Byte \in Nat \ {0}
        /\ Nib \in Nat \ {0}
    BY Widths
  <2>2. QED
    BY <2>1, Zero
<1>2. NullDescriptor = [base_low |-> 0, base_middle |-> 0, base_high |-> 0, limit_low |-> 0,
                        granularity |-> 0, access |-> "null"]
  BY <1>1 DEF NullDescriptor, gdt_set_gate, HighHalf
<1>3. 0 \in 0..Word - 1 /\ 0 \in 0..Byte - 1
  BY Widths
<1>4. QED
  BY <1>2, <1>3 DEF Descriptor

\* The entry of gdt_init for the n-th descriptor.
LEMMA GatesType ==
  /\ \A n \in 1..5 : Gates[n] \in Descriptor
  /\ Gates[2] = gdt_set_gate(0, NoLimit, "code", Flat)
  /\ Gates[3] = gdt_set_gate(0, NoLimit, "data", Flat)
<1>1. /\ Gates[1] = NullDescriptor
      /\ Gates[2] = gdt_set_gate(0, NoLimit, "code", Flat)
      /\ Gates[3] = gdt_set_gate(0, NoLimit, "data", Flat)
      /\ Gates[4] = gdt_set_gate(0, NoLimit, "user_code", Flat)
      /\ Gates[5] = gdt_set_gate(0, NoLimit, "user_data", Flat)
  BY DEF Gates
<1>2. \A a \in Types : gdt_set_gate(0, NoLimit, a, Flat) \in Descriptor
  BY FlatDescriptors
<1>3. \A n \in 1..5 : n = 1 \/ n = 2 \/ n = 3 \/ n = 4 \/ n = 5
  OBVIOUS
<1>4. QED
  BY <1>1, <1>2, <1>3, NullDescriptorType DEF Types

\* A gate holds all of an address.
LEMMA GateFields ==
  ASSUME NEW a \in 0..Space - 1
  PROVE  LET g == idt_set_gate(a, 8, "interrupt")
         IN g \in Gate /\ GateAddress(g) = a /\ g.flags = "interrupt" /\ g.selector = 8
<1> DEFINE g == idt_set_gate(a, 8, "interrupt")
<1>1. Word \in Nat \ {0} /\ a \in Nat /\ a < Word * Word
  BY Widths
<1>2. /\ a \div Word \in Nat /\ a % Word \in 0..Word - 1
      /\ a = (a \div Word) * Word + (a % Word)
  BY <1>1, DivMod
<1>3. a \div Word < Word
  <2> DEFINE q == a \div Word
  <2>1. q \in Nat /\ q * Word <= a
    BY <1>1, <1>2
  <2> HIDE DEF q
  <2>2. q >= Word => q * Word >= Word * Word
    BY <1>1, <2>1
  <2>3. q * Word \in Nat /\ Word * Word \in Nat
    BY <1>1, <2>1
  <2>4. QED
    BY <1>1, <2>1, <2>2, <2>3 DEF q
<1>4. (a \div Word) % Word = a \div Word
  BY <1>1, <1>2, <1>3, Small
<1>5. g = [base_low |-> a % Word, base_high |-> a \div Word, selector |-> 8, flags |-> "interrupt"]
  BY <1>4 DEF idt_set_gate
<1>6. a \div Word \in 0..Word - 1
  BY <1>1, <1>2, <1>3
<1> HIDE DEF g
<1>7. g \in Gate /\ g.flags = "interrupt" /\ g.selector = 8
  BY <1>2, <1>5, <1>6 DEF Gate
<1>8. GateAddress(g) = (a % Word) + (a \div Word) * Word
  BY <1>5 DEF GateAddress
<1>9. GateAddress(g) = a
  <2>1. a % Word \in Nat /\ (a \div Word) * Word \in Nat
    BY <1>1, <1>2
  <2>2. QED
    BY <1>2, <1>8, <2>1
<1>10. QED
  BY <1>7, <1>9 DEF g

-----------------------------------------------------------------------------
(* Memory.                                                                 *)

\* With paging on, an address of the first Span and its linked counterpart.
LEMMA LowAddress ==
  ASSUME PagingInv, pg, Intact, NEW l \in 0..Span - 1
  PROVE  Translate(l) = l /\ Translate(KernelBase + l) = l
<1> DEFINE n == l \div Page
           o == l % Page
<1>1. Page \in Nat \ {0} /\ Entries \in Nat \ {0} /\ l \in Nat /\ l < Entries * Page
  BY Sizes
<1>2. n \in Nat /\ o \in 0..Page - 1 /\ l = n * Page + o
  BY <1>1, DivMod
<1> HIDE DEF n, o
<1>3. n < Entries
  <2>1. n >= Entries => n * Page >= Entries * Page
    BY <1>1, <1>2
  <2>2. n * Page \in Nat /\ Entries * Page \in Nat
    BY <1>1, <1>2
  <2>3. QED
    BY <1>1, <1>2, <2>1, <2>2
<1>4. n \in Index
  BY <1>1, <1>2, <1>3 DEF Index
<1>5. Translate(n * Page + o) = n * Page + o /\ Translate(KernelBase + n * Page + o) = n * Page + o
  BY <1>2, <1>4, LowWalk
<1>6. KernelBase + n * Page + o = KernelBase + l
  <2>1. KernelBase \in Nat /\ n * Page \in Nat /\ o \in Nat
    BY <1>1, <1>2, Sizes
  <2>2. QED
    BY <1>2, <2>1
<1>7. QED
  BY <1>2, <1>5, <1>6

\* The kernel's addresses lie above its load addresses and below Space.
LEMMA KernelRange ==
  /\ KernelBase \in Nat /\ Span \in Nat /\ Space \in Nat
  /\ Span <= KernelBase /\ KernelBase + Span <= Space
<1>1. KernelBase \in Nat /\ Span \in Nat /\ Space \in Nat
  BY Sizes
<1>2. PICK q \in Nat : Entries \div 4 = q /\ q >= 2
  <2>1. Entries \div 4 \in Nat /\ Entries \div 4 >= 2
    BY SizesAssumption
  <2>2. QED
    BY <2>1
<1>3. KernelBase = 3 * (q * Span) /\ q * Span \in Nat /\ q * Span >= 2 * Span
  BY <1>1, <1>2 DEF KernelBase
<1>4. KernelBase + q * Span = Space
  BY <1>2, Sizes
<1>5. QED
  BY <1>1, <1>3, <1>4

LEMMA Linked ==
  ASSUME NEW a \in {Text, Stack, Gdt, Idt}
  PROVE  a = KernelBase + LoadAddress(a) /\ LoadAddress(a) \in 0..Span - 1
<1>1. a \in Nat /\ a > KernelBase /\ a < KernelBase + Span
  BY LayoutAssumption
<1>2. QED
  BY <1>1, KernelRange DEF LoadAddress

\* With either base the processor finds a kernel address where it was loaded.
LEMMA InKernel ==
  ASSUME NEW a \in Nat, a > KernelBase, a < KernelBase + Span, NEW b,
         \/ b = Quarter /\ ~pg
         \/ b \in {0, Quarter} /\ pg /\ PagingInv /\ Intact
  PROVE  Access(b, a) = LoadAddress(a) /\ Physical(a) = LoadAddress(a)
<1>1. /\ (a + Quarter) % Space = LoadAddress(a) /\ LoadAddress(a) \in 1..Span - 1
      /\ Quarter \in Nat
  BY ToReal, QuarterOfSpace DEF KERNEL_TO_REAL
<1>2. (Quarter + a) % Space = LoadAddress(a)
  <2>1. Quarter + a = a + Quarter
    BY <1>1
  <2>2. QED
    BY <1>1, <2>1
<1>3. (0 + a) % Space = a
  <2>1. a < Space /\ Space \in Nat
    BY KernelRange
  <2>2. QED
    BY <2>1, Small
<1>4. LoadAddress(a) \in 0..Span - 1 /\ a = KernelBase + LoadAddress(a)
  BY <1>1, KernelRange DEF LoadAddress
<1>5. Physical(a) = LoadAddress(a)
  BY KernelRange DEF Physical
<1>6. CASE b = Quarter /\ ~pg
  BY <1>2, <1>5, <1>6 DEF Access, Translate
<1>7. CASE b \in {0, Quarter} /\ pg /\ PagingInv /\ Intact
  <2>1. Translate(LoadAddress(a)) = LoadAddress(a) /\ Translate(a) = LoadAddress(a)
    BY <1>4, <1>7, LowAddress
  <2>2. QED
    BY <1>2, <1>3, <1>5, <1>7, <2>1 DEF Access
<1>8. QED
  BY <1>6, <1>7

LEMMA TableLimits == TableLimit(3) = 23 /\ TableLimit(256) = 2047 /\ GdtLimit = 23
  BY DEF TableLimit, DescriptorSize, GdtLimit

\* The table the processor looks descriptors up in.
LoadedTable ==
  CASE Translate(gdtr.base) = Setup            -> FakeGdt
    [] Translate(gdtr.base) = LoadAddress(Gdt) -> gdt
    [] OTHER                                   -> << >>

LEMMA LoadedIn ==
  ASSUME NEW n, NEW a
  PROVE  Loaded(n, a) = {d \in {LoadedTable[k] : k \in (DOMAIN LoadedTable) \cap {n + 1}} :
                           /\ DescriptorSize * n + (DescriptorSize - 1) <= gdtr.limit
                           /\ d.access = a /\ SegmentLimit(d) = Word * Nib - 1}
  BY DEF Loaded, LoadedTable

\* A selector that the limit covers, of a flat descriptor of the right type.
LEMMA LoadedOne ==
  ASSUME NEW n \in 1..2, NEW a, n + 1 \in DOMAIN LoadedTable, gdtr.limit = 23,
         LoadedTable[n + 1].access = a, SegmentLimit(LoadedTable[n + 1]) = Word * Nib - 1
  PROVE  Loaded(n, a) = {LoadedTable[n + 1]}
<1>1. {LoadedTable[k] : k \in (DOMAIN LoadedTable) \cap {n + 1}} = {LoadedTable[n + 1]}
  <2>1. (DOMAIN LoadedTable) \cap {n + 1} = {n + 1}
    OBVIOUS
  <2>2. QED
    BY <2>1
<1>2. DescriptorSize * n + (DescriptorSize - 1) <= gdtr.limit
  BY DEF DescriptorSize
<1>3. QED
  BY <1>1, <1>2, LoadedIn

\* The loaded table is .setup's before gdt_flush.
LEMMA LoadedFake ==
  ASSUME gdtr = [base |-> Setup, limit |-> TableLimit(3)], ~pg
  PROVE  /\ Loaded(2, "data") = {FakeDescriptor("data")}
         /\ Loaded(1, "code") = {FakeDescriptor("code")}
<1>1. Translate(gdtr.base) = Setup /\ gdtr.limit = 23 /\ Setup # LoadAddress(Gdt)
  BY TableLimits, LayoutAssumption DEF Translate
<1>2. LoadedTable = FakeGdt
  BY <1>1 DEF LoadedTable
<1>3. FakeGdt[2] = FakeDescriptor("code") /\ FakeGdt[3] = FakeDescriptor("data")
      /\ DOMAIN FakeGdt = 1..3
  BY DEF FakeGdt
<1>4. Loaded(1, "code") = {LoadedTable[1 + 1]}
  <2>1. LoadedTable[1 + 1] = FakeDescriptor("code") /\ 1 + 1 \in DOMAIN LoadedTable
    BY <1>2, <1>3
  <2>2. QED
    BY <1>1, <2>1, LoadedOne, FakeDescriptors DEF Types
<1>5. Loaded(2, "data") = {LoadedTable[2 + 1]}
  <2>1. LoadedTable[2 + 1] = FakeDescriptor("data") /\ 2 + 1 \in DOMAIN LoadedTable
    BY <1>2, <1>3
  <2>2. QED
    BY <1>1, <2>1, LoadedOne, FakeDescriptors DEF Types
<1>6. QED
  BY <1>2, <1>3, <1>4, <1>5

\* After it, the table of tables.c, as long as the page tables are intact.
LEMMA LoadedReal ==
  ASSUME gdtr = [base |-> Gdt, limit |-> GdtLimit], pg, Intact, PagingInv,
         gdt \in [1..5 -> Descriptor], gdt[2] = Gates[2], gdt[3] = Gates[3]
  PROVE  /\ Loaded(2, "data") = {Gates[3]} /\ Loaded(1, "code") = {Gates[2]}
         /\ SegmentBase(Gates[2]) = 0 /\ SegmentBase(Gates[3]) = 0
<1>1. Translate(Gdt) = LoadAddress(Gdt)
  <2>1. Gdt = KernelBase + LoadAddress(Gdt) /\ LoadAddress(Gdt) \in 0..Span - 1
    BY Linked
  <2>2. QED
    BY <2>1, LowAddress
<1>2. gdtr.limit = 23 /\ Setup # LoadAddress(Gdt)
  BY TableLimits, LayoutAssumption
<1>3. LoadedTable = gdt
  BY <1>1, <1>2 DEF LoadedTable
<1>4. /\ Gates[2].access = "code" /\ SegmentLimit(Gates[2]) = Word * Nib - 1
      /\ Gates[3].access = "data" /\ SegmentLimit(Gates[3]) = Word * Nib - 1
      /\ SegmentBase(Gates[2]) = 0 /\ SegmentBase(Gates[3]) = 0
  BY GatesType, FlatDescriptors DEF Types
<1>5. Loaded(1, "code") = {LoadedTable[1 + 1]}
  <2>1. LoadedTable[1 + 1] = Gates[2] /\ 1 + 1 \in DOMAIN LoadedTable
    BY <1>3
  <2>2. QED
    BY <1>2, <1>4, <2>1, LoadedOne
<1>6. Loaded(2, "data") = {LoadedTable[2 + 1]}
  <2>1. LoadedTable[2 + 1] = Gates[3] /\ 2 + 1 \in DOMAIN LoadedTable
    BY <1>3
  <2>2. QED
    BY <1>2, <1>4, <2>1, LoadedOne
<1>7. QED
  BY <1>3, <1>4, <1>5, <1>6

\* Whatever table is found, a descriptor of it has a base in memory.
LEMMA LoadedType ==
  ASSUME gdt \in [1..5 -> Descriptor], NEW n \in Nat, NEW a, NEW d \in Loaded(n, a)
  PROVE  SegmentBase(d) \in 0..Space - 1
<1>1. PICK k \in DOMAIN LoadedTable : d = LoadedTable[k]
  BY LoadedIn
<1>2. CASE LoadedTable = FakeGdt
  <2>1. /\ FakeGdt[1] = NullDescriptor /\ FakeGdt[2] = FakeDescriptor("code")
        /\ FakeGdt[3] = FakeDescriptor("data") /\ DOMAIN FakeGdt = 1..3
    BY DEF FakeGdt
  <2>2. k = 1 \/ k = 2 \/ k = 3
    BY <1>1, <1>2, <2>1
  <2>3. d \in Descriptor
    BY <1>1, <1>2, <2>1, <2>2, NullDescriptorType, FakeDescriptors DEF Types
  <2>4. QED
    BY <2>3, BaseBound
<1>3. CASE LoadedTable = gdt
  BY <1>1, <1>3, BaseBound
<1>4. CASE LoadedTable = << >>
  BY <1>1, <1>4
<1>5. QED
  BY <1>2, <1>3, <1>4 DEF LoadedTable

-----------------------------------------------------------------------------
(* The invariant.                                                          *)

Early   == {"lgdt_fake", "segments", "ljmp", "stack", "paging_init"}
Flushed == {"flush_segments", "flush_ljmp", "idt_init"} \cup Running

\* The boot's own part of the type invariant.
BootTypeOK ==
  /\ pc \in {"lgdt_fake", "segments", "ljmp", "stack", "reset"} \cup InC
  /\ {cs, ds, ss, eip, esp} \subseteq 0..Space - 1
  /\ gdtr \in [base : Nat, limit : Nat] /\ idtr \in [base : Nat, limit : Nat]
  /\ gdt \in [1..5 -> Descriptor] /\ idts \in [0..255 -> Gate]
  /\ num \in 0..5 /\ vector \in 0..255

\* Which tables are loaded, and how far they are filled, at each instruction.
TableInv ==
  /\ pc \in Early => ~pg
  /\ pc \in {"gdt_init"} \cup Flushed => pg
  /\ pc \in {"segments", "ljmp"} => gdtr = [base |-> Setup, limit |-> TableLimit(3)]
  /\ pc \in Flushed => gdtr = [base |-> Gdt, limit |-> GdtLimit] /\ num = 5
  /\ \A n \in 1..5 : n <= num => gdt[n] = Gates[n]
  /\ pc \in Running =>
       /\ idtr = [base |-> Idt, limit |-> TableLimit(256)]
       /\ \A v \in 0..47 : idts[v] = idt_set_gate(Stub(v), 8, "interrupt")

\* The segments at each instruction, while the page tables are intact.
SegmentInv ==
  Intact =>
    /\ pc # "reset"
    /\ pc \in {"lgdt_fake", "segments", "ljmp"} => cs = 0 /\ eip = LoadAddress(Text)
    /\ pc \in {"stack", "paging_init", "gdt_init", "flush_segments", "flush_ljmp"} =>
         cs = Quarter /\ eip = Text
    /\ pc \in {"idt_init", "terminal_initialize", "run"} => cs = 0 /\ eip = Text
    /\ pc = "stub" => cs = 0 /\ eip = Stub(vector) /\ vector \in 0..47
    /\ pc \in {"ljmp", "stack", "paging_init", "gdt_init", "flush_segments"} =>
         ds = Quarter /\ ss = Quarter
    /\ pc \in {"flush_ljmp", "idt_init"} \cup Running => ds = 0 /\ ss = 0
    /\ pc \in InC => esp = Stack

IInv == PagingInv /\ BootTypeOK /\ TableInv /\ SegmentInv

LEMMA Addresses ==
  /\ 0 \in 0..Space - 1 /\ Text \in 0..Space - 1 /\ LoadAddress(Text) \in 0..Space - 1
  /\ Stack \in 0..Space - 1 /\ Quarter \in 0..Space - 1
  /\ Setup \in Nat /\ Gdt \in Nat /\ Idt \in Nat
  /\ \A v \in 0..47 : /\ Stub(v) \in 0..Space - 1 /\ Stub(v) \in Nat
                       /\ Stub(v) > KernelBase /\ Stub(v) < KernelBase + Span
<1>1. /\ Text \in Nat /\ Text > KernelBase /\ Text + 48 < KernelBase + Span
      /\ Stack \in Nat /\ Stack < KernelBase + Span /\ Gdt \in Nat /\ Idt \in Nat
      /\ Setup \in 0..Span - 1
  BY LayoutAssumption
<1>2. Quarter \in 0..Space - 1
  BY FakeDescriptors, BaseBound DEF Types
<1>3. QED
  BY <1>1, <1>2, KernelRange DEF Stub, LoadAddress

LEMMA InitIInv == Init => IInv
<1>1. SUFFICES ASSUME Init PROVE BootTypeOK /\ TableInv /\ SegmentInv
  BY StartInv DEF Init, IInv
<1>2. BootTypeOK
  <2>1. pc \in {"lgdt_fake", "segments", "ljmp", "stack", "reset"} \cup InC
    BY <1>1 DEF Init
  <2>2. {cs, ds, ss, eip, esp} \subseteq 0..Space - 1
    BY <1>1, Addresses DEF Init
  <2>3. gdtr \in [base : Nat, limit : Nat] /\ idtr \in [base : Nat, limit : Nat]
    BY <1>1 DEF Init
  <2>4. gdt \in [1..5 -> Descriptor]
    BY <1>1, NullDescriptorType DEF Init
  <2>5. idts \in [0..255 -> Gate]
    <3>1. NoGate \in Gate
      BY Widths DEF NoGate, Gate
    <3>2. QED
      BY <1>1, <3>1 DEF Init
  <2>6. num \in 0..5 /\ vector \in 0..255
    BY <1>1 DEF Init
  <2>7. QED
    BY <2>1, <2>2, <2>3, <2>4, <2>5, <2>6 DEF BootTypeOK
<1>3. TableInv
  BY <1>1 DEF Init, PagingStart, TableInv, Running, Flushed
<1>4. SegmentInv
  BY <1>1 DEF Init, SegmentInv, InC, Running
<1>5. QED
  BY <1>2, <1>3, <1>4

\* The steps of the boot that neither load a selector nor touch a page table.
LEMMA PlainStep ==
  ASSUME IInv, UNCHANGED pagingVars,
         \/ LgdtFake \/ SetStack \/ SetGate \/ GdtFlush \/ TerminalInitialize
  PROVE  BootTypeOK' /\ TableInv' /\ SegmentInv'
<1>1. BootTypeOK /\ TableInv /\ SegmentInv /\ pg' = pg /\ behind' = behind
  BY DEF IInv, pagingVars
<1>2. CASE LgdtFake
  <2>1. [base |-> Setup, limit |-> TableLimit(3)] \in [base : Nat, limit : Nat]
    BY Addresses, TableLimits
  <2>2. BootTypeOK'
    BY <1>1, <1>2, <2>1 DEF LgdtFake, BootTypeOK
  <2>3. TableInv' /\ SegmentInv'
    BY <1>1, <1>2 DEF LgdtFake, TableInv, SegmentInv, Intact, Early, Flushed, Running, InC
  <2>4. QED
    BY <2>2, <2>3
<1>3. CASE SetStack
  <2>1. BootTypeOK'
    BY <1>1, <1>3, Addresses DEF SetStack, BootTypeOK, InC
  <2>2. TableInv' /\ SegmentInv'
    BY <1>1, <1>3 DEF SetStack, TableInv, SegmentInv, Intact, Early, Flushed, Running, InC
  <2>3. QED
    BY <2>1, <2>2
<1>4. CASE SetGate
  <2>1. num \in 0..4 /\ num' = num + 1 /\ gdt' = [gdt EXCEPT ![num + 1] = Gates[num + 1]]
        /\ pc = "gdt_init"
    BY <1>1, <1>4 DEF SetGate, BootTypeOK
  <2>2. num + 1 \in 1..5 /\ Gates[num + 1] \in Descriptor
    BY <2>1, GatesType
  <2>3. gdt \in [1..5 -> Descriptor]
    BY <1>1 DEF BootTypeOK
  <2>4. gdt' \in [1..5 -> Descriptor] /\ num' \in 0..5
    BY <2>1, <2>2, <2>3
  <2>5. \A n \in 1..5 : n <= num' => gdt'[n] = Gates[n]
    <3>1. \A n \in 1..5 : n <= num + 1 => n <= num \/ n = num + 1
      BY <2>1
    <3>2. QED
      BY <1>1, <2>1, <2>2, <2>3, <3>1 DEF TableInv
  <2>6. BootTypeOK'
    BY <1>1, <1>4, <2>4 DEF SetGate, BootTypeOK
  <2>7. TableInv' /\ SegmentInv'
    BY <1>1, <1>4, <2>1, <2>5 DEF SetGate, TableInv, SegmentInv, Intact, Early, Flushed,
                                  Running, InC
  <2>8. QED
    BY <2>6, <2>7
<1>5. CASE GdtFlush
  <2>1. [base |-> Gdt, limit |-> GdtLimit] \in [base : Nat, limit : Nat]
    BY Addresses, TableLimits
  <2>2. BootTypeOK'
    BY <1>1, <1>5, <2>1 DEF GdtFlush, BootTypeOK, InC
  <2>3. TableInv' /\ SegmentInv'
    BY <1>1, <1>5 DEF GdtFlush, TableInv, SegmentInv, Intact, Early, Flushed, Running, InC
  <2>4. QED
    BY <2>2, <2>3
<1>6. CASE TerminalInitialize
  <2>1. BootTypeOK'
    BY <1>1, <1>6 DEF TerminalInitialize, BootTypeOK, InC, Running
  <2>2. TableInv' /\ SegmentInv'
    BY <1>1, <1>6 DEF TerminalInitialize, TableInv, SegmentInv, Intact, Early, Flushed,
                      Running, InC
  <2>3. QED
    BY <2>1, <2>2
<1>7. QED
  BY <1>2, <1>3, <1>4, <1>5, <1>6

\* idt_init fills the gates and loads the table.
LEMMA IdtInitStep ==
  ASSUME IInv, UNCHANGED pagingVars, IdtInit
  PROVE  BootTypeOK' /\ TableInv' /\ SegmentInv'
<1>1. BootTypeOK /\ TableInv /\ SegmentInv /\ pg' = pg /\ behind' = behind
  BY DEF IInv, pagingVars
<1>2. [base |-> Idt, limit |-> TableLimit(256)] \in [base : Nat, limit : Nat]
  BY Addresses, TableLimits
<1>3. idts' \in [0..255 -> Gate]
  <2>1. NoGate \in Gate
    BY Widths DEF NoGate, Gate
  <2>2. \A v \in 0..255 : v < 48 => idt_set_gate(Stub(v), 8, "interrupt") \in Gate
    <3>1. \A v \in 0..255 : v < 48 => v \in 0..47
      OBVIOUS
    <3>2. QED
      BY <3>1, Addresses, GateFields
  <2>3. QED
    BY <2>1, <2>2 DEF IdtInit
<1>4. \A v \in 0..47 : idts'[v] = idt_set_gate(Stub(v), 8, "interrupt")
  <2>1. \A v \in 0..47 : v \in 0..255 /\ v < 48
    OBVIOUS
  <2>2. QED
    BY <2>1 DEF IdtInit
<1>5. BootTypeOK'
  BY <1>1, <1>2, <1>3 DEF IdtInit, BootTypeOK, InC, Running
<1>6. TableInv'
  BY <1>1, <1>4 DEF IdtInit, TableInv, Early, Flushed, Running
<1>7. SegmentInv'
  BY <1>1 DEF IdtInit, SegmentInv, Intact, Running, InC
<1>8. QED
  BY <1>5, <1>6, <1>7

\* What a selector load finds at each place the boot loads one.
LEMMA Found ==
  ASSUME IInv, Intact
  PROVE  /\ pc \in {"segments", "ljmp"} =>
              /\ Loaded(2, "data") = {FakeDescriptor("data")}
              /\ Loaded(1, "code") = {FakeDescriptor("code")}
         /\ pc \in Flushed =>
              /\ Loaded(2, "data") = {Gates[3]} /\ Loaded(1, "code") = {Gates[2]}
         /\ SegmentBase(FakeDescriptor("data")) = Quarter
         /\ SegmentBase(FakeDescriptor("code")) = Quarter
         /\ SegmentBase(Gates[2]) = 0 /\ SegmentBase(Gates[3]) = 0
<1>1. pc \in {"segments", "ljmp"} =>
        /\ Loaded(2, "data") = {FakeDescriptor("data")}
        /\ Loaded(1, "code") = {FakeDescriptor("code")}
  <2>1. pc \in {"segments", "ljmp"} =>
          ~pg /\ gdtr = [base |-> Setup, limit |-> TableLimit(3)]
    BY DEF IInv, TableInv, Early
  <2>2. QED
    BY <2>1, LoadedFake
<1>2. pc \in Flushed => Loaded(2, "data") = {Gates[3]} /\ Loaded(1, "code") = {Gates[2]}
  <2>1. SUFFICES ASSUME pc \in Flushed
                 PROVE  Loaded(2, "data") = {Gates[3]} /\ Loaded(1, "code") = {Gates[2]}
    OBVIOUS
  <2>2. pg /\ gdtr = [base |-> Gdt, limit |-> GdtLimit] /\ num = 5
    BY <2>1 DEF IInv, TableInv
  <2>3. gdt[2] = Gates[2] /\ gdt[3] = Gates[3] /\ gdt \in [1..5 -> Descriptor]
    BY <2>2 DEF IInv, TableInv, BootTypeOK
  <2>4. QED
    BY <2>2, <2>3, LoadedReal DEF IInv
<1>3. /\ SegmentBase(FakeDescriptor("data")) = Quarter
      /\ SegmentBase(FakeDescriptor("code")) = Quarter
      /\ SegmentBase(Gates[2]) = 0 /\ SegmentBase(Gates[3]) = 0
  BY FakeDescriptors, FlatDescriptors, GatesType DEF Types
<1>4. QED
  BY <1>1, <1>2, <1>3

\* The data segments, in _start and in gdt_flush.
LEMMA SegmentsStep ==
  ASSUME IInv, UNCHANGED pagingVars, Segments
  PROVE  BootTypeOK' /\ TableInv' /\ SegmentInv'
<1>1. /\ BootTypeOK /\ TableInv /\ SegmentInv /\ pg' = pg /\ behind' = behind
      /\ pc \in {"segments", "flush_segments"}
      /\ UNCHANGED <<cs, eip, esp, gdtr, idtr, gdt, idts, num, vector>>
  BY DEF IInv, pagingVars, Segments
<1>2. \/ pc' = "reset" /\ UNCHANGED <<ds, ss>> /\ Loaded(2, "data") = {}
      \/ \E d \in Loaded(2, "data") :
           /\ ds' = SegmentBase(d) /\ ss' = SegmentBase(d)
           /\ pc' = IF pc = "segments" THEN "ljmp" ELSE "flush_ljmp"
  BY DEF Segments
<1>3. ds' \in 0..Space - 1 /\ ss' \in 0..Space - 1
      /\ pc' \in {"lgdt_fake", "segments", "ljmp", "stack", "reset"} \cup InC
  <2>1. ds \in 0..Space - 1 /\ ss \in 0..Space - 1 /\ gdt \in [1..5 -> Descriptor]
    BY <1>1 DEF BootTypeOK
  <2>2. \A d \in Loaded(2, "data") : SegmentBase(d) \in 0..Space - 1
    BY <2>1, LoadedType
  <2>3. QED
    BY <1>2, <2>1, <2>2 DEF InC
<1>4. BootTypeOK'
  BY <1>1, <1>3 DEF BootTypeOK
<1>5. TableInv'
  BY <1>1, <1>2 DEF TableInv, Early, Flushed, Running
<1>6. SegmentInv'
  <2>1. SUFFICES ASSUME Intact PROVE SegmentInv'
    BY <1>1 DEF SegmentInv, Intact
  <2>2. CASE pc = "segments"
    <3>1. ds' = Quarter /\ ss' = Quarter /\ pc' = "ljmp"
      BY <1>2, <2>1, <2>2, Found
    <3>2. QED
      BY <1>1, <2>1, <2>2, <3>1 DEF SegmentInv, Intact, InC, Running
  <2>3. CASE pc = "flush_segments"
    <3>1. ds' = 0 /\ ss' = 0 /\ pc' = "flush_ljmp"
      BY <1>2, <2>1, <2>3, Found DEF Flushed
    <3>2. QED
      BY <1>1, <2>1, <2>3, <3>1 DEF SegmentInv, Intact, InC, Running
  <2>4. QED
    BY <1>1, <2>2, <2>3
<1>7. QED
  BY <1>4, <1>5, <1>6

\* The far jumps, in _start and in gdt_flush.
LEMMA LjmpStep ==
  ASSUME IInv, UNCHANGED pagingVars, Ljmp
  PROVE  BootTypeOK' /\ TableInv' /\ SegmentInv'
<1>1. /\ BootTypeOK /\ TableInv /\ SegmentInv /\ pg' = pg /\ behind' = behind
      /\ pc \in {"ljmp", "flush_ljmp"}
      /\ UNCHANGED <<ds, ss, esp, gdtr, idtr, gdt, idts, num, vector>>
  BY DEF IInv, pagingVars, Ljmp
<1>2. \/ pc' = "reset" /\ UNCHANGED <<cs, eip>> /\ Loaded(1, "code") = {}
      \/ \E d \in Loaded(1, "code") :
           /\ cs' = SegmentBase(d) /\ eip' = Text
           /\ pc' = IF pc = "ljmp" THEN "stack" ELSE "idt_init"
  BY DEF Ljmp
<1>3. cs' \in 0..Space - 1 /\ eip' \in 0..Space - 1
      /\ pc' \in {"lgdt_fake", "segments", "ljmp", "stack", "reset"} \cup InC
  <2>1. cs \in 0..Space - 1 /\ eip \in 0..Space - 1 /\ gdt \in [1..5 -> Descriptor]
    BY <1>1 DEF BootTypeOK
  <2>2. \A d \in Loaded(1, "code") : SegmentBase(d) \in 0..Space - 1
    BY <2>1, LoadedType
  <2>3. QED
    BY <1>2, <2>1, <2>2, Addresses DEF InC
<1>4. BootTypeOK'
  BY <1>1, <1>3 DEF BootTypeOK
<1>5. TableInv'
  BY <1>1, <1>2 DEF TableInv, Early, Flushed, Running
<1>6. SegmentInv'
  <2>1. SUFFICES ASSUME Intact PROVE SegmentInv'
    BY <1>1 DEF SegmentInv, Intact
  <2>2. CASE pc = "ljmp"
    <3>1. cs' = Quarter /\ eip' = Text /\ pc' = "stack"
      BY <1>2, <2>1, <2>2, Found
    <3>2. QED
      BY <1>1, <2>1, <2>2, <3>1 DEF SegmentInv, Intact, InC, Running
  <2>3. CASE pc = "flush_ljmp"
    <3>1. cs' = 0 /\ eip' = Text /\ pc' = "idt_init"
      BY <1>2, <2>1, <2>3, Found DEF Flushed
    <3>2. QED
      BY <1>1, <2>1, <2>3, <3>1 DEF SegmentInv, Intact, InC, Running
  <2>4. QED
    BY <1>1, <2>2, <2>3
<1>7. QED
  BY <1>4, <1>5, <1>6

\* A step of paging.c, in paging_init or in paging_map.
LEMMA BootPagingStep ==
  ASSUME IInv, PagingInv', UNCHANGED <<cs, ds, ss, eip, esp, gdtr, idtr, gdt, idts, num, vector>>,
         \/ /\ pc = "paging_init" /\ PagingInit
            /\ pc' = IF phase' = "ready" THEN "gdt_init" ELSE pc
         \/ pc = "run" /\ pc' = pc /\ \E r \in Requests : PagingMap(r)
  PROVE  BootTypeOK' /\ TableInv' /\ SegmentInv'
<1>1. /\ BootTypeOK /\ TableInv /\ SegmentInv
      /\ pg' = (phase' = "ready") /\ pg = (phase = "ready")
  BY DEF IInv, PagingInv, DirectoryInv
<1>2. Intact' => Intact
  BY DEF PagingInit, FillTables, FillDirectory, EnablePaging, PagingMap, StoreMisc, Intact
<1>3. \/ pc = "paging_init" /\ pc' = "gdt_init" /\ pg'
      \/ pc = "paging_init" /\ pc' = "paging_init" /\ ~pg'
      \/ pc = "run" /\ pc' = "run" /\ pg' = pg
  BY <1>1 DEF PagingMap
<1>4. BootTypeOK'
  BY <1>1, <1>3 DEF BootTypeOK, InC
<1>5. TableInv'
  BY <1>1, <1>3 DEF TableInv, Early, Flushed, Running
<1>6. SegmentInv'
  BY <1>1, <1>2, <1>3 DEF SegmentInv, InC, Running
<1>7. QED
  BY <1>4, <1>5, <1>6

\* An interrupt finds its stub; with intact page tables it does not miss it.
LEMMA InterruptStep ==
  ASSUME IInv, NEW v \in Vectors, Interrupt(v)
  PROVE  BootTypeOK' /\ TableInv' /\ SegmentInv'
<1>1. /\ BootTypeOK /\ TableInv /\ SegmentInv /\ pg' = pg /\ behind' = behind
      /\ pc = "run" /\ vector' = v /\ v \in 0..47
      /\ UNCHANGED <<ds, ss, esp, gdtr, idtr, gdt, idts, num>>
  BY VectorsAssumption DEF IInv, pagingVars, Interrupt
<1>2. \/ pc' = "reset" /\ UNCHANGED <<cs, eip>> /\ Entered(v) = {}
      \/ \E g \in Entered(v), d \in Loaded(1, "code") :
           pc' = "stub" /\ cs' = SegmentBase(d) /\ eip' = GateAddress(g)
  BY DEF Interrupt
<1>3. idts[v] = idt_set_gate(Stub(v), 8, "interrupt") /\ idtr = [base |-> Idt, limit |-> 2047]
  BY <1>1, TableLimits DEF TableInv, Running
<1>4. /\ GateAddress(idts[v]) = Stub(v) /\ Stub(v) \in 0..Space - 1
      /\ idts[v].flags = "interrupt" /\ idts[v].selector = 8
  BY <1>1, <1>3, Addresses, GateFields
<1>5. \A g \in Entered(v) : GateAddress(g) = Stub(v)
  BY <1>4 DEF Entered
<1>6. BootTypeOK'
  <2>1. cs \in 0..Space - 1 /\ eip \in 0..Space - 1 /\ gdt \in [1..5 -> Descriptor]
    BY <1>1 DEF BootTypeOK
  <2>2. \A d \in Loaded(1, "code") : SegmentBase(d) \in 0..Space - 1
    BY <2>1, LoadedType
  <2>3. cs' \in 0..Space - 1 /\ eip' \in 0..Space - 1 /\ pc' \in {"reset", "stub"}
    BY <1>2, <1>4, <1>5, <2>1, <2>2
  <2>4. vector' \in 0..255
    BY <1>1
  <2>5. QED
    BY <1>1, <2>3, <2>4 DEF BootTypeOK, InC, Running
<1>7. TableInv'
  BY <1>1, <1>2 DEF TableInv, Early, Flushed, Running
<1>8. SegmentInv'
  <2>1. SUFFICES ASSUME Intact PROVE SegmentInv'
    BY <1>1 DEF SegmentInv, Intact
  <2>2. Loaded(1, "code") = {Gates[2]} /\ SegmentBase(Gates[2]) = 0
    BY <1>1, <2>1, Found DEF Flushed, Running
  <2>3. idts[v] \in Entered(v)
    <3>1. Translate(idtr.base) = LoadAddress(Idt)
      <4>1. Idt = KernelBase + LoadAddress(Idt) /\ LoadAddress(Idt) \in 0..Span - 1
        BY Linked
      <4>2. pg
        BY <1>1 DEF TableInv, Flushed, Running
      <4>3. QED
        BY <1>3, <2>1, <4>1, <4>2, LowAddress DEF IInv
    <3>2. DescriptorSize * v + (DescriptorSize - 1) <= idtr.limit /\ DescriptorSize = 8
      BY <1>1, <1>3 DEF DescriptorSize
    <3>3. QED
      BY <1>4, <2>2, <3>1, <3>2 DEF Entered
  <2>4. pc' = "stub" /\ cs' = 0 /\ eip' = Stub(v)
    BY <1>2, <1>5, <2>2, <2>3
  <2>5. QED
    BY <1>1, <2>1, <2>4 DEF SegmentInv, Intact, InC, Running
<1>9. QED
  BY <1>6, <1>7, <1>8

LEMMA IretStep ==
  ASSUME IInv, Iret
  PROVE  BootTypeOK' /\ TableInv' /\ SegmentInv'
<1>1. /\ BootTypeOK /\ TableInv /\ SegmentInv /\ pg' = pg /\ behind' = behind
      /\ pc = "stub" /\ pc' = "run" /\ eip' = Text
      /\ UNCHANGED <<cs, ss, esp, gdtr, idtr, gdt, idts, num, vector>>
  BY DEF IInv, pagingVars, Iret
<1>2. PICK d \in Loaded(2, "data") : ds' = SegmentBase(d)
  BY DEF Iret
<1>3. BootTypeOK'
  <2>1. ds' \in 0..Space - 1
    BY <1>1, <1>2, LoadedType DEF BootTypeOK
  <2>2. QED
    BY <1>1, <2>1, Addresses DEF BootTypeOK, InC, Running
<1>4. TableInv'
  BY <1>1 DEF TableInv, Early, Flushed, Running
<1>5. Intact => ds' = 0
  BY <1>1, <1>2, Found DEF Flushed, Running
<1>6. SegmentInv'
  BY <1>1, <1>5 DEF SegmentInv, Intact, InC, Running
<1>7. QED
  BY <1>3, <1>4, <1>6

\* Whatever the boot does, it uses paging.c only through its operations.
LEMMA UsesPaging == [Next]_vars => [PagingNext]_pagingVars
  BY DEF Next, vars, Main, Idle, Iret, Map, Interrupt, PagingNext

LEMMA NextIInv == IInv /\ [Next]_vars => IInv'
<1>1. SUFFICES ASSUME IInv, [Next]_vars PROVE BootTypeOK' /\ TableInv' /\ SegmentInv'
  BY UsesPaging, PagingStep DEF IInv
<1>2. PagingInv'
  BY <1>1, UsesPaging, PagingStep DEF IInv
<1>3. CASE /\ LgdtFake \/ Segments \/ Ljmp \/ SetStack \/ SetGate \/ GdtFlush
              \/ IdtInit \/ TerminalInitialize
           /\ UNCHANGED pagingVars
  BY <1>1, <1>3, PlainStep, IdtInitStep, SegmentsStep, LjmpStep
<1>4. CASE /\ pc = "paging_init" /\ PagingInit
           /\ pc' = IF phase' = "ready" THEN "gdt_init" ELSE pc
           /\ UNCHANGED <<cs, ds, ss, eip, esp, gdtr, idtr, gdt, idts, num, vector>>
  BY <1>1, <1>2, <1>4, BootPagingStep
<1>5. CASE \E r \in Requests : Map(r)
  <2>1. /\ pc = "run" /\ pc' = pc /\ \E r \in Requests : PagingMap(r)
        /\ UNCHANGED <<cs, ds, ss, eip, esp, gdtr, idtr, gdt, idts, num, vector>>
    BY <1>5 DEF Map, bootVars
  <2>2. QED
    BY <1>1, <1>2, <2>1, BootPagingStep
<1>6. CASE \E v \in Vectors : Interrupt(v)
  BY <1>1, <1>6, InterruptStep
<1>7. CASE Iret
  BY <1>1, <1>7, IretStep
<1>8. CASE UNCHANGED vars
  <2>1. /\ pg' = pg /\ behind' = behind /\ BootTypeOK /\ TableInv /\ SegmentInv
        /\ UNCHANGED <<pc, cs, ds, ss, eip, esp, gdtr, idtr, gdt, idts, num, vector>>
    BY <1>1, <1>8 DEF vars, pagingVars, bootVars, IInv
  <2>2. BootTypeOK'
    BY <2>1 DEF BootTypeOK
  <2>3. TableInv' /\ SegmentInv'
    BY <2>1 DEF TableInv, SegmentInv, Intact
  <2>4. QED
    BY <2>2, <2>3
<1>9. QED
  BY <1>1, <1>3, <1>4, <1>5, <1>6, <1>7, <1>8 DEF Next, Main, Idle

LEMMA IInvHolds == Spec => []IInv
  BY InitIInv, NextIInv, PTL DEF Spec

-----------------------------------------------------------------------------
(* The theorems.                                                           *)

\* Segment bases, instruction and stack pointers stay within memory and the
\* tables of tables.c keep their types, also when page tables are overwritten.
THEOREM TypeCorrect == Spec => []TypeOK
<1>1. IInv => TypeOK
  BY DEF IInv, PagingInv, BootTypeOK, TypeOK
<1>2. QED
  BY <1>1, IInvHolds, PTL

\* At every instruction from _start on the segments and the page tables between
\* them lead kernel addresses to where the boot loader put the kernel: entry.s,
\* gdt_flush and paging_init change the two in an order that never breaks it.
THEOREM KernelInPlaceHolds == Spec => []KernelInPlace
<1>1. IInv => KernelInPlace
  <2>1. SUFFICES ASSUME IInv, Intact
                 PROVE  /\ Access(cs, eip) = Physical(eip)
                        /\ pc \in InC => Access(ss, esp) = Physical(esp)
                        /\ pc \in InC => \A a \in {Dir, Low, Misc, Gdt, Idt} :
                                           Access(ds, a) = Physical(a)
                        /\ pc \in Running => Access(ds, Vga) = Vga
    BY DEF KernelInPlace
  <2>2. PagingInv /\ BootTypeOK /\ TableInv /\ SegmentInv
    BY <2>1 DEF IInv
  <2> DEFINE Good(b) == \/ b = Quarter /\ ~pg
                        \/ b \in {0, Quarter} /\ pg /\ PagingInv /\ Intact
  <2>3. \A a \in {Dir, Low, Misc, Text, Stack, Gdt, Idt} :
          a \in Nat /\ a > KernelBase /\ a < KernelBase + Span
    BY LayoutAssumption, TablesAssumption
  <2>4. pc \in InC => Good(cs) /\ Good(ds) /\ Good(ss)
    BY <2>1, <2>2 DEF TableInv, SegmentInv, InC, Early, Flushed, Running
  <2>5. pc = "stack" => Good(cs)
    BY <2>1, <2>2 DEF TableInv, SegmentInv, Early
  <2>6. ASSUME NEW a \in Nat, a > KernelBase, a < KernelBase + Span, NEW b, Good(b)
        PROVE  Access(b, a) = Physical(a)
    BY <2>6, InKernel
  <2> HIDE DEF Good
  <2>7. Access(cs, eip) = Physical(eip)
    <3>1. CASE pc \in {"lgdt_fake", "segments", "ljmp"}
      <4>1. cs = 0 /\ eip = LoadAddress(Text) /\ ~pg
        BY <2>1, <2>2, <3>1 DEF TableInv, SegmentInv, Early
      <4>2. LoadAddress(Text) \in 0..Span - 1
        BY Linked
      <4>3. (0 + LoadAddress(Text)) % Space = LoadAddress(Text)
        <5>1. /\ 0 + LoadAddress(Text) = LoadAddress(Text) /\ LoadAddress(Text) \in Nat
              /\ LoadAddress(Text) < Space /\ Space \in Nat
          BY <4>2, KernelRange
        <5>2. QED
          BY <5>1, Small
      <4>4. ~(LoadAddress(Text) >= KernelBase)
        BY <4>2, KernelRange
      <4>5. QED
        BY <4>1, <4>3, <4>4 DEF Access, Translate, Physical
    <3>2. CASE pc \in {"stack"} \cup InC
      <4>1. CASE pc = "stub"
        <5>1. eip = Stub(vector) /\ vector \in 0..47
          BY <2>1, <2>2, <4>1 DEF SegmentInv
        <5>2. Good(cs)
          BY <2>4, <4>1 DEF InC, Running
        <5>3. QED
          BY <2>6, <5>1, <5>2, Addresses
      <4>2. CASE pc # "stub"
        <5>1. eip = Text /\ Good(cs)
          BY <2>1, <2>2, <2>4, <2>5, <3>2, <4>2 DEF SegmentInv, InC, Running
        <5>2. QED
          BY <2>3, <2>6, <5>1
      <4>3. QED
        BY <4>1, <4>2
    <3>3. pc # "reset"
      BY <2>1, <2>2 DEF SegmentInv
    <3>4. QED
      BY <2>2, <3>1, <3>2, <3>3 DEF BootTypeOK
  <2>8. pc \in InC => Access(ss, esp) = Physical(esp)
    <3>1. pc \in InC => esp = Stack
      BY <2>1, <2>2 DEF SegmentInv
    <3>2. QED
      BY <2>3, <2>4, <2>6, <3>1
  <2>9. pc \in InC => \A a \in {Dir, Low, Misc, Gdt, Idt} : Access(ds, a) = Physical(a)
    BY <2>3, <2>4, <2>6
  <2>10. pc \in Running => Access(ds, Vga) = Vga
    <3>1. SUFFICES ASSUME pc \in Running PROVE Access(ds, Vga) = Vga
      OBVIOUS
    <3>2. ds = 0 /\ pg
      BY <2>1, <2>2, <3>1 DEF SegmentInv, TableInv, Flushed
    <3>3. Vga \in 0..Span - 1
      BY LayoutAssumption
    <3>4. (0 + Vga) % Space = Vga
      <4>1. 0 + Vga = Vga /\ Vga \in Nat /\ Vga < Space /\ Space \in Nat
        BY <3>3, KernelRange
      <4>2. QED
        BY <4>1, Small
    <3>5. Translate(Vga) = Vga
      BY <2>1, <2>2, <3>2, <3>3, LowAddress
    <3>6. QED
      BY <3>2, <3>4, <3>5 DEF Access
  <2>11. QED
    BY <2>7, <2>8, <2>9, <2>10
<1>2. QED
  BY <1>1, IInvHolds, PTL

\* Every vector with a gate in idt_init decodes to its own stub with a flat code
\* segment, and no selector or address of the boot is missing, until paging_map
\* stores behind its table.
THEOREM StubReachedHolds == Spec => []StubReached
<1>1. IInv => StubReached
  BY DEF IInv, SegmentInv, StubReached
<1>2. QED
  BY <1>1, IInvHolds, PTL

\* In the booted kernel, too, the addresses of paging_map are right up to the
\* last entry of its table,
THEOREM MapsFaithfulHolds == Spec => []MapsFaithful
<1>1. IInv => MapsFaithful
  BY PagingInvFaithful DEF IInv
<1>2. QED
  BY <1>1, IInvHolds, PTL

\* and low memory stays where it is, at both of its addresses.
THEOREM LowMemoryMappedHolds == Spec => []LowMemoryMapped
<1>1. IInv => LowMemoryMapped
  BY PagingInvLow DEF IInv
<1>2. QED
  BY <1>1, IInvHolds, PTL

=============================================================================
