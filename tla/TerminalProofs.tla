--------------------------- MODULE TerminalProofs ---------------------------
(***************************************************************************)
(* The cursor and the stray stores of terminal_putchar under interrupts,   *)
(* for every page size and every number of characters the handlers print.  *)
(***************************************************************************)
EXTENDS Terminal, SequenceTheorems, TLAPS

\* Only between a store and its wrap can the cursor be off the page, only in
\* one coordinate, only if main's own register says that it will wrap, and
\* only as far as handlers have pushed it since main entered putchar.
CursorInv ==
  /\ pc \notin {"column_wrap", "row_wrap"} => row < Height /\ column < Width
  /\ pc \in {"column_store", "column_wrap"} => reg < Width
  /\ pc \in {"row_store", "row_wrap"} => reg < Height
  /\ pc = "column_wrap" =>
       row < Height /\ column <= Width + burst /\ (reg + 1 # Width => column < Width)
  /\ pc = "row_wrap" =>
       column < Width /\ row <= Height + burst /\ (reg + 1 # Height => row < Height)
  /\ pc \in {"boot", "rest"} => burst = 0

IInv == TypeOK /\ CursorInv /\ StrayBounded

-----------------------------------------------------------------------------
(* Facts about the operators.                                              *)

\* Rows are laid out one after the other: a cell in the first h rows, or one
\* that runs off the end of such a row by at most k, has a small index.
LEMMA IndexBound ==
  ASSUME NEW w \in Nat, NEW h \in Nat, NEW r \in Nat, NEW c \in Nat, NEW k \in Nat,
         r < h, c < w + k
  PROVE  r * w + c < h * w + k /\ r * w + c \in Nat
<1>1. PICK d \in Nat : h = r + 1 + d
  <2>1. h - r - 1 \in Nat /\ h = r + 1 + (h - r - 1)
    OBVIOUS
  <2>2. QED
    BY <2>1
<1>2. h * w = r * w + w + d * w
  BY <1>1
<1>3. d * w \in Nat /\ r * w \in Nat
  OBVIOUS
<1>4. ASSUME NEW a \in Nat, NEW b \in Nat, h * w = a + w + b
      PROVE  a + c < h * w + k /\ a + c \in Nat
  BY <1>4
<1>5. QED
  BY <1>2, <1>3, <1>4

\* make_vgaentry yields a natural number.
LEMMA VgaEntryType ==
  ASSUME NEW c \in Char, NEW col \in 0..255
  PROVE  VgaEntry(c, col) \in Nat
<1>1. c \in Int /\ -128 <= c /\ col \in Nat
  BY SMT DEF Char
<1>2. QED
  BY <1>1, SMT DEF VgaEntry

\* The hexadecimal writers put characters.
LEMMA HexStringType == \A w \in Nat : HexString(w) \in Seq(Char)
<1>1. \A d \in 0..15 : HexDigit(d) \in Char
  BY DEF HexDigit, Char
<1>2. ASSUME NEW b \in 0..255 PROVE HexDigits(b) \in Seq(Char)
  <2>1. b \div 16 \in 0..15 /\ b % 16 \in 0..15
    OBVIOUS
  <2>2. QED
    BY <1>1, <2>1 DEF HexDigits
<1>3. SUFFICES ASSUME NEW w \in Nat PROVE HexString(w) \in Seq(Char)
  OBVIOUS
<1> DEFINE b3 == (w \div 16777216) % 256
           b2 == (w \div 65536) % 256
           b1 == (w \div 256) % 256
           b0 == w % 256
<1>4. b3 \in 0..255 /\ b2 \in 0..255 /\ b1 \in 0..255 /\ b0 \in 0..255
  <2>1. \A v \in Nat : v % 256 \in 0..255
    BY SMT
  <2>2. w \div 16777216 \in Nat /\ w \div 65536 \in Nat /\ w \div 256 \in Nat
    BY SMT
  <2>3. QED
    BY <2>1, <2>2, SMT
<1>5. HexString(w) = HexDigits(b3) \o HexDigits(b2) \o HexDigits(b1) \o HexDigits(b0)
  BY SMT DEF HexString
<1> HIDE DEF b3, b2, b1, b0
<1>6. /\ HexDigits(b3) \in Seq(Char) /\ HexDigits(b2) \in Seq(Char)
      /\ HexDigits(b1) \in Seq(Char) /\ HexDigits(b0) \in Seq(Char)
  BY <1>2, <1>4
<1>7. QED
  BY <1>5, <1>6, ConcatProperties

-----------------------------------------------------------------------------
(* The invariant.                                                          *)

LEMMA InitIInv == Init => IInv
<1> SUFFICES ASSUME Init PROVE IInv
  OBVIOUS
<1> USE SizeAssumption, BurstAssumption
<1>1. TypeOK
  <2>1. screen \in [Cells -> Nat] /\ beyond \subseteq Nat
    BY DEF Init
  <2>2. todo \in Seq(Char) /\ ch \in Char
    BY EmptySeq DEF Init, Char
  <2>3. /\ row \in 0..Height + Burst /\ column \in 0..Width + Burst
        /\ x \in 0..Width - 1 /\ y \in 0..Height - 1 /\ reg \in Nat /\ burst \in 0..Burst
        /\ color \in 0..255
    BY DEF Init
  <2>4. sti \in BOOLEAN /\ pc \in Pcs
    BY DEF Init, Pcs
  <2>5. QED
    BY <2>1, <2>2, <2>3, <2>4, Zenon DEF TypeOK
<1>2. CursorInv /\ StrayBounded
  BY DEF Init, CursorInv, StrayBounded
<1>3. QED
  BY <1>1, <1>2 DEF IInv

\* The calls of kernel_main outside terminal_putchar.
LEMMA CallerStep ==
  ASSUME IInv, \/ TerminalInitialize \/ IsrEnable \/ TerminalSetcolor
               \/ TerminalWritestring \/ TerminalWritehex \/ Call
  PROVE  IInv'
<1> USE SizeAssumption, BurstAssumption
<1> USE DEF TerminalInitialize, IsrEnable, TerminalSetcolor, TerminalWritestring,
            TerminalWritehex, Call, terminal, locals
<1>1. TypeOK'
  <2>1. screen' \in [Cells -> Nat] /\ beyond' \subseteq Nat
    <3>1. VgaEntry(32, 7) \in Nat
      BY DEF VgaEntry
    <3>2. QED
      BY <3>1 DEF IInv, TypeOK
  <2>2. todo' \in Seq(Char) /\ ch' \in Char
    <3>1. CASE Call
      BY <3>1, HeadTailProperties DEF IInv, TypeOK
    <3>2. CASE TerminalWritestring
      BY <3>2, CharsAssumption DEF IInv, TypeOK
    <3>3. CASE TerminalWritehex
      BY <3>3, CharsAssumption, HexStringType DEF IInv, TypeOK
    <3>4. CASE TerminalInitialize \/ IsrEnable \/ TerminalSetcolor
      BY <3>4 DEF IInv, TypeOK
    <3>5. QED
      BY <3>1, <3>2, <3>3, <3>4
  <2>3. /\ row' \in 0..Height + Burst /\ column' \in 0..Width + Burst
        /\ x' \in 0..Width - 1 /\ y' \in 0..Height - 1 /\ reg' \in Nat /\ burst' \in 0..Burst
        /\ color' \in 0..255
    <3>1. CASE TerminalSetcolor
      BY <3>1, CharsAssumption DEF IInv, TypeOK
    <3>2. CASE TerminalInitialize
      BY <3>2 DEF IInv, TypeOK
    <3>3. CASE IsrEnable \/ TerminalWritestring \/ TerminalWritehex \/ Call
      BY <3>3 DEF IInv, TypeOK
    <3>4. QED
      BY <3>1, <3>2, <3>3
  <2>4. sti' \in BOOLEAN /\ pc' \in Pcs
    BY DEF IInv, TypeOK, Pcs, PutPcs, RowPcs
  <2>5. QED
    BY <2>1, <2>2, <2>3, <2>4, Zenon DEF TypeOK
<1>2. CursorInv' /\ StrayBounded'
  <2>1. /\ pc \in {"boot", "rest"} /\ pc' \in {"rest", "row_load", "putx"}
        /\ UNCHANGED <<reg, burst, beyond>>
        /\ UNCHANGED <<row, column>> \/ (row' = 0 /\ column' = 0)
    OBVIOUS
  <2>2. QED
    BY <2>1 DEF IInv, CursorInv, StrayBounded
<1>3. QED
  BY <1>1, <1>2 DEF IInv

\* The loads, stores and wraps of the main thread.
LEMMA PutcharStep ==
  ASSUME IInv, \/ LoadX \/ LoadY \/ ColumnLoad \/ ColumnStore \/ ColumnWrap
               \/ RowLoad \/ RowStore \/ RowWrap \/ NewlineColumn
  PROVE  IInv'
<1> USE SizeAssumption, BurstAssumption
<1> USE DEF LoadX, LoadY, ColumnLoad, ColumnStore, ColumnWrap, RowLoad, RowStore, RowWrap,
            NewlineColumn, Return, terminal, locals
<1>1. UNCHANGED <<screen, beyond, color, sti, todo, ch>>
  OBVIOUS
<1>2. TypeOK'
  <2>1. /\ row' \in 0..Height + Burst /\ column' \in 0..Width + Burst
        /\ x' \in 0..Width - 1 /\ y' \in 0..Height - 1 /\ reg' \in Nat /\ burst' \in 0..Burst
    BY SMTT(30) DEF IInv, TypeOK, CursorInv
  <2>2. pc' \in Pcs
    BY DEF IInv, TypeOK, Pcs, PutPcs, RowPcs
  <2>3. QED
    BY <1>1, <2>1, <2>2 DEF IInv, TypeOK
<1>3. CursorInv'
  BY SMTT(30) DEF IInv, TypeOK, CursorInv
<1>4. StrayBounded'
  BY <1>1 DEF IInv, StrayBounded
<1>5. QED
  BY <1>2, <1>3, <1>4 DEF IInv

\* terminal_putentryat stores on the page or, within the bound, beyond it.
LEMMA StoreStep ==
  ASSUME IInv, NEW c \in Char, NEW index \in Nat, PutEntryAt(c, index),
         index < Width * (Height + Burst)
  PROVE  screen' \in [Cells -> Nat] /\ beyond' \subseteq Nat /\ StrayBounded'
<1> USE SizeAssumption, BurstAssumption
<1> DEFINE page == Width * Height
           limit == Width * (Height + Burst)
<1>1. page \in Nat /\ limit \in Nat
  OBVIOUS
<1>2. CASE index \in Cells
  <2>1. /\ screen' = [screen EXCEPT ![index] = VgaEntry(c, color)]
        /\ UNCHANGED beyond
    BY <1>2 DEF PutEntryAt
  <2>2. VgaEntry(c, color) \in Nat
    BY VgaEntryType DEF IInv, TypeOK
  <2>3. QED
    BY <2>1, <2>2 DEF IInv, TypeOK, StrayBounded
<1>3. CASE index \notin Cells
  <2>1. beyond' = beyond \cup {index} /\ UNCHANGED screen
    BY <1>3 DEF PutEntryAt
  <2>2. index >= page
    <3> HIDE DEF page
    <3>1. index \notin 0 .. page - 1
      BY <1>3 DEF Cells, page
    <3>2. QED
      BY <1>1, <3>1
  <2>3. index \in page .. limit - 1
    <3> HIDE DEF page, limit
    <3>1. index < limit
      BY DEF limit
    <3>2. QED
      BY <1>1, <2>2, <3>1
  <2>4. QED
    BY <2>1, <2>3 DEF IInv, TypeOK, StrayBounded
<1>4. QED
  BY <1>2, <1>3

\* A store at a position on the page, off the end of a line on the page, or on
\* one of the lines below it keeps within the bound.
LEMMA StoreBound ==
  ASSUME NEW r \in Nat, NEW c \in Nat, NEW k \in 0..Burst,
         \/ r < Height /\ c < Width + k
         \/ r < Height + Burst /\ c < Width
  PROVE  r * Width + c \in Nat /\ r * Width + c < Width * (Height + Burst)
<1> USE SizeAssumption, BurstAssumption
<1>1. CASE r < Height /\ c < Width + k
  <2>1. r * Width + c < Height * Width + k /\ r * Width + c \in Nat
    BY <1>1, IndexBound
  <2>2. Width * (Height + Burst) = Height * Width + Width * Burst
    OBVIOUS
  <2>3. k <= Width * Burst
    <3>1. PICK w \in Nat : Width = 1 + w
      <4>1. Width - 1 \in Nat /\ Width = 1 + (Width - 1)
        OBVIOUS
      <4>2. QED
        BY <4>1
    <3>2. Width * Burst = Burst + w * Burst /\ w * Burst \in Nat
      BY <3>1
    <3>3. \A a \in Nat : k <= Burst + a
      OBVIOUS
    <3>4. QED
      BY <3>2, <3>3
  <2>4. \A i, p, q \in Nat : i < p + k /\ k <= q => i < p + q
    OBVIOUS
  <2>5. Height * Width \in Nat /\ Width * Burst \in Nat
    OBVIOUS
  <2>6. QED
    BY <2>1, <2>2, <2>3, <2>4, <2>5
<1>2. CASE r < Height + Burst /\ c < Width
  <2>1. r * Width + c < (Height + Burst) * Width + 0 /\ r * Width + c \in Nat
    <3>1. Height + Burst \in Nat /\ c < Width + 0
      BY <1>2
    <3>2. QED
      BY <1>2, <3>1, IndexBound
  <2>2. (Height + Burst) * Width + 0 = Width * (Height + Burst)
    OBVIOUS
  <2>3. QED
    BY <2>1, <2>2
<1>3. QED
  BY <1>1, <1>2

\* The store of the main thread: its coordinates were loaded on the page.
LEMMA PutEntryStep ==
  ASSUME IInv, PutEntry
  PROVE  IInv'
<1> USE SizeAssumption, BurstAssumption
<1>1. /\ PutEntryAt(ch, y * Width + x) /\ pc = "putentry" /\ pc' = "column_load"
      /\ UNCHANGED <<row, column, color, sti, todo, ch, x, y, reg, burst>>
  BY DEF PutEntry, locals
<1>2. y * Width + x \in Nat /\ y * Width + x < Width * (Height + Burst)
  <2>1. y \in Nat /\ x \in Nat /\ y < Height /\ x < Width + 0 /\ 0 \in 0..Burst
    BY DEF IInv, TypeOK
  <2>2. QED
    BY <2>1, StoreBound
<1>3. screen' \in [Cells -> Nat] /\ beyond' \subseteq Nat /\ StrayBounded'
  BY <1>1, <1>2, StoreStep DEF IInv, TypeOK
<1>4. TypeOK'
  BY <1>1, <1>3 DEF IInv, TypeOK, Pcs, PutPcs
<1>5. CursorInv'
  BY <1>1 DEF IInv, CursorInv
<1>6. QED
  BY <1>3, <1>4, <1>5 DEF IInv

\* A handler's putchar, at rest or between two steps of the main thread's.
LEMMA EchoStep ==
  ASSUME IInv, NEW c \in Chars, Echo(c)
  PROVE  IInv'
<1> USE SizeAssumption, BurstAssumption
<1>1. /\ UNCHANGED <<color, sti, pc, todo, ch, x, y, reg>> /\ pc # "boot"
      /\ IF pc = "rest" THEN burst' = burst ELSE burst < Burst /\ burst' = burst + 1
  BY DEF Echo, locals
<1>2. row \in Nat /\ column \in Nat /\ burst \in Nat /\ reg \in Nat /\ burst \in 0..Burst
  BY DEF IInv, TypeOK
<1>3. burst' \in 0..Burst
  BY <1>1, <1>2
<1>4. screen' \in [Cells -> Nat] /\ beyond' \subseteq Nat /\ StrayBounded'
  <2>1. CASE c = NL
    <3>1. UNCHANGED <<screen, beyond>>
      BY <2>1 DEF Echo
    <3>2. QED
      BY <3>1 DEF IInv, TypeOK, StrayBounded
  <2>2. CASE c # NL
    <3>1. PutEntryAt(c, row * Width + column)
      BY <2>2 DEF Echo
    <3>2. \E k \in 0..Burst :
            \/ row < Height /\ column < Width + k
            \/ row < Height + Burst /\ column < Width
      <4>1. CASE pc \notin {"column_wrap", "row_wrap"}
        <5>1. row < Height /\ column < Width + 0 /\ 0 \in 0..Burst
          BY <1>2, <4>1 DEF IInv, CursorInv
        <5>2. QED
          BY <5>1
      <4>2. CASE pc = "column_wrap"
        <5>1. row < Height /\ column < Width + (burst + 1) /\ burst + 1 \in 0..Burst
          BY <1>1, <1>2, <4>2 DEF IInv, CursorInv
        <5>2. QED
          BY <5>1
      <4>3. CASE pc = "row_wrap"
        <5>1. row < Height + Burst /\ column < Width /\ 0 \in 0..Burst
          BY <1>1, <1>2, <4>3 DEF IInv, CursorInv
        <5>2. QED
          BY <5>1
      <4>4. QED
        BY <4>1, <4>2, <4>3
    <3>3. row * Width + column \in Nat /\ row * Width + column < Width * (Height + Burst)
      BY <1>2, <3>2, StoreBound
    <3>4. QED
      BY <3>1, <3>3, StoreStep, CharsAssumption
  <2>3. QED
    BY <2>1, <2>2
<1>5. \/ row' = NextRow /\ column' = 0
      \/ row' = row /\ column' = column + 1 /\ column + 1 # Width
  BY DEF Echo
<1>6. CursorInv'
  <2>1. CASE pc \notin {"column_wrap", "row_wrap"}
    BY <1>1, <1>2, <1>5, <2>1 DEF IInv, CursorInv, NextRow
  <2>2. CASE pc = "column_wrap"
    BY <1>1, <1>2, <1>5, <2>2 DEF IInv, CursorInv, NextRow
  <2>3. CASE pc = "row_wrap"
    BY <1>1, <1>2, <1>5, <2>3 DEF IInv, CursorInv, NextRow
  <2>4. QED
    BY <2>1, <2>2, <2>3
<1>7. row' \in 0..Height + Burst /\ column' \in 0..Width + Burst
  <2>1. CASE pc \notin {"column_wrap", "row_wrap"}
    BY <1>1, <1>2, <1>5, <2>1 DEF IInv, CursorInv, NextRow
  <2>2. CASE pc = "column_wrap"
    BY <1>1, <1>2, <1>5, <2>2 DEF IInv, CursorInv, NextRow
  <2>3. CASE pc = "row_wrap"
    BY <1>1, <1>2, <1>5, <2>3 DEF IInv, CursorInv, NextRow
  <2>4. QED
    BY <2>1, <2>2, <2>3
<1>8. TypeOK'
  BY <1>1, <1>3, <1>4, <1>7 DEF IInv, TypeOK
<1>9. QED
  BY <1>4, <1>6, <1>8 DEF IInv

LEMMA NextIInv == IInv /\ [Next]_vars => IInv'
<1> SUFFICES ASSUME IInv, [Next]_vars PROVE IInv'
  OBVIOUS
<1>1. CASE UNCHANGED vars
  BY <1>1 DEF vars, terminal, locals, IInv, TypeOK, CursorInv, StrayBounded
<1>2. CASE Putchar
  BY <1>2, CallerStep, PutcharStep, PutEntryStep DEF Putchar
<1>3. CASE \E c \in Chars : Echo(c)
  BY <1>3, EchoStep
<1>4. QED
  BY <1>1, <1>2, <1>3, CallerStep DEF Next

LEMMA IInvHolds == Spec => []IInv
  BY InitIInv, NextIInv, PTL DEF Spec

-----------------------------------------------------------------------------
(* The theorems.                                                           *)

\* The terminal's variables keep their types; the cursor never runs more than
\* Burst past an edge.
THEOREM TypeCorrect == Spec => []TypeOK
<1>1. IInv => TypeOK
  BY DEF IInv
<1>2. QED
  BY <1>1, IInvHolds, PTL

\* Outside terminal_putchar the cursor is on the page, for every page size and
\* however many characters interrupt handlers print inside main's putchar.
THEOREM CursorAtRestHolds == Spec => []CursorAtRest
<1>1. IInv => CursorAtRest
  BY DEF IInv, CursorInv, CursorAtRest
<1>2. QED
  BY <1>1, IInvHolds, PTL

\* Stray stores stay within Burst lines of the page; with Burst = 0 there is
\* none.
THEOREM StrayBoundedHolds == Spec => []StrayBounded
<1>1. IInv => StrayBounded
  BY DEF IInv
<1>2. QED
  BY <1>1, IInvHolds, PTL

-----------------------------------------------------------------------------
(* The refinement: with no handler inside a putchar (Burst = 0) the main   *)
(* thread's loads and stores amount to TerminalAbs.                        *)

\* The main thread's copies are current, a newline and a full line meet in the
\* row's increment, and a full line has reset the column by then.
CopyInv ==
  /\ pc \in {"puty", "putentry"} => x = column
  /\ pc = "putentry" => y = row
  /\ pc = "column_store" => reg = column
  /\ pc = "column_wrap" => column = reg + 1
  /\ pc = "row_store" => reg = row
  /\ pc = "row_wrap" => row = reg + 1
  /\ pc \in PutPcs => ch # NL
  /\ pc \in RowPcs /\ ch # NL => column = 0
  /\ pc = "newline_column" => ch = NL

RInv == IInv /\ CopyInv

\* A position on the page is a cell, and its quotient by the width is its line.
LEMMA Cell ==
  ASSUME NEW r \in Nat, NEW c \in Nat, r < Height, c < Width
  PROVE  /\ r * Width + c \in Cells
         /\ (r * Width + c) % (Width * Height) = r * Width + c
         /\ (r * Width + c) \div Width = r
<1> USE SizeAssumption
<1> DEFINE page == Width * Height
           i    == r * Width + c
<1>1. page \in Nat /\ i \in Nat /\ i < page
  <2>1. i < Height * Width + 0 /\ i \in Nat
    BY IndexBound
  <2>2. Height * Width + 0 = page /\ page \in Nat
    OBVIOUS
  <2>3. QED
    BY <2>1, <2>2
<1>2. i \in Cells
  BY <1>1 DEF Cells
<1>3. i % page = i
  <2> HIDE DEF page, i
  <2>1. QED
    BY <1>1
<1>4. i \div Width = r
  <2>1. /\ i \div Width \in Nat /\ i % Width \in 0..Width - 1
        /\ i = (i \div Width) * Width + (i % Width)
    <3> HIDE DEF i
    <3>1. QED
      BY <1>1
  <2>2. \A a, b \in Nat : a < b => b * Width >= a * Width + Width
    OBVIOUS
  <2>3. \A a, b \in Nat, s, t \in 0..Width - 1 : a < b => b * Width + t # a * Width + s
    BY <2>2
  <2>4. \A a, b \in Nat, s, t \in 0..Width - 1 : b * Width + t = a * Width + s => a = b
    BY <2>3
  <2>5. QED
    BY <2>1, <2>4
<1>5. QED
  BY <1>2, <1>3, <1>4

\* The line after r, and where it begins.
After(r) == IF r + 1 = Height THEN 0 ELSE r + 1

LEMMA NextLine ==
  ASSUME NEW r \in Nat, r < Height
  PROVE  /\ After(r) \in Nat /\ After(r) < Height /\ (r + 1) % Height = After(r)
         /\ ((r + 1) * Width) % (Width * Height) = After(r) * Width
<1> USE SizeAssumption
<1>1. After(r) \in Nat /\ After(r) < Height
  BY DEF After
<1>2. CASE r + 1 = Height
  <2>1. Height % Height = 0
    OBVIOUS
  <2>2. \A n \in Nat \ {0} : n % n = 0
    OBVIOUS
  <2>3. Width * Height \in Nat \ {0} /\ (r + 1) * Width = Width * Height
    BY <1>2
  <2>4. QED
    BY <1>1, <1>2, <2>1, <2>2, <2>3 DEF After
<1>3. CASE r + 1 # Height
  <2>1. r + 1 \in Nat /\ r + 1 < Height /\ After(r) = r + 1
    BY <1>3 DEF After
  <2>2. (r + 1) % Height = r + 1
    BY <2>1
  <2>3. 0 \in Nat /\ 0 < Width
    OBVIOUS
  <2>4. ((r + 1) * Width + 0) % (Width * Height) = (r + 1) * Width + 0
    BY <2>1, <2>3, Cell
  <2>5. (r + 1) * Width + 0 = (r + 1) * Width
    BY <2>1
  <2>6. QED
    BY <1>1, <2>1, <2>2, <2>4, <2>5
<1>4. QED
  BY <1>2, <1>3

\* The copies stay current when no handler prints inside a putchar.
LEMMA CopyStep ==
  ASSUME Burst = 0, RInv, [Next]_vars
  PROVE  RInv'
<1>1. IInv /\ CopyInv
  BY DEF RInv
<1>2. IInv'
  BY <1>1, NextIInv
<1>3. CopyInv'
  <2>1. CASE UNCHANGED vars
    BY <1>1, <2>1 DEF vars, terminal, locals, CopyInv
  <2>2. CASE \/ TerminalInitialize \/ IsrEnable \/ TerminalSetcolor
             \/ TerminalWritestring \/ TerminalWritehex
    <3>1. pc' = "rest"
      BY <2>2 DEF TerminalInitialize, IsrEnable, TerminalSetcolor, TerminalWritestring,
                  TerminalWritehex
    <3>2. QED
      BY <3>1 DEF CopyInv, PutPcs, RowPcs
  <2>3. CASE Putchar
    BY <1>1, <2>3 DEF Putchar, Call, LoadX, LoadY, PutEntry, ColumnLoad, ColumnStore,
      ColumnWrap, RowLoad, RowStore, RowWrap, NewlineColumn, Return, terminal, locals,
      CopyInv, PutPcs, RowPcs, IInv, TypeOK
  <2>4. CASE \E c \in Chars : Echo(c)
    <3>1. PICK c \in Chars : Echo(c)
      BY <2>4
    <3>2. pc = "rest" /\ pc' = pc
      <4>1. burst \in 0..0
        BY <1>1 DEF IInv, TypeOK
      <4>2. QED
        BY <3>1, <4>1 DEF Echo
    <3>3. QED
      BY <3>2 DEF CopyInv, PutPcs, RowPcs
  <2>5. QED
    BY <2>1, <2>2, <2>3, <2>4 DEF Next
<1>4. QED
  BY <1>2, <1>3 DEF RInv

\* What the main thread does outside a putchar, and the loads, stutter or are
\* the abstract operation of the same name.
LEMMA OutsideMaps ==
  ASSUME Burst = 0, RInv,
         \/ TerminalInitialize \/ IsrEnable \/ TerminalSetcolor
         \/ TerminalWritestring \/ TerminalWritehex \/ Call
  PROVE  [Abs!Next]_(Abs!absVars)
<1> USE SizeAssumption
<1>1. CASE TerminalInitialize
  <2>1. AbsPos' = (0 * Width + 0) % (Width * Height)
    BY <1>1 DEF TerminalInitialize, AbsPos
  <2>2. (0 * Width + 0) % (Width * Height) = 0
    <3>1. (0 * Width + 0) % (Width * Height) = 0 * Width + 0
      BY Cell
    <3>2. QED
      BY <3>1
  <2>3. Abs!Clear
    BY <1>1, <2>1, <2>2
    DEF TerminalInitialize, Abs!Clear, Abs!Blank, Abs!VgaEntry, VgaEntry, Abs!Cells, Cells
  <2>4. QED
    BY <2>3 DEF Abs!Next
<1>2. CASE TerminalSetcolor
  <2>1. AbsPos' = AbsPos /\ screen' = screen /\ color' \in 0..255
    BY <1>2, CharsAssumption DEF TerminalSetcolor, AbsPos, locals
  <2>2. Abs!SetColor
    BY <2>1 DEF Abs!SetColor
  <2>3. QED
    BY <2>2 DEF Abs!Next
<1>3. CASE IsrEnable \/ TerminalWritestring \/ TerminalWritehex \/ Call
  <2>1. /\ pc = "rest" /\ pc' \in {"rest", "putx", "row_load"}
        /\ pc' = "row_load" => ch' = NL
        /\ UNCHANGED <<row, column, screen, color>>
    BY <1>3 DEF IsrEnable, TerminalWritestring, TerminalWritehex, Call, terminal
  <2>2. AbsPos' = AbsPos
    BY <2>1 DEF AbsPos
  <2>3. QED
    BY <2>1, <2>2 DEF Abs!absVars
<1>4. QED
  BY <1>1, <1>2, <1>3

\* The store to the page is the abstract put of a character.
LEMMA PutEntryMaps ==
  ASSUME Burst = 0, RInv, PutEntry
  PROVE  Abs!Put(ch) /\ ch \in Char
<1> USE SizeAssumption
<1>1. /\ pc = "putentry" /\ pc' = "column_load" /\ UNCHANGED <<row, column, color>>
      /\ PutEntryAt(ch, y * Width + x)
  BY DEF PutEntry
<1>2. /\ row \in Nat /\ column \in Nat /\ row < Height /\ column < Width
      /\ x = column /\ y = row /\ ch # NL /\ ch \in Char
  BY <1>1 DEF RInv, IInv, TypeOK, CursorInv, CopyInv, PutPcs
<1>3. /\ y * Width + x \in Cells
      /\ (row * Width + column) % (Width * Height) = y * Width + x
  BY <1>2, Cell
<1>4. AbsPos = (row * Width + column) % (Width * Height)
  BY <1>1 DEF AbsPos
<1>5. AbsPos' = (row * Width + column + 1) % (Width * Height)
  BY <1>1 DEF AbsPos
<1>6. screen' = [screen EXCEPT ![AbsPos] = VgaEntry(ch, color)]
  BY <1>1, <1>3, <1>4 DEF PutEntryAt
<1>7. AbsPos' = (AbsPos + 1) % (Width * Height)
  BY <1>2, <1>3, <1>4, <1>5
<1>8. QED
  BY <1>1, <1>2, <1>6, <1>7 DEF Abs!Put, Abs!VgaEntry, VgaEntry, Abs!NL, NL

\* The store of the row for a newline is the abstract put of the newline.
LEMMA NewlineMaps ==
  ASSUME Burst = 0, RInv, RowStore, ch = NL
  PROVE  Abs!Put(ch) /\ ch \in Char
<1> USE SizeAssumption
<1>1. /\ pc = "row_store" /\ pc' = "row_wrap" /\ row' = reg + 1
      /\ UNCHANGED <<column, color, screen, ch>>
  BY DEF RowStore, locals
<1>2. /\ row \in Nat /\ column \in Nat /\ row < Height /\ column < Width
      /\ reg = row /\ ch \in Char
  BY <1>1 DEF RInv, IInv, TypeOK, CursorInv, CopyInv
<1>3. AbsPos = (row * Width + column) % (Width * Height)
  BY <1>1 DEF AbsPos
<1>4. AbsPos' = ((row + 1) * Width) % (Width * Height)
  BY <1>1, <1>2 DEF AbsPos
<1>5. AbsPos \div Width = row
  BY <1>2, <1>3, Cell
<1>6. AbsPos' = ((AbsPos \div Width + 1) % Height) * Width
  BY <1>2, <1>4, <1>5, NextLine
<1>7. QED
  BY <1>1, <1>2, <1>6 DEF Abs!Put, Abs!NL, NL

\* Every other load, store and wrap leaves the abstract terminal alone.
LEMMA StutterMaps ==
  ASSUME Burst = 0, RInv,
         \/ LoadX \/ LoadY \/ ColumnLoad \/ ColumnStore \/ ColumnWrap
         \/ RowLoad \/ (RowStore /\ ch # NL) \/ RowWrap \/ NewlineColumn
  PROVE  UNCHANGED Abs!absVars
<1> USE SizeAssumption
<1> DEFINE page == Width * Height
<1>1. UNCHANGED <<screen, color, ch>>
  BY DEF LoadX, LoadY, ColumnLoad, ColumnStore, ColumnWrap, RowLoad, RowStore, RowWrap,
         NewlineColumn, terminal, locals
<1>2. row \in Nat /\ column \in Nat /\ reg \in Nat
  BY DEF RInv, IInv, TypeOK
<1>3. AbsPos' = AbsPos
  <2>1. CASE LoadX \/ LoadY
    BY <2>1 DEF LoadX, LoadY, AbsPos, terminal
  <2>2. CASE ColumnLoad \/ RowLoad
    BY <2>2 DEF ColumnLoad, RowLoad, AbsPos, terminal
  <2>3. CASE ColumnStore
    <3>1. /\ pc = "column_store" /\ pc' = "column_wrap" /\ row' = row /\ column' = column + 1
      BY <2>3 DEF ColumnStore, RInv, CopyInv
    <3>2. AbsPos = (row * Width + column + 1) % page
      BY <3>1 DEF AbsPos
    <3>3. AbsPos' = (row * Width + (column + 1)) % page
      BY <3>1 DEF AbsPos
    <3>4. row * Width + (column + 1) = row * Width + column + 1
      BY <1>2
    <3>5. QED
      BY <3>2, <3>3, <3>4
  <2>4. CASE ColumnWrap
    <3>1. pc = "column_wrap" /\ row' = row /\ column = reg + 1 /\ ch # NL
      BY <2>4 DEF ColumnWrap, RInv, CopyInv, PutPcs
    <3>2. AbsPos = (row * Width + column) % page
      BY <3>1 DEF AbsPos
    <3>3. CASE reg + 1 = Width
      <4>1. pc' = "row_load" /\ column' = 0 /\ ch' # NL
        BY <1>1, <2>4, <3>1, <3>3 DEF ColumnWrap
      <4>2. AbsPos' = ((row + 1) * Width) % page
        BY <3>1, <4>1 DEF AbsPos
      <4>3. row * Width + column = (row + 1) * Width
        BY <1>2, <3>1, <3>3
      <4>4. QED
        BY <3>2, <4>2, <4>3
    <3>4. CASE reg + 1 # Width
      <4>1. pc' = "rest" /\ column' = column
        BY <2>4, <3>4 DEF ColumnWrap, Return
      <4>2. QED
        BY <3>1, <3>2, <4>1 DEF AbsPos
    <3>5. QED
      BY <3>3, <3>4
  <2>5. CASE RowStore /\ ch # NL
    <3>1. /\ pc = "row_store" /\ pc' = "row_wrap" /\ row' = row + 1 /\ column' = 0
          /\ ch' # NL
      BY <1>1, <2>5 DEF RowStore, RInv, CopyInv, RowPcs
    <3>2. AbsPos = ((row + 1) * Width) % page
      BY <2>5, <3>1 DEF AbsPos
    <3>3. AbsPos' = ((row + 1) * Width + 0) % page
      BY <3>1 DEF AbsPos
    <3>4. (row + 1) * Width + 0 = (row + 1) * Width
      BY <1>2
    <3>5. QED
      BY <3>2, <3>3, <3>4
  <2>6. CASE RowWrap
    <3>1. /\ pc = "row_wrap" /\ row = reg + 1 /\ reg < Height /\ column' = column
          /\ row' = After(reg) /\ (ch # NL => column = 0)
      BY <1>2, <2>6 DEF RowWrap, RInv, IInv, CursorInv, CopyInv, RowPcs, After
    <3>2. /\ ((reg + 1) * Width) % page = After(reg) * Width
          /\ After(reg) \in Nat /\ After(reg) < Height
      BY <1>2, <3>1, NextLine
    <3>3. AbsPos = ((reg + 1) * Width) % page
      <4>1. CASE ch = NL
        BY <3>1, <4>1 DEF AbsPos
      <4>2. CASE ch # NL
        <5>1. AbsPos = (row * Width + 0) % page
          BY <3>1, <4>2 DEF AbsPos
        <5>2. row * Width + 0 = (reg + 1) * Width
          BY <1>2, <3>1
        <5>3. QED
          BY <5>1, <5>2
      <4>3. QED
        BY <4>1, <4>2
    <3>4. /\ (After(reg) * Width + 0) % page = After(reg) * Width + 0
          /\ After(reg) * Width + 0 = After(reg) * Width
      <4>1. 0 \in Nat /\ 0 < Width
        OBVIOUS
      <4>2. QED
        BY <3>2, <4>1, Cell
    <3>5. AbsPos' = After(reg) * Width
      <4>1. CASE ch = NL
        <5>1. pc' = "newline_column" /\ ch' = NL
          BY <1>1, <2>6, <4>1 DEF RowWrap
        <5>2. AbsPos' = (After(reg) * Width) % page
          BY <3>1, <5>1 DEF AbsPos
        <5>3. QED
          BY <3>4, <5>2
      <4>2. CASE ch # NL
        <5>1. pc' = "rest" /\ column' = 0
          BY <2>6, <3>1, <4>2 DEF RowWrap, Return
        <5>2. AbsPos' = (After(reg) * Width + 0) % page
          BY <3>1, <5>1 DEF AbsPos
        <5>3. QED
          BY <3>4, <5>2
      <4>3. QED
        BY <4>1, <4>2
    <3>6. QED
      BY <3>2, <3>3, <3>5
  <2>7. CASE NewlineColumn
    <3>1. pc = "newline_column" /\ pc' = "rest" /\ row' = row /\ column' = 0 /\ ch = NL
      BY <2>7 DEF NewlineColumn, Return, RInv, CopyInv
    <3>2. AbsPos = (row * Width) % page
      BY <3>1 DEF AbsPos
    <3>3. AbsPos' = (row * Width + 0) % page
      BY <3>1 DEF AbsPos
    <3>4. row * Width + 0 = row * Width
      BY <1>2
    <3>5. QED
      BY <3>2, <3>3, <3>4
  <2>8. QED
    BY <2>1, <2>2, <2>3, <2>4, <2>5, <2>6, <2>7
<1>4. QED
  BY <1>1, <1>3 DEF Abs!absVars

\* A handler prints while the main thread is at rest: one abstract put.
LEMMA EchoMaps ==
  ASSUME Burst = 0, RInv, NEW c \in Chars, Echo(c)
  PROVE  Abs!Put(c)
<1> USE SizeAssumption
<1> DEFINE page == Width * Height
<1>1. pc = "rest" /\ pc' = "rest" /\ color' = color
  <2>1. burst \in 0..0
    BY DEF RInv, IInv, TypeOK
  <2>2. QED
    BY <2>1 DEF Echo
<1>2. row \in Nat /\ column \in Nat /\ row < Height /\ column < Width
  BY <1>1 DEF RInv, IInv, TypeOK, CursorInv
<1>3. AbsPos = (row * Width + column) % page /\ AbsPos' = (row' * Width + column') % page
  BY <1>1 DEF AbsPos
<1>4. /\ row * Width + column \in Cells /\ AbsPos = row * Width + column
      /\ AbsPos \div Width = row
  BY <1>2, <1>3, Cell
<1>5. /\ NextRow = After(row) /\ NextRow \in Nat /\ NextRow < Height
      /\ (row + 1) % Height = NextRow
      /\ ((row + 1) * Width) % page = NextRow * Width
  <2>1. NextRow = After(row)
    BY DEF NextRow, After
  <2>2. QED
    BY <1>2, <2>1, NextLine
<1>6. (NextRow * Width + 0) % page = NextRow * Width
  <2>1. 0 \in Nat /\ 0 < Width
    OBVIOUS
  <2>2. (NextRow * Width + 0) % page = NextRow * Width + 0
    BY <1>5, <2>1, Cell
  <2>3. NextRow * Width + 0 = NextRow * Width
    BY <1>5
  <2>4. QED
    BY <2>2, <2>3
<1>7. CASE c = NL
  <2>1. row' = NextRow /\ column' = 0 /\ screen' = screen
    BY <1>7 DEF Echo
  <2>2. AbsPos' = ((AbsPos \div Width + 1) % Height) * Width
    BY <1>3, <1>4, <1>5, <1>6, <2>1
  <2>3. QED
    BY <1>1, <1>7, <2>1, <2>2 DEF Abs!Put, Abs!NL, NL
<1>8. CASE c # NL
  <2>1. screen' = [screen EXCEPT ![AbsPos] = VgaEntry(c, color)]
    BY <1>4, <1>8 DEF Echo, PutEntryAt
  <2>2. AbsPos' = (AbsPos + 1) % page
    <3>1. CASE column + 1 = Width
      <4>1. row' = NextRow /\ column' = 0
        BY <1>8, <3>1 DEF Echo
      <4>2. AbsPos + 1 = (row + 1) * Width
        BY <1>2, <1>4, <3>1
      <4>3. QED
        BY <1>3, <1>5, <1>6, <4>1, <4>2
    <3>2. CASE column + 1 # Width
      <4>1. row' = row /\ column' = column + 1
        BY <1>8, <3>2 DEF Echo
      <4>2. AbsPos + 1 = row * Width + (column + 1)
        BY <1>2, <1>4
      <4>3. QED
        BY <1>3, <4>1, <4>2
    <3>3. QED
      BY <3>1, <3>2
  <2>3. QED
    BY <1>1, <1>8, <2>1, <2>2 DEF Abs!Put, Abs!VgaEntry, VgaEntry, Abs!NL, NL
<1>9. QED
  BY <1>7, <1>8

LEMMA InitMaps == Init => Abs!Init /\ RInv
<1> SUFFICES ASSUME Init PROVE Abs!Init /\ RInv
  OBVIOUS
<1> USE SizeAssumption
<1>1. AbsPos = (0 * Width + 0) % (Width * Height)
  BY DEF Init, AbsPos
<1>2. (0 * Width + 0) % (Width * Height) = 0
  <2>1. (0 * Width + 0) % (Width * Height) = 0 * Width + 0
    BY Cell
  <2>2. QED
    BY <2>1
<1>3. Abs!Init
  BY <1>1, <1>2 DEF Init, Abs!Init, Abs!Cells, Cells
<1>4. RInv
  BY InitIInv DEF Init, RInv, CopyInv, PutPcs, RowPcs
<1>5. QED
  BY <1>3, <1>4

LEMMA NextMaps ==
  ASSUME Burst = 0, RInv, [Next]_vars
  PROVE  [Abs!Next]_(Abs!absVars)
<1>1. CASE UNCHANGED vars
  <2>1. UNCHANGED <<row, column, screen, color, pc, ch>>
    BY <1>1 DEF vars, terminal, locals
  <2>2. AbsPos' = AbsPos
    BY <2>1 DEF AbsPos
  <2>3. QED
    BY <2>1, <2>2 DEF Abs!absVars
<1>2. CASE Putchar
  <2>1. CASE PutEntry
    BY <2>1, PutEntryMaps DEF Abs!Next
  <2>2. CASE RowStore /\ ch = NL
    BY <2>2, NewlineMaps DEF Abs!Next
  <2>3. CASE Call
    BY <2>3, OutsideMaps
  <2>4. CASE ~(PutEntry \/ Call \/ (RowStore /\ ch = NL))
    BY <1>2, <2>4, StutterMaps DEF Putchar
  <2>5. QED
    BY <2>1, <2>2, <2>3, <2>4
<1>3. CASE \E c \in Chars : Echo(c)
  <2>1. PICK c \in Chars : Echo(c)
    BY <1>3
  <2>2. Abs!Put(c) /\ c \in Char
    BY <2>1, EchoMaps, CharsAssumption
  <2>3. QED
    BY <2>2 DEF Abs!Next
<1>4. QED
  BY <1>1, <1>2, <1>3, OutsideMaps DEF Next

\* With no handler printing inside a putchar, terminal_putchar, the writers and
\* the handlers' putchars implement the atomic terminal, for every page size and
\* every string: one cell per character, start over when the page is full.
THEOREM AtomicTerminalHolds == ASSUME Burst = 0 PROVE Spec => AtomicTerminal
<1>1. Init => Abs!Init /\ RInv
  BY InitMaps
<1>2. RInv /\ [Next]_vars => RInv'
  BY CopyStep
<1>3. RInv /\ [Next]_vars => [Abs!Next]_(Abs!absVars)
  BY NextMaps
<1>4. QED
  BY <1>1, <1>2, <1>3, PTL DEF Spec, AtomicTerminal, Abs!Spec

=============================================================================
