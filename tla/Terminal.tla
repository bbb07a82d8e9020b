------------------------------ MODULE Terminal ------------------------------
(***************************************************************************)
(* terminal.c as the compiler builds it (clang, no optimisation): the main *)
(* thread's terminal_putchar is a sequence of loads and stores of the      *)
(* globals terminal_row and terminal_column.  With interrupts on, the      *)
(* keyboard's interrupt handler and the exception handlers call the same   *)
(* terminal_putchar between any two of them, and run it to its end.        *)
(***************************************************************************)
EXTENDS Integers, Sequences

Char == -128..127

CONSTANTS
  Width, Height, \* VGA_WIDTH and VGA_HEIGHT
  Strings,       \* what the main thread writes, as sequences of characters
  Words,         \* what it writes with terminal_writehex
  Chars,         \* what the handlers print
  Colors,        \* arguments of terminal_setcolor
  Burst          \* bound: characters handlers print during one putchar of the main thread

ASSUME SizeAssumption == Width \in Nat \ {0} /\ Height \in Nat \ {0}
ASSUME BurstAssumption == Burst \in Nat
ASSUME CharsAssumption ==
  /\ Chars \subseteq Char /\ Strings \subseteq Seq(Char)
  /\ Words \subseteq Nat /\ Colors \subseteq 0..255

VARIABLES
  row, column,   \* terminal_row, terminal_column
  color,         \* terminal_color
  screen,        \* the page at terminal_buffer
  beyond,        \* indices stored to outside the page
  sti,           \* isr_enable has run
  pc,            \* the main thread's place in terminal_putchar; "rest" outside
  todo,          \* characters terminal_writestring has still to put
  ch, x, y, reg, \* main's argument, loaded coordinates, scratch register
  burst          \* characters handlers printed since main entered putchar

terminal == <<row, column, color, screen, beyond>>
locals   == <<ch, x, y, reg>>
vars     == <<terminal, sti, pc, todo, locals, burst>>

NL    == 10
Cells == 0 .. Width * Height - 1

PutPcs == {"putx", "puty", "putentry", "column_load", "column_store", "column_wrap"}
RowPcs == {"row_load", "row_store", "row_wrap"}
Pcs    == {"boot", "rest", "newline_column"} \cup PutPcs \cup RowPcs

\* make_vgaentry: c16 = c extends the sign of a char into the colour byte.
VgaEntry(c, col) == IF c < 0 THEN 65536 + c ELSE c + 256 * col

\* terminal_putentryat at an index, whether or not it lies on the page.
PutEntryAt(c, index) ==
  IF index \in Cells
    THEN screen' = [screen EXCEPT ![index] = VgaEntry(c, color)] /\ UNCHANGED beyond
    ELSE beyond' = beyond \cup {index} /\ UNCHANGED screen

\* The characters terminal_writehexdigits puts for a byte, and the order in
\* which terminal_writehex takes the bytes of a word.
HexDigit(d)  == IF d > 9 THEN 65 + d - 10 ELSE 48 + d
HexDigits(b) == <<HexDigit(b \div 16), HexDigit(b % 16)>>
HexString(w) ==
  HexDigits((w \div 16777216) % 256) \o HexDigits((w \div 65536) % 256)
    \o HexDigits((w \div 256) % 256) \o HexDigits(w % 256)

\* What the page held before terminal_initialize is never read.
Init ==
  /\ row = 0 /\ column = 0 /\ color = 0
  /\ screen = [i \in Cells |-> 0] /\ beyond = {}
  /\ sti = FALSE /\ pc = "boot" /\ todo = << >>
  /\ ch = 0 /\ x = 0 /\ y = 0 /\ reg = 0 /\ burst = 0

\* terminal_initialize, called with interrupts off.
TerminalInitialize ==
  /\ pc = "boot" /\ pc' = "rest"
  /\ row' = 0 /\ column' = 0 /\ color' = 7
  /\ screen' = [i \in Cells |-> VgaEntry(32, 7)]
  /\ UNCHANGED <<beyond, sti, todo, locals, burst>>

IsrEnable ==
  /\ pc = "rest" /\ todo = << >> /\ ~sti
  /\ sti' = TRUE
  /\ UNCHANGED <<terminal, pc, todo, locals, burst>>

TerminalSetcolor ==
  /\ pc = "rest" /\ todo = << >>
  /\ color' \in Colors
  /\ UNCHANGED <<row, column, screen, beyond, sti, pc, todo, locals, burst>>

TerminalWritestring ==
  /\ pc = "rest" /\ todo = << >>
  /\ todo' \in Strings
  /\ UNCHANGED <<terminal, sti, pc, locals, burst>>

TerminalWritehex ==
  /\ pc = "rest" /\ todo = << >>
  /\ \E w \in Words : todo' = HexString(w)
  /\ UNCHANGED <<terminal, sti, pc, locals, burst>>

-----------------------------------------------------------------------------
(* terminal_putchar in the main thread, one load or store per step.        *)

\* while (*data) terminal_putchar(*data++)
Call ==
  /\ pc = "rest" /\ todo # << >>
  /\ ch' = Head(todo) /\ todo' = Tail(todo)
  /\ pc' = IF Head(todo) = NL THEN "row_load" ELSE "putx"
  /\ UNCHANGED <<terminal, sti, x, y, reg, burst>>

Return == pc' = "rest" /\ burst' = 0

LoadX ==
  /\ pc = "putx" /\ pc' = "puty"
  /\ x' = column
  /\ UNCHANGED <<terminal, sti, todo, ch, y, reg, burst>>

LoadY ==
  /\ pc = "puty" /\ pc' = "putentry"
  /\ y' = row
  /\ UNCHANGED <<terminal, sti, todo, ch, x, reg, burst>>

PutEntry ==
  /\ pc = "putentry" /\ pc' = "column_load"
  /\ PutEntryAt(ch, y * Width + x)
  /\ UNCHANGED <<row, column, color, sti, todo, locals, burst>>

\* ++terminal_column == VGA_WIDTH compares the register, not the variable.
ColumnLoad ==
  /\ pc = "column_load" /\ pc' = "column_store"
  /\ reg' = column
  /\ UNCHANGED <<terminal, sti, todo, ch, x, y, burst>>

ColumnStore ==
  /\ pc = "column_store" /\ pc' = "column_wrap"
  /\ column' = reg + 1
  /\ UNCHANGED <<row, color, screen, beyond, sti, todo, locals, burst>>

\* Mutant of ColumnWrap: the column is not reset.
ColumnWrapKeeps ==
  /\ pc = "column_wrap"
  /\ IF reg + 1 = Width
       THEN pc' = "row_load" /\ UNCHANGED burst
       ELSE Return
  /\ UNCHANGED <<row, column, color, screen, beyond, sti, todo, locals>>

ColumnWrap ==
  /\ pc = "column_wrap"
  /\ IF reg + 1 = Width
       THEN column' = 0 /\ pc' = "row_load" /\ UNCHANGED burst
       ELSE UNCHANGED column /\ Return
  /\ UNCHANGED <<row, color, screen, beyond, sti, todo, locals>>

\* ++terminal_row == VGA_HEIGHT, for a newline or of a full line.
RowLoad ==
  /\ pc = "row_load" /\ pc' = "row_store"
  /\ reg' = row
  /\ UNCHANGED <<terminal, sti, todo, ch, x, y, burst>>

RowStore ==
  /\ pc = "row_store" /\ pc' = "row_wrap"
  /\ row' = reg + 1
  /\ UNCHANGED <<column, color, screen, beyond, sti, todo, locals, burst>>

\* Mutant of RowWrap: the comparison reloads terminal_row from memory.
RowWrapReloads ==
  /\ pc = "row_wrap"
  /\ row' = IF row = Height THEN 0 ELSE row
  /\ IF ch = NL THEN pc' = "newline_column" /\ UNCHANGED burst ELSE Return
  /\ UNCHANGED <<column, color, screen, beyond, sti, todo, locals>>

RowWrap ==
  /\ pc = "row_wrap"
  /\ row' = IF reg + 1 = Height THEN 0 ELSE row
  /\ IF ch = NL THEN pc' = "newline_column" /\ UNCHANGED burst ELSE Return
  /\ UNCHANGED <<column, color, screen, beyond, sti, todo, locals>>

NewlineColumn ==
  /\ pc = "newline_column"
  /\ column' = 0 /\ Return
  /\ UNCHANGED <<row, color, screen, beyond, sti, todo, locals>>

-----------------------------------------------------------------------------
(* terminal_putchar in a handler, interrupts off.                          *)

\* The cursor after ++terminal_row == VGA_HEIGHT, run without interruption.
NextRow == IF row + 1 = Height THEN 0 ELSE row + 1

\* Mutant of Echo: a newline does not return to the first column.
EchoKeepsColumn(c) ==
  /\ sti /\ pc # "boot"
  /\ IF pc = "rest" THEN UNCHANGED burst ELSE burst < Burst /\ burst' = burst + 1
  /\ IF c = NL
       THEN row' = NextRow /\ UNCHANGED <<column, screen, beyond>>
       ELSE /\ PutEntryAt(c, row * Width + column)
            /\ IF column + 1 = Width
                 THEN column' = 0 /\ row' = NextRow
                 ELSE column' = column + 1 /\ UNCHANGED row
  /\ UNCHANGED <<color, sti, pc, todo, locals>>

Echo(c) ==
  /\ sti /\ pc # "boot"
  /\ IF pc = "rest" THEN UNCHANGED burst ELSE burst < Burst /\ burst' = burst + 1
  /\ IF c = NL
       THEN row' = NextRow /\ column' = 0 /\ UNCHANGED <<screen, beyond>>
       ELSE /\ PutEntryAt(c, row * Width + column)
            /\ IF column + 1 = Width
                 THEN column' = 0 /\ row' = NextRow
                 ELSE column' = column + 1 /\ UNCHANGED row
  /\ UNCHANGED <<color, sti, pc, todo, locals>>

Putchar ==
  \/ Call \/ LoadX \/ LoadY \/ PutEntry
  \/ ColumnLoad \/ ColumnStore \/ ColumnWrap
  \/ RowLoad \/ RowStore \/ RowWrap \/ NewlineColumn

Next ==
  \/ TerminalInitialize \/ IsrEnable \/ TerminalSetcolor
  \/ TerminalWritestring \/ TerminalWritehex \/ Putchar
  \/ \E c \in Chars : Echo(c)

Spec == Init /\ [][Next]_vars

-----------------------------------------------------------------------------
(* Properties.                                                             *)

TypeOK ==
  /\ row \in 0..Height + Burst /\ column \in 0..Width + Burst
  /\ color \in 0..255 /\ screen \in [Cells -> Nat] /\ beyond \subseteq Nat
  /\ sti \in BOOLEAN /\ pc \in Pcs /\ todo \in Seq(Char) /\ ch \in Char
  /\ x \in 0..Width - 1 /\ y \in 0..Height - 1 /\ reg \in Nat /\ burst \in 0..Burst

\* Whenever the main thread is outside terminal_putchar the cursor is on the
\* page, however many characters a handler printed between its loads, stores
\* and comparisons: what one putchar overshoots, the same putchar repairs.
CursorAtRest == pc \in {"boot", "rest"} => row < Height /\ column < Width

\* A handler that prints while the main thread has stored but not yet wrapped
\* the cursor stores outside the page, and then at most Burst lines below it.
StrayBounded == beyond \subseteq Width * Height .. Width * (Height + Burst) - 1

\* The position the characters put so far have reached, when no handler
\* interrupts a putchar.
AbsPos ==
  (CASE pc \in {"column_load", "column_store"}               -> row * Width + column + 1
     [] ch # NL /\ pc \in {"row_load", "row_store"}          -> (row + 1) * Width
     [] ch = NL /\ pc \in {"row_wrap", "newline_column"}     -> row * Width
     [] OTHER                                                -> row * Width + column)
  % (Width * Height)

Abs == INSTANCE TerminalAbs WITH pos <- AbsPos, Chars <- Char, Colors <- 0..255

\* With no handler printing inside a putchar (Burst = 0), the loads, stores
\* and wraps of terminal_putchar amount to the atomic terminal.
AtomicTerminal == Abs!Spec

\* kernel.c says that "\n will produce some VGA specific character instead"
\* of a line break.
NewlineIsGlyph ==
  [][Echo(NL) => screen'[row * Width + column] = VgaEntry(NL, color)]_vars

=============================================================================
