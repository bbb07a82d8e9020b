---------------------------- MODULE TerminalAbs ----------------------------
(***************************************************************************)
(* What terminal.c promises its callers: a page of Width * Height cells    *)
(* that is filled from a single position, one character per atomic step,   *)
(* starting over at the first cell when the page is full.                  *)
(***************************************************************************)
EXTENDS Integers

CONSTANTS Width, Height, Chars, Colors

VARIABLES pos, screen, color

absVars == <<pos, screen, color>>

NL    == 10
Cells == 0 .. Width * Height - 1

\* A character cell of the VGA text page: char is signed, so a negative one
\* extends into the colour byte before the colour is or-ed to it.
VgaEntry(c, col) == IF c < 0 THEN 65536 + c ELSE c + 256 * col

\* Space in light grey on black.
Blank == VgaEntry(32, 7)

Clear ==
  /\ pos' = 0 /\ color' = 7
  /\ screen' = [i \in Cells |-> Blank]

Put(c) ==
  /\ IF c = NL
       THEN /\ pos' = (((pos \div Width) + 1) % Height) * Width
            /\ UNCHANGED screen
       ELSE /\ screen' = [screen EXCEPT ![pos] = VgaEntry(c, color)]
            /\ pos' = (pos + 1) % (Width * Height)
  /\ UNCHANGED color

SetColor ==
  /\ color' \in Colors
  /\ UNCHANGED <<pos, screen>>

Init ==
  /\ pos = 0 /\ color = 0
  /\ screen = [i \in Cells |-> 0]

Next == Clear \/ SetColor \/ \E c \in Chars : Put(c)

Spec == Init /\ [][Next]_absVars

=============================================================================
