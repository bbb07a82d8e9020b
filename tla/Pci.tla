-------------------------------- MODULE Pci --------------------------------
(***************************************************************************)
(* pci.c: pci_init's scan of the buses, function by function, through the  *)
(* configuration mechanism of ports 0xCF8 and 0xCFC.  What is on the buses *)
(* is chosen at the start: each slot holds a card, and a card says how it  *)
(* answers to each of the eight function numbers.                          *)
(***************************************************************************)
EXTENDS Naturals, Sequences, FiniteSets

CONSTANTS
  Buses,    \* values of the uint8_t busid, 256
  Devices,  \* devices of a bus, 32
  Cards     \* what a slot may hold, the empty one included

Functions == 0..7

\* A function as its configuration registers show it: vendor and device in
\* `id', class 06.04 as `bridge', bit 7 of the header type as `multi'.
NoId == 65535
Answer == [id : Nat, bridge : BOOLEAN, multi : BOOLEAN]

ASSUME SizesAssumption == Buses \in Nat \ {0} /\ Devices \in Nat \ {0}
ASSUME CardsAssumption == Cards \subseteq [Functions -> Answer]

VARIABLES
  slots,    \* the card in each slot of each bus
  busid,    \* loop counters of pci_init and scan_pci_bus
  devid, func,
  lines,    \* the lines printed
  done      \* pci_init has returned

vars == <<slots, busid, devid, func, lines, done>>

Slots == (0..Buses - 1) \X (0..Devices - 1)

\* The address read_pci_config builds: the fields do not overlap, and each is
\* cut to its mask, the function's to two bits.
ConfigAddress(bus, dev, f) ==
  [slot |-> <<bus, dev % Devices>>, func |-> f % 4]

\* read_pci_config of the identification, class and header registers.
ReadPciConfig(bus, dev, f) ==
  LET a == ConfigAddress(bus, dev, f) IN slots[a.slot][a.func]

Init ==
  /\ slots \in [Slots -> Cards]
  /\ busid = 0 /\ devid = 0 /\ func = 0
  /\ lines = << >> /\ done = FALSE

\* Mutant of MoreBuses: the loop's condition is busid <= 0xFF.
MoreBusesAlways(bus) == bus <= Buses - 1

\* busid < 0xFF
MoreBuses(bus) == bus < Buses - 1

\* The counters after the last function looked at in a device.
NextDevice ==
  /\ func' = 0
  /\ IF devid + 1 < Devices
       THEN devid' = devid + 1 /\ UNCHANGED busid
       ELSE devid' = 0 /\ busid' = (busid + 1) % Buses

\* Mutant of NextFunction: func <= 8.
NextFunctionEight ==
  IF func < 8 THEN func' = func + 1 /\ UNCHANGED <<busid, devid>> ELSE NextDevice

\* Mutant of NextFunction: only the first two functions are tried.
NextFunctionTwo ==
  IF func < 1 THEN func' = func + 1 /\ UNCHANGED <<busid, devid>> ELSE NextDevice

NextFunction ==
  IF func < 7 THEN func' = func + 1 /\ UNCHANGED <<busid, devid>> ELSE NextDevice

\* Mutant of Present: the vendor is not looked at.
PresentAlways(answer) == TRUE

\* descr.vendor_id == 0xFFFF
Present(answer) == answer.id # NoId

\* Nothing there: continue with the next function.
Skip ==
  /\ ~done /\ MoreBuses(busid)
  /\ ~Present(ReadPciConfig(busid, devid, func))
  /\ NextFunction
  /\ UNCHANGED <<slots, lines, done>>

\* Mutant of List: no break.
ListAll ==
  LET answer == ReadPciConfig(busid, devid, func)
  IN /\ ~done /\ MoreBuses(busid)
     /\ Present(answer)
     /\ lines' = Append(lines, [bus |-> busid, dev |-> devid, answer |-> answer])
     /\ NextFunction
     /\ UNCHANGED <<slots, done>>

\* Mutant of List: only function 0 is asked for the multi-function bit.
ListBreaksFirst ==
  LET answer == ReadPciConfig(busid, devid, func)
  IN /\ ~done /\ MoreBuses(busid)
     /\ Present(answer)
     /\ lines' = Append(lines, [bus |-> busid, dev |-> devid, answer |-> answer])
     /\ IF answer.multi \/ func # 0 THEN NextFunction ELSE NextDevice
     /\ UNCHANGED <<slots, done>>

\* Print a line (the function number is not on it, a bridge gets a second
\* line and is not entered) and leave the device unless bit 7 of the header
\* type is set.
List ==
  LET answer == ReadPciConfig(busid, devid, func)
  IN /\ ~done /\ MoreBuses(busid)
     /\ Present(answer)
     /\ lines' = Append(lines, [bus |-> busid, dev |-> devid, answer |-> answer])
     /\ IF answer.multi THEN NextFunction ELSE NextDevice
     /\ UNCHANGED <<slots, done>>

Return ==
  /\ ~done /\ ~MoreBuses(busid)
  /\ done' = TRUE
  /\ UNCHANGED <<slots, busid, devid, func, lines>>

\* kernel_main's while (1).
Idle == done /\ UNCHANGED vars

Scan == Skip \/ List \/ Return
Next == Scan \/ Idle

\* The main thread always gets on: every interrupt handler returns.
Spec == Init /\ [][Next]_vars /\ WF_vars(Scan)

-----------------------------------------------------------------------------
(* Properties.                                                             *)

Line == [bus : 0..Buses - 1, dev : 0..Devices - 1, answer : Answer]

TypeOK ==
  /\ slots \in [Slots -> Cards]
  /\ busid \in 0..Buses - 1 /\ devid \in 0..Devices - 1 /\ func \in Functions
  /\ lines \in Seq(Line) /\ done \in BOOLEAN

\* The lines of a slot, and the functions present in it.
LinesOf(slot)   == {k \in DOMAIN lines : <<lines[k].bus, lines[k].dev>> = slot}
Answers(slot)   == {lines[k].answer : k \in LinesOf(slot)}
FunctionsOf(slot) == {f \in Functions : slots[slot][f].id # NoId}

\* The functions that two bits of function number reach.
Low(slot) == FunctionsOf(slot) \cap 0..3

\* Every line shows a function that is really in the slot it names, and never
\* one of the functions 4 to 7, whose numbers are cut to two bits.
LinesSound ==
  \A k \in DOMAIN lines :
    \E f \in Low(<<lines[k].bus, lines[k].dev>>) :
      lines[k].answer = slots[<<lines[k].bus, lines[k].dev>>][f]

\* The slots the scan has left behind.
Passed(slot) ==
  /\ slot[1] < Buses - 1
  /\ slot[1] < busid \/ (slot[1] = busid /\ slot[2] < devid)

\* A device passed by is on the list with its first function below four, and
\* with all of those if each of them says that there are more.
DevicesListed ==
  \A slot \in Slots : Passed(slot) =>
    /\ \A f \in Low(slot) : (\A g \in Low(slot) : f <= g) => slots[slot][f] \in Answers(slot)
    /\ (\A f \in Low(slot) : slots[slot][f].multi) =>
         \A f \in Low(slot) : slots[slot][f] \in Answers(slot)

\* What the two-bit mask and the break cost a device passed by: if each of its
\* functions 0 to 3 says that there are more, the loop goes round twice and
\* there are two lines for each; otherwise there is one line for each function
\* up to the first that does not say so, and none for those behind it.
LinesCounted ==
  \A slot \in Slots : Passed(slot) =>
    LET last == {f \in Low(slot) : ~slots[slot][f].multi}
    IN Cardinality(LinesOf(slot)) =
         IF last = {} THEN 2 * Cardinality(Low(slot))
         ELSE Cardinality({f \in Low(slot) : \A g \in last : f <= g})

\* A device that says it has a single function has a single line, also when
\* it answers to all function numbers alike.
SingleOnce ==
  \A slot \in Slots :
    slots[slot][0].id # NoId /\ ~slots[slot][0].multi =>
      \A k, l \in LinesOf(slot) : k = l

\* The eight-bit bus counter does not keep the scan from ending.
ScanEnds == <>done

=============================================================================
