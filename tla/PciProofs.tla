----------------------------- MODULE PciProofs -----------------------------
(***************************************************************************)
(* Theorems about the PCI scan for any number of buses and devices and     *)
(* whatever is plugged in.                                                 *)
(***************************************************************************)
EXTENDS Pci, Integers, FiniteSetTheorems, TLAPS

Current == <<busid, devid>>
Single(slot) == slots[slot][0].id # NoId /\ ~slots[slot][0].multi

\* Lines belong to slots the scan has left, or to the current one when it is
\* past its first function; it never gets there if function 0 is a single one.
ScanInv ==
  /\ \A k \in DOMAIN lines :
       \/ lines[k].bus < busid
       \/ lines[k].bus = busid /\ lines[k].dev < devid
       \/ lines[k].bus = busid /\ lines[k].dev = devid /\ func > 0
  /\ Single(Current) => func = 0

IInv == TypeOK /\ LinesSound /\ ScanInv /\ SingleOnce

-----------------------------------------------------------------------------
(* The counters and the registers.                                         *)

LEMMA CurrentSlot == TypeOK => Current \in Slots /\ slots[Current] \in [Functions -> Answer]
  BY SizesAssumption, CardsAssumption DEF TypeOK, Current, Slots

LEMMA Small == ASSUME NEW m \in Nat, NEW n \in Nat, m < n PROVE m % n = m
  BY SMT

\* A register read is one of a function below four of the current slot.
LEMMA ReadCurrent ==
  ASSUME TypeOK
  PROVE  /\ func % 4 \in Functions \cap 0..3
         /\ func = 0 => func % 4 = 0
         /\ ReadPciConfig(busid, devid, func) = slots[Current][func % 4]
         /\ slots[Current][func % 4] \in Answer
<1>1. func \in 0..7 /\ devid \in 0..Devices - 1
  BY DEF TypeOK, Functions
<1>2. func % 4 \in Functions \cap 0..3 /\ (func = 0 => func % 4 = 0)
  BY <1>1 DEF Functions
<1>3. devid % Devices = devid
  BY <1>1, SizesAssumption, Small
<1>4. ReadPciConfig(busid, devid, func) = slots[Current][func % 4]
  BY <1>3 DEF ReadPciConfig, ConfigAddress, Current
<1>5. QED
  BY <1>2, <1>4, CurrentSlot

\* Where the scan goes: to the next function, or on to a later slot.
LEMMA Advance ==
  ASSUME TypeOK, MoreBuses(busid), NextFunction \/ NextDevice
  PROVE  /\ busid' \in 0..Buses - 1 /\ devid' \in 0..Devices - 1 /\ func' \in Functions
         /\ \/ busid' = busid /\ devid' = devid /\ func' = func + 1 /\ func < 7 /\ NextFunction
            \/ busid' = busid /\ devid' = devid + 1 /\ func' = 0
            \/ busid' = busid + 1 /\ devid' = 0 /\ func' = 0
<1>1. /\ busid \in 0..Buses - 1 /\ devid \in 0..Devices - 1 /\ func \in 0..7
      /\ Buses \in Nat \ {0} /\ Devices \in Nat \ {0} /\ busid + 1 < Buses
  BY SizesAssumption DEF TypeOK, Functions, MoreBuses
<1>2. (busid + 1) % Buses = busid + 1
  BY <1>1, Small
<1>3. CASE NextDevice
  BY <1>1, <1>2, <1>3 DEF NextDevice, Functions
<1>4. CASE NextFunction /\ func < 7
  BY <1>1, <1>4 DEF NextFunction, Functions
<1>5. QED
  BY <1>1, <1>3, <1>4 DEF NextFunction

-----------------------------------------------------------------------------
(* The invariant.                                                          *)

LEMMA LineFields ==
  TypeOK => \A k \in DOMAIN lines : lines[k].bus \in Nat /\ lines[k].dev \in 0..Devices - 1
<1>1. SUFFICES ASSUME TypeOK, NEW k \in DOMAIN lines
               PROVE  lines[k].bus \in Nat /\ lines[k].dev \in 0..Devices - 1
  OBVIOUS
<1>2. lines[k] \in Line
  BY <1>1 DEF TypeOK
<1>3. QED
  BY <1>2, SizesAssumption DEF Line

LEMMA InitIInv == Init => IInv
<1>1. SUFFICES ASSUME Init PROVE IInv
  OBVIOUS
<1>2. lines = << >> /\ DOMAIN lines = {} /\ lines \in Seq(Line)
  BY <1>1 DEF Init
<1>3. TypeOK
  <2>1. busid \in 0..Buses - 1 /\ devid \in 0..Devices - 1 /\ func \in Functions
    BY <1>1, SizesAssumption DEF Init, Functions
  <2>2. slots \in [Slots -> Cards] /\ done \in BOOLEAN
    BY <1>1, Zenon DEF Init
  <2>3. QED
    BY <1>2, <2>1, <2>2, Zenon DEF TypeOK
<1>4. LinesSound /\ SingleOnce
  BY <1>2 DEF LinesSound, SingleOnce, LinesOf
<1>5. ScanInv
  BY <1>1, <1>2 DEF Init, ScanInv
<1>6. QED
  BY <1>3, <1>4, <1>5 DEF IInv

\* Each part of the invariant after a function without an answer.
LEMMA SkipStep == ASSUME IInv, Skip PROVE IInv'
<1>1. TypeOK /\ MoreBuses(busid) /\ lines' = lines /\ slots' = slots /\ done' = done
  BY DEF IInv, Skip
<1>2. /\ busid' \in 0..Buses - 1 /\ devid' \in 0..Devices - 1 /\ func' \in Functions
      /\ \/ busid' = busid /\ devid' = devid /\ func' = func + 1
         \/ busid' = busid /\ devid' = devid + 1 /\ func' = 0
         \/ busid' = busid + 1 /\ devid' = 0 /\ func' = 0
  BY <1>1, Advance DEF Skip
<1>3. TypeOK'
  BY <1>1, <1>2 DEF TypeOK
<1>4. LinesSound' /\ SingleOnce'
  BY <1>1 DEF IInv, LinesSound, SingleOnce, LinesOf, Low, FunctionsOf
<1>5. \A k \in DOMAIN lines : lines[k].bus \in Nat /\ lines[k].dev \in 0..Devices - 1
  BY <1>1, LineFields
<1>6. ASSUME Single(Current) PROVE func' = 0
  <2>1. func = 0 /\ func % 4 = 0
    BY <1>1, <1>6, ReadCurrent DEF IInv, ScanInv
  <2>2. Present(ReadPciConfig(busid, devid, func))
    BY <1>1, <1>6, <2>1, ReadCurrent DEF Present, Single
  <2>3. QED
    BY <2>2 DEF Skip
<1>7. ScanInv'
  <2>1. busid \in Nat /\ devid \in Nat /\ func \in Nat
    BY <1>1 DEF TypeOK, Functions
  <2>2. (Single(Current) => func = 0)'
    BY <1>1, <1>2, <1>6 DEF Single, Current
  <2>3. QED
    BY <1>1, <1>2, <1>5, <2>1, <2>2 DEF IInv, ScanInv
<1>8. QED
  BY <1>3, <1>4, <1>7 DEF IInv

\* Each part of the invariant after a line is printed.
LEMMA ListStep == ASSUME IInv, List PROVE IInv'
<1> DEFINE answer == ReadPciConfig(busid, devid, func)
           line == [bus |-> busid, dev |-> devid, answer |-> answer]
<1>1. /\ TypeOK /\ MoreBuses(busid) /\ Present(answer)
      /\ lines' = Append(lines, line) /\ slots' = slots /\ done' = done
      /\ IF answer.multi THEN NextFunction ELSE NextDevice
  BY DEF IInv, List
<1>2. /\ busid' \in 0..Buses - 1 /\ devid' \in 0..Devices - 1 /\ func' \in Functions
      /\ \/ busid' = busid /\ devid' = devid /\ func' = func + 1
         \/ busid' = busid /\ devid' = devid + 1 /\ func' = 0
         \/ busid' = busid + 1 /\ devid' = 0 /\ func' = 0
  BY <1>1, Advance
<1>3. answer = slots[Current][func % 4] /\ answer \in Answer /\ func % 4 \in Functions \cap 0..3
  BY <1>1, ReadCurrent
<1>4. busid \in 0..Buses - 1 /\ devid \in 0..Devices - 1 /\ func \in Nat
  BY <1>1 DEF TypeOK, Functions
<1>5. line \in Line /\ lines \in Seq(Line)
  BY <1>1, <1>3, <1>4 DEF Line, TypeOK
<1>6. TypeOK'
  BY <1>1, <1>2, <1>5 DEF TypeOK
<1>7. \A k \in DOMAIN lines' :
         \/ k \in DOMAIN lines /\ lines'[k] = lines[k]
         \/ k = Len(lines) + 1 /\ lines'[k] = line
  BY <1>1, <1>5
<1>8. LinesSound'
  <2>1. func % 4 \in Low(Current)
    BY <1>1, <1>3 DEF Low, FunctionsOf, Present
  <2> DEFINE F(s) == Low(s)
  <2>2. \A s : Low(s)' = F(s)
    BY <1>1 DEF Low, FunctionsOf
  <2>3. SUFFICES ASSUME NEW k \in DOMAIN lines'
                 PROVE  \E f \in F(<<lines'[k].bus, lines'[k].dev>>) :
                          lines'[k].answer = slots[<<lines'[k].bus, lines'[k].dev>>][f]
    BY <1>1, <2>2 DEF LinesSound, Low, FunctionsOf
  <2>4. CASE k \in DOMAIN lines /\ lines'[k] = lines[k]
    BY <2>4 DEF IInv, LinesSound
  <2>5. CASE lines'[k] = line
    BY <1>3, <2>1, <2>5 DEF Current
  <2>6. QED
    BY <1>7, <2>4, <2>5
<1>9. Single(Current) => func = 0 /\ func' = 0
  <2>1. SUFFICES ASSUME Single(Current) PROVE func = 0 /\ func' = 0
    OBVIOUS
  <2>2. func = 0 /\ func % 4 = 0
    BY <1>1, <2>1, ReadCurrent DEF IInv, ScanInv
  <2>3. ~answer.multi
    BY <1>3, <2>1, <2>2 DEF Single
  <2>4. QED
    BY <1>1, <2>2, <2>3 DEF NextDevice
<1>10. ScanInv'
  <2>1. \A k \in DOMAIN lines : lines[k].bus \in Nat /\ lines[k].dev \in 0..Devices - 1
    BY <1>1, LineFields
  <2>2. (Single(Current) => func = 0)'
    BY <1>1, <1>2, <1>9 DEF Single, Current
  <2>3. SUFFICES ASSUME NEW k \in DOMAIN lines'
                 PROVE  \/ lines'[k].bus < busid'
                        \/ lines'[k].bus = busid' /\ lines'[k].dev < devid'
                        \/ lines'[k].bus = busid' /\ lines'[k].dev = devid' /\ func' > 0
    BY <2>2 DEF ScanInv
  <2>4. CASE k \in DOMAIN lines /\ lines'[k] = lines[k]
    BY <1>2, <1>4, <2>1, <2>4 DEF IInv, ScanInv
  <2>5. CASE lines'[k] = line
    BY <1>2, <1>4, <2>5
  <2>6. QED
    BY <1>7, <2>4, <2>5
<1>11. SingleOnce'
  <2>1. SUFFICES ASSUME NEW s \in Slots, Single(s),
                        NEW k \in DOMAIN lines', NEW l \in DOMAIN lines',
                        <<lines'[k].bus, lines'[k].dev>> = s,
                        <<lines'[l].bus, lines'[l].dev>> = s
                 PROVE  k = l
    BY <1>1 DEF SingleOnce, LinesOf, Single
  <2>2. ASSUME NEW m \in DOMAIN lines, lines[m].bus = busid, lines[m].dev = devid
        PROVE  ~Single(Current)
    BY <1>4, <1>9, <2>2 DEF IInv, ScanInv
  <2>3. CASE k \in DOMAIN lines /\ lines'[k] = lines[k] /\ l \in DOMAIN lines /\ lines'[l] = lines[l]
    BY <2>1, <2>3 DEF IInv, SingleOnce, LinesOf, Single
  <2>4. CASE lines'[k] = line /\ l \in DOMAIN lines /\ lines'[l] = lines[l]
    BY <2>1, <2>2, <2>4 DEF Current
  <2>5. CASE lines'[l] = line /\ k \in DOMAIN lines /\ lines'[k] = lines[k]
    BY <2>1, <2>2, <2>5 DEF Current
  <2>6. QED
    BY <1>7, <2>3, <2>4, <2>5
<1>12. QED
  BY <1>6, <1>8, <1>10, <1>11 DEF IInv

\* The end of the scan and the idle loop change nothing the invariant names.
LEMMA RestStep == ASSUME IInv, Return \/ UNCHANGED vars PROVE IInv'
<1>1. UNCHANGED <<slots, busid, devid, func, lines>> /\ done' \in BOOLEAN
  BY DEF IInv, TypeOK, Return, vars
<1>2. TypeOK'
  BY <1>1 DEF IInv, TypeOK
<1>3. LinesSound' /\ SingleOnce'
  BY <1>1 DEF IInv, LinesSound, SingleOnce, LinesOf, Low, FunctionsOf
<1>4. ScanInv'
  BY <1>1 DEF IInv, ScanInv, Single, Current
<1>5. QED
  BY <1>2, <1>3, <1>4 DEF IInv

LEMMA IInvHolds == Spec => []IInv
<1>1. IInv /\ [Next]_vars => IInv'
  BY SkipStep, ListStep, RestStep DEF Next, Scan, Idle
<1>2. QED
  BY <1>1, InitIInv, PTL DEF Spec

-----------------------------------------------------------------------------
(* Nothing is missed.                                                      *)

Listed(slot, f) == slots[slot][f] \in Answers(slot)

\* What DevicesListed says of one slot.
SlotListed(slot) ==
  /\ \A f \in Low(slot) : (\A g \in Low(slot) : f <= g) => Listed(slot, f)
  /\ (\A f \in Low(slot) : slots[slot][f].multi) => \A f \in Low(slot) : Listed(slot, f)

\* In the current slot, the functions behind the scan are listed, and each
\* said that there are more: the scan would have left the slot otherwise.
HereListed ==
  \A f \in Low(Current) : f < func => slots[Current][f].multi /\ Listed(Current, f)

LInv == IInv /\ HereListed /\ DevicesListed

LEMMA BySlot == DevicesListed <=> \A slot \in Slots : Passed(slot) => SlotListed(slot)
  BY DEF DevicesListed, SlotListed, Low, Listed

\* Lines stay, and the bus does not change.
LEMMA ListedStays ==
  ASSUME IInv, Skip \/ List, NEW slot
  PROVE  /\ Low(slot)' = Low(slot) /\ slots' = slots
         /\ Answers(slot) \subseteq Answers(slot)'
<1>1. slots' = slots /\ Low(slot)' = Low(slot)
  BY DEF Skip, List, Low, FunctionsOf
<1>2. \A k \in DOMAIN lines : k \in DOMAIN lines' /\ lines'[k] = lines[k]
  <2>1. CASE Skip
    BY <2>1 DEF Skip
  <2>2. CASE List
    <3>1. lines \in Seq(Line)
      BY DEF IInv, TypeOK
    <3>2. \E line : lines' = Append(lines, line)
      BY <2>2 DEF List
    <3>3. QED
      BY <3>1, <3>2
  <2>3. QED
    BY <2>1, <2>2
<1>3. QED
  BY <1>1, <1>2 DEF Answers, LinesOf

\* The slots behind the scan grow by the current one, when the device is left.
LEMMA NewlyPassed ==
  ASSUME TypeOK, MoreBuses(busid), NextFunction \/ NextDevice,
         NEW slot \in Slots, Passed(slot)', ~Passed(slot)
  PROVE  slot = Current /\ NextDevice
<1>1. /\ busid \in 0..Buses - 1 /\ devid \in 0..Devices - 1 /\ func \in 0..7
      /\ Buses \in Nat \ {0} /\ Devices \in Nat \ {0} /\ busid + 1 < Buses
  BY SizesAssumption DEF TypeOK, Functions, MoreBuses
<1>2. slot = <<slot[1], slot[2]>> /\ slot[1] \in 0..Buses - 1 /\ slot[2] \in 0..Devices - 1
  BY DEF Slots
<1>3. NextDevice
  <2>1. ~(busid' = busid /\ devid' = devid)
    BY DEF Passed
  <2>2. QED
    BY <2>1 DEF NextFunction
<1>4. (busid + 1) % Buses = busid + 1
  BY <1>1, Small
<1>5. \/ busid' = busid /\ devid' = devid + 1
      \/ busid' = busid + 1 /\ devid' = 0 /\ ~(devid + 1 < Devices)
  BY <1>3, <1>4 DEF NextDevice
<1>6. slot[1] = busid /\ slot[2] = devid
  BY <1>1, <1>2, <1>5 DEF Passed
<1>7. QED
  BY <1>2, <1>3, <1>6 DEF Current

\* A function whose number fits in two bits is read as itself; one that does
\* not is read as an earlier one.
LEMMA Cut ==
  ASSUME TypeOK
  PROVE  /\ func \in 0..7 /\ func % 4 \in 0..3
         /\ func < 4 => func % 4 = func
         /\ func >= 4 => func % 4 < func
  BY DEF TypeOK, Functions

\* The current slot when its last function number has been tried.
LEMMA LastFunction == ASSUME TypeOK, HereListed, func = 7 PROVE SlotListed(Current)
<1>1. \A f \in Low(Current) : f < func
  BY DEF Low
<1>2. QED
  BY <1>1 DEF HereListed, SlotListed

\* Nothing answers: the functions behind the scan are the same as before.
LEMMA SkipListed == ASSUME LInv, Skip PROVE HereListed' /\ DevicesListed'
<1>1. /\ IInv /\ TypeOK /\ MoreBuses(busid) /\ NextFunction /\ HereListed /\ DevicesListed
      /\ ~Present(ReadPciConfig(busid, devid, func))
  BY DEF LInv, IInv, Skip
<1>2. \A slot : /\ Low(slot)' = Low(slot) /\ slots' = slots
                /\ Answers(slot) \subseteq Answers(slot)'
  BY <1>1, ListedStays
<1>3. func \notin Low(Current)
  <2>1. SUFFICES ASSUME func \in Low(Current) PROVE FALSE
    OBVIOUS
  <2>2. func % 4 = func
    BY <1>1, <2>1, Cut DEF Low
  <2>3. QED
    BY <1>1, <2>1, <2>2, ReadCurrent DEF Present, Low, FunctionsOf
<1>4. HereListed'
  <2>1. CASE func' = func + 1 /\ UNCHANGED <<busid, devid>>
    <3>1. PICK here : here = Current
      OBVIOUS
    <3>2. SUFFICES ASSUME NEW f \in Low(here), f < func + 1
                   PROVE  slots[here][f].multi /\ slots[here][f] \in Answers(here)'
      BY <1>2, <2>1, <3>1 DEF HereListed, Listed, Current
    <3>3. f < func
      BY <1>1, <1>3, <3>1, <3>2, Cut DEF Low
    <3>4. slots[here][f].multi /\ slots[here][f] \in Answers(here)
      BY <1>1, <3>1, <3>3 DEF HereListed, Listed
    <3>5. QED
      BY <1>2, <3>4
  <2>2. CASE func' = 0
    <3>1. \A f \in Low(Current)' : ~(f < func')
      BY <2>2 DEF Low
    <3>2. QED
      BY <3>1 DEF HereListed
  <2>3. QED
    BY <1>1, <2>1, <2>2 DEF NextFunction, NextDevice
<1>5. DevicesListed'
  <2>1. SUFFICES ASSUME NEW slot \in Slots, Passed(slot)'
                 PROVE  SlotListed(slot)'
    BY DEF DevicesListed, SlotListed, Low, Listed
  <2>2. SlotListed(slot)
    <3>1. CASE Passed(slot)
      BY <1>1, <3>1, BySlot
    <3>2. CASE ~Passed(slot)
      <4>1. slot = Current /\ NextDevice
        BY <1>1, <2>1, <3>2, NewlyPassed
      <4>2. func = 7
        BY <1>1, <4>1, Cut DEF NextFunction, NextDevice
      <4>3. QED
        BY <1>1, <4>1, <4>2, LastFunction
    <3>3. QED
      BY <3>1, <3>2
  <2>3. QED
    BY <1>2, <2>2 DEF SlotListed, Listed
<1>6. QED
  BY <1>4, <1>5

\* A line is printed: the function it shows is behind the scan, and if it is
\* the last one the device says it has, the device is complete.
LEMMA ListListed == ASSUME LInv, List PROVE HereListed' /\ DevicesListed'
<1> DEFINE answer == ReadPciConfig(busid, devid, func)
           line == [bus |-> busid, dev |-> devid, answer |-> answer]
<1>1. /\ IInv /\ TypeOK /\ MoreBuses(busid) /\ HereListed /\ DevicesListed /\ Present(answer)
      /\ lines' = Append(lines, line)
      /\ IF answer.multi THEN NextFunction ELSE NextDevice
  BY DEF LInv, IInv, List
<1>2. \A slot : /\ Low(slot)' = Low(slot) /\ slots' = slots
                /\ Answers(slot) \subseteq Answers(slot)'
  BY <1>1, ListedStays
<1>3. PICK here : here = Current
  OBVIOUS
<1>4. answer = slots[here][func % 4] /\ func % 4 \in Low(here)
  <2>1. answer = slots[here][func % 4] /\ func % 4 \in Functions
    BY <1>1, <1>3, ReadCurrent
  <2>2. QED
    BY <1>1, <2>1, Cut DEF Low, FunctionsOf, Present
<1>5. slots[here][func % 4] \in Answers(here)'
  <2>1. Len(lines) + 1 \in DOMAIN lines' /\ lines'[Len(lines) + 1] = line
    <3>1. lines \in Seq(Line)
      BY <1>1 DEF TypeOK
    <3>2. QED
      BY <1>1, <3>1
  <2>2. Len(lines) + 1 \in LinesOf(here)'
    BY <1>3, <2>1 DEF LinesOf, Current
  <2>3. QED
    BY <1>4, <2>1, <2>2 DEF Answers
<1>6. \A f \in Low(here) : f < func => slots[here][f].multi /\ slots[here][f] \in Answers(here)'
  BY <1>1, <1>2, <1>3 DEF HereListed, Listed
<1>7. HereListed'
  <2>1. CASE func' = func + 1 /\ UNCHANGED <<busid, devid>> /\ answer.multi
    <3>1. SUFFICES ASSUME NEW f \in Low(here), f < func + 1
                   PROVE  slots[here][f].multi /\ slots[here][f] \in Answers(here)'
      BY <1>2, <1>3, <2>1 DEF HereListed, Listed, Current
    <3>2. f < func \/ f = func % 4
      BY <1>1, <3>1, Cut DEF Low
    <3>3. QED
      BY <1>4, <1>5, <1>6, <2>1, <3>2
  <2>2. CASE func' = 0
    <3>1. \A f \in Low(Current)' : ~(f < func')
      BY <2>2 DEF Low
    <3>2. QED
      BY <3>1 DEF HereListed
  <2>3. QED
    BY <1>1, <2>1, <2>2 DEF NextFunction, NextDevice
<1>8. DevicesListed'
  <2>1. SUFFICES ASSUME NEW slot \in Slots, Passed(slot)'
                 PROVE  SlotListed(slot)'
    BY DEF DevicesListed, SlotListed, Low, Listed
  <2>2. CASE SlotListed(slot)
    BY <1>2, <2>2 DEF SlotListed, Listed
  <2>3. CASE ~Passed(slot) /\ ~answer.multi
    <3>1. slot = here
      BY <1>1, <1>3, <2>1, <2>3, NewlyPassed
    <3>2. func < 4 /\ func % 4 = func
      <4>1. func % 4 < func => answer.multi
        BY <1>1, <1>4, <1>6
      <4>2. QED
        BY <1>1, <2>3, <4>1, Cut
    <3>3. ~(\A f \in Low(here) : slots[here][f].multi)
      BY <1>4, <2>3
    <3>4. ASSUME NEW f \in Low(here), \A g \in Low(here) : f <= g
          PROVE  slots[here][f] \in Answers(here)'
      <4>1. f \in 0..3 /\ f <= func /\ func \in 0..7
        BY <1>1, <1>4, <3>2, <3>4, Cut DEF Low
      <4>2. QED
        BY <1>5, <1>6, <3>2, <4>1
    <3>5. QED
      BY <1>2, <3>1, <3>3, <3>4 DEF SlotListed, Listed
  <2>4. CASE ~Passed(slot) /\ answer.multi
    <3>1. slot = Current /\ NextDevice
      BY <1>1, <2>1, <2>4, NewlyPassed
    <3>2. func = 7
      BY <1>1, <2>4, <3>1, Cut DEF NextFunction, NextDevice
    <3>3. SlotListed(slot)
      BY <1>1, <3>1, <3>2, LastFunction
    <3>4. QED
      BY <2>2, <3>3
  <2>5. CASE Passed(slot)
    BY <1>1, <2>2, <2>5, BySlot
  <2>6. QED
    BY <2>3, <2>4, <2>5
<1>9. QED
  BY <1>7, <1>8

LEMMA LInvHolds == Spec => []LInv
<1>1. Init => LInv
  <2>1. SUFFICES ASSUME Init PROVE HereListed /\ DevicesListed
    BY InitIInv DEF LInv
  <2>2. func = 0 /\ busid = 0 /\ devid = 0
    BY <2>1 DEF Init
  <2>3. \A f \in Low(Current) : ~(f < func)
    BY <2>2 DEF Low
  <2>4. \A slot \in Slots : ~Passed(slot)
    BY <2>2, SizesAssumption DEF Passed, Slots
  <2>5. QED
    BY <2>3, <2>4 DEF HereListed, DevicesListed
<1>2. LInv /\ [Next]_vars => LInv'
  <2>1. SUFFICES ASSUME LInv, [Next]_vars PROVE LInv'
    OBVIOUS
  <2>2. CASE Skip
    BY <2>1, <2>2, SkipStep, SkipListed DEF LInv
  <2>3. CASE List
    BY <2>1, <2>3, ListStep, ListListed DEF LInv
  <2>4. CASE Return \/ UNCHANGED vars
    <3>1. UNCHANGED <<slots, busid, devid, func, lines>>
      BY <2>4 DEF Return, vars
    <3>2. HereListed' /\ DevicesListed'
      BY <2>1, <3>1 DEF LInv, HereListed, DevicesListed, Passed, Low, Listed, Current,
                        FunctionsOf, Answers, LinesOf
    <3>3. QED
      BY <2>1, <2>4, <3>2, RestStep DEF LInv
  <2>5. QED
    BY <2>1, <2>2, <2>3, <2>4 DEF Next, Scan, Idle
<1>3. QED
  BY <1>1, <1>2, PTL DEF Spec

-----------------------------------------------------------------------------
(* How many lines a device gets.                                           *)

\* The numbers tried in a slot, up to but without n, that found a function.
Tried(slot, n) == {f \in 0..7 : f < n /\ f % 4 \in Low(slot)}

\* The functions below four without the bit, and how many lines that makes.
Last(slot) == {f \in Low(slot) : ~slots[slot][f].multi}
Count(slot) ==
  IF Last(slot) = {} THEN 2 * Cardinality(Low(slot))
  ELSE Cardinality({f \in Low(slot) : \A g \in Last(slot) : f <= g})

\* The current slot has a line for each number tried with success.
CountInv ==
  /\ \A slot \in Slots : IsFiniteSet(LinesOf(slot))
  /\ Cardinality(LinesOf(Current)) = Cardinality(Tried(Current, func))
  /\ \A slot \in Slots : Passed(slot) => Cardinality(LinesOf(slot)) = Count(slot)

\* Numbers 4 to 7 repeat 0 to 3.
LEMMA Twice ==
  ASSUME NEW L \in SUBSET (0..3)
  PROVE  Cardinality({f \in 0..7 : f % 4 \in L}) = 2 * Cardinality(L)
<1> DEFINE H == {f \in 4..7 : f - 4 \in L}
           shift == [f \in L |-> f + 4]
<1>1. IsFiniteSet(L) /\ Cardinality(L) \in Nat
  <2>1. L \in SUBSET Nat /\ 3 \in Nat /\ \A f \in L : f <= 3
    OBVIOUS
  <2>2. IsFiniteSet(L)
    BY <2>1, FS_BoundedSetOfNaturals
  <2>3. QED
    BY <2>2, FS_CardinalityType
<1>2. IsFiniteSet(H) /\ Cardinality(H) = Cardinality(L)
  <2>1. shift \in Bijection(L, H)
    <3>1. \A f \in L : f + 4 \in H
      OBVIOUS
    <3>2. \A h \in H : h - 4 \in L /\ (h - 4) + 4 = h
      OBVIOUS
    <3>3. \A f, g \in L : f + 4 = g + 4 => f = g
      OBVIOUS
    <3>4. shift \in [L -> H]
      BY <3>1
    <3>5. \A f, g \in L : shift[f] = shift[g] => f = g
      BY <3>3
    <3>6. \A h \in H : \E f \in L : shift[f] = h
      BY <3>2
    <3>7. QED
      BY <3>4, <3>5, <3>6 DEF Bijection, Injection, Surjection, IsInjective
  <2>2. ExistsBijection(L, H)
    BY <2>1 DEF ExistsBijection
  <2>3. QED
    BY <1>1, <2>2, FS_Bijection
<1>3. {f \in 0..7 : f % 4 \in L} = L \cup H
  <2>1. \A f \in 0..7 : f % 4 = IF f < 4 THEN f ELSE f - 4
    OBVIOUS
  <2>2. ASSUME NEW f \in 0..7 PROVE f % 4 \in L <=> f \in L \cup H
    BY <2>1
  <2>3. \A f : f \in L \cup H => f \in 0..7
    <3>1. \A f : f \in L => f \in 0..7
      OBVIOUS
    <3>2. \A f : f \in H => f \in 0..7
      OBVIOUS
    <3>3. QED
      BY <3>1, <3>2
  <2>4. QED
    BY <2>2, <2>3, Zenon
<1>4. L \cap H = {}
  OBVIOUS
<1>5. Cardinality(L \cup H) = Cardinality(L) + Cardinality(H) - Cardinality(L \cap H)
  BY <1>1, <1>2, FS_Union
<1>6. Cardinality(L \cap H) = 0
  BY <1>4, FS_EmptySet
<1>7. Cardinality(L \cup H) = 2 * Cardinality(L)
  BY <1>1, <1>2, <1>5, <1>6
<1>8. QED
  BY <1>3, <1>7, Zenon

LEMMA LowNumbers == ASSUME NEW slot PROVE Low(slot) \in SUBSET (0..3)
  BY DEF Low

\* Numbers tried are few.
LEMMA TriedFinite == ASSUME NEW slot, NEW n PROVE IsFiniteSet(Tried(slot, n))
<1>1. Tried(slot, n) \in SUBSET Nat /\ 7 \in Nat /\ \A f \in Tried(slot, n) : f <= 7
  BY DEF Tried
<1>2. QED
  BY <1>1, FS_BoundedSetOfNaturals

CountedHere == Cardinality(LinesOf(Current)) = Cardinality(Tried(Current, func))

\* The slot the scan is at has not been passed, and what it has listed of a
\* slot it is just entering is nothing.
LEMMA FreshSlot == IInv => ~Passed(Current) /\ (func = 0 => CountedHere)
<1>1. SUFFICES ASSUME IInv PROVE ~Passed(Current) /\ (func = 0 => CountedHere)
  OBVIOUS
<1>2. busid \in Nat /\ devid \in Nat
  BY <1>1 DEF IInv, TypeOK
<1>3. ~Passed(Current)
  BY <1>2 DEF Passed, Current
<1>4. ASSUME func = 0 PROVE LinesOf(Current) = {} /\ Tried(Current, func) = {}
  <2>1. LinesOf(Current) = {}
    BY <1>1, <1>2, <1>4 DEF IInv, ScanInv, LinesOf, Current
  <2>2. Tried(Current, func) = {}
    BY <1>4 DEF Tried
  <2>3. QED
    BY <2>1, <2>2
<1>5. QED
  BY <1>3, <1>4 DEF CountedHere

LEMMA NextSlot == IInv' => (func = 0 => CountedHere)'
<1>1. IInv => (func = 0 => CountedHere)
  BY FreshSlot
<1>2. QED
  BY <1>1, PTL

\* What the counts are of does not change.
LEMMA CountSame ==
  ASSUME Skip \/ List, NEW slot, NEW n
  PROVE  Low(slot)' = Low(slot) /\ Count(slot)' = Count(slot) /\ Tried(slot, n)' = Tried(slot, n)
  BY DEF Skip, List, Low, FunctionsOf, Count, Last, Tried

\* A slot whose numbers have all been tried.
LEMMA AllTried ==
  ASSUME TypeOK, HereListed, NEW n, n = 8 \/ (n = 7 /\ 3 \notin Low(Current)),
         func = 7
  PROVE  Cardinality(Tried(Current, n)) = Count(Current)
<1>1. Last(Current) = {}
  BY DEF Last, HereListed, Low
<1>2. Tried(Current, n) = {f \in 0..7 : f % 4 \in Low(Current)}
  <2>1. ASSUME NEW f \in 0..7, f % 4 \in Low(Current) PROVE f < n
    BY <2>1
  <2>2. QED
    BY <2>1 DEF Tried
<1>3. QED
  BY <1>1, <1>2, Twice, LowNumbers DEF Count

\* Nothing answers: the number tried is not one that found a function.
LEMMA SkipCounted == ASSUME LInv, CountInv, Skip, IInv' PROVE CountInv'
<1>1. /\ IInv /\ TypeOK /\ MoreBuses(busid) /\ NextFunction /\ HereListed /\ lines' = lines
      /\ ~Present(ReadPciConfig(busid, devid, func)) /\ slots' = slots
  BY DEF LInv, IInv, Skip
<1>2. \A slot : LinesOf(slot)' = LinesOf(slot) /\ Count(slot)' = Count(slot)
  BY <1>1, CountSame DEF LinesOf
<1>3. func % 4 \notin Low(Current)
  BY <1>1, ReadCurrent DEF Present, Low, FunctionsOf
<1>4. Tried(Current, func + 1) = Tried(Current, func)
  <2>1. ASSUME NEW f \in 0..7, f % 4 \in Low(Current) PROVE f < func + 1 <=> f < func
    BY <1>1, <1>3, <2>1, Cut
  <2>2. QED
    BY <2>1 DEF Tried
<1>5. CountedHere'
  <2>1. CASE func' = func + 1 /\ UNCHANGED <<busid, devid>>
    <3>1. PICK here, n : here = Current /\ n = func + 1
      OBVIOUS
    <3>2. Current' = here /\ func' = n /\ Tried(here, n)' = Tried(here, func)
      BY <1>4, <2>1, <3>1, CountSame DEF Current
    <3>3. Tried(Current, func)' = Tried(here, func)
      BY <3>2 DEF Tried, Low, FunctionsOf
    <3>4. LinesOf(Current)' = LinesOf(here)
      BY <1>2, <3>2 DEF LinesOf
    <3>5. QED
      BY <3>1, <3>3, <3>4 DEF CountInv, CountedHere
  <2>2. CASE func' = 0
    BY <2>2, NextSlot
  <2>3. QED
    BY <1>1, <2>1, <2>2 DEF NextFunction, NextDevice
<1>6. ASSUME NEW slot \in Slots, Passed(slot)' PROVE Cardinality(LinesOf(slot)) = Count(slot)
  <2>1. CASE Passed(slot)
    BY <2>1 DEF CountInv
  <2>2. CASE ~Passed(slot)
    <3>1. slot = Current /\ NextDevice
      BY <1>1, <1>6, <2>2, NewlyPassed
    <3>2. func = 7 /\ 3 \notin Low(Current)
      BY <1>1, <1>3, <3>1, Cut DEF NextFunction, NextDevice
    <3>3. Cardinality(Tried(Current, func)) = Count(Current)
      BY <1>1, <3>2, AllTried
    <3>4. QED
      BY <3>1, <3>3 DEF CountInv
  <2>3. QED
    BY <2>1, <2>2
<1>7. QED
  BY <1>2, <1>5, <1>6 DEF CountInv, CountedHere

\* A line is printed: it is the one of the number tried, and no slot passed
\* earlier gets one.
LEMMA ListCounted == ASSUME LInv, CountInv, List, IInv' PROVE CountInv'
<1> DEFINE answer == ReadPciConfig(busid, devid, func)
           line == [bus |-> busid, dev |-> devid, answer |-> answer]
<1>1. /\ IInv /\ TypeOK /\ MoreBuses(busid) /\ HereListed /\ Present(answer)
      /\ lines' = Append(lines, line)
      /\ IF answer.multi THEN NextFunction ELSE NextDevice
  BY DEF LInv, IInv, List
<1>2. PICK here, n : here = Current /\ n = func + 1
  OBVIOUS
<1>3. here \in Slots /\ func \in 0..7 /\ lines \in Seq(Line)
  BY <1>1, <1>2, CurrentSlot, Cut DEF TypeOK
<1>4. answer = slots[here][func % 4] /\ func % 4 \in Low(here)
  BY <1>1, <1>2, ReadCurrent DEF Low, FunctionsOf, Present
<1>5. /\ DOMAIN lines' = DOMAIN lines \cup {Len(lines) + 1} /\ Len(lines) + 1 \notin DOMAIN lines
      /\ \A k \in DOMAIN lines : lines'[k] = lines[k]
      /\ lines'[Len(lines) + 1] = line
  BY <1>1, <1>3
<1>6. LinesOf(here)' = LinesOf(here) \cup {Len(lines) + 1} /\ Len(lines) + 1 \notin LinesOf(here)
  BY <1>2, <1>5 DEF LinesOf, Current
<1>7. \A slot : slot # here => LinesOf(slot)' = LinesOf(slot)
  BY <1>2, <1>5 DEF LinesOf, Current
<1>8. \A slot : Count(slot)' = Count(slot)
  BY CountSame
<1>9. Tried(here, n) = Tried(here, func) \cup {func} /\ func \notin Tried(here, func)
  <2>1. ASSUME NEW f \in 0..7 PROVE f < n <=> f < func \/ f = func
    BY <1>2, <1>3
  <2>2. QED
    BY <1>3, <1>4, <2>1 DEF Tried
<1>10. IsFiniteSet(LinesOf(here)') /\ Cardinality(LinesOf(here)') = Cardinality(Tried(here, n))
  <2>1. IsFiniteSet(LinesOf(here)) /\ Cardinality(LinesOf(here)) = Cardinality(Tried(here, func))
    BY <1>2, <1>3 DEF CountInv
  <2>2. /\ IsFiniteSet(LinesOf(here) \cup {Len(lines) + 1})
        /\ Cardinality(LinesOf(here) \cup {Len(lines) + 1}) = Cardinality(LinesOf(here)) + 1
    BY <1>6, <2>1, FS_AddElement
  <2>3. Cardinality(Tried(here, func) \cup {func}) = Cardinality(Tried(here, func)) + 1
    BY <1>9, TriedFinite, FS_AddElement
  <2>4. QED
    BY <1>6, <1>9, <2>1, <2>2, <2>3
<1>11. \A slot \in Slots : IsFiniteSet(LinesOf(slot)')
  BY <1>7, <1>10 DEF CountInv
<1>12. CountedHere'
  <2>1. CASE func' = func + 1 /\ UNCHANGED <<busid, devid>>
    <3>1. Current' = here /\ func' = n /\ Tried(here, n)' = Tried(here, n)
      BY <1>2, <2>1, CountSame DEF Current
    <3>2. Tried(Current, func)' = Tried(here, n)
      BY <3>1 DEF Tried, Low, FunctionsOf
    <3>3. LinesOf(Current)' = LinesOf(here)'
      BY <3>1 DEF LinesOf
    <3>4. QED
      BY <1>10, <3>2, <3>3 DEF CountedHere
  <2>2. CASE func' = 0
    BY <2>2, NextSlot
  <2>3. QED
    BY <1>1, <2>1, <2>2 DEF NextFunction, NextDevice
<1>13. ASSUME NEW slot \in Slots, Passed(slot)' PROVE Cardinality(LinesOf(slot)') = Count(slot)
  <2>1. CASE Passed(slot)
    <3>1. slot # here
      BY <1>1, <1>2, <2>1, FreshSlot
    <3>2. QED
      BY <1>7, <2>1, <3>1 DEF CountInv
  <2>2. CASE ~Passed(slot)
    <3>1. slot = here /\ NextDevice
      BY <1>1, <1>2, <1>13, <2>2, NewlyPassed
    <3>2. CASE answer.multi
      <4>1. func = 7 /\ n = 8
        BY <1>1, <1>2, <3>1, <3>2, Cut DEF NextFunction, NextDevice
      <4>2. QED
        BY <1>1, <1>2, <1>10, <3>1, <4>1, AllTried
    <3>3. CASE ~answer.multi
      <4>1. \A f \in Low(here) : f < func => slots[here][f].multi
        BY <1>1, <1>2 DEF HereListed
      <4>2. func < 4 /\ func % 4 = func
        BY <1>1, <1>4, <3>3, <4>1, Cut
      <4>3. func \in Last(here) /\ \A g \in Last(here) : func <= g
        BY <1>3, <1>4, <3>3, <4>1, <4>2 DEF Last, Low
      <4>4. Tried(here, n) = {f \in Low(here) : \A g \in Last(here) : f <= g}
        <5>1. ASSUME NEW f \in 0..7 PROVE f < n /\ f % 4 \in Low(here) <=> f \in Low(here) /\ f <= func
          <6>1. f < n <=> f <= func
            BY <1>2, <1>3
          <6>2. f <= func => f % 4 = f
            <7>1. f <= func => f < 4
              BY <1>3, <4>2
            <7>2. QED
              BY <7>1, Small
          <6>3. QED
            BY <6>1, <6>2
        <5>2. ASSUME NEW f \in Low(here) PROVE f <= func <=> \A g \in Last(here) : f <= g
          <6>1. f \in 0..3 /\ \A g \in Last(here) : g \in 0..3
            BY DEF Low, Last
          <6>2. QED
            BY <1>3, <4>3, <6>1
        <5>3. \A f \in Low(here) : f \in 0..7
          BY DEF Low
        <5>4. QED
          BY <5>1, <5>2, <5>3, Zenon DEF Tried
      <4>5. QED
        BY <1>10, <3>1, <4>3, <4>4 DEF Count
    <3>4. QED
      BY <3>2, <3>3
  <2>3. QED
    BY <2>1, <2>2
<1>14. QED
  BY <1>8, <1>11, <1>12, <1>13 DEF CountInv, CountedHere

LEMMA CountInvHolds == Spec => []CountInv
<1>1. Init => CountInv
  <2>1. SUFFICES ASSUME Init PROVE CountInv
    OBVIOUS
  <2>2. lines = << >> /\ func = 0 /\ busid = 0 /\ devid = 0
    BY <2>1 DEF Init
  <2>3. \A slot \in Slots : LinesOf(slot) = {} /\ ~Passed(slot)
    BY <2>2, SizesAssumption DEF LinesOf, Passed, Slots
  <2>4. CountedHere
    BY <2>1, <2>2, InitIInv, FreshSlot
  <2>5. QED
    BY <2>3, <2>4, FS_EmptySet DEF CountInv, CountedHere
<1>2. LInv /\ LInv' /\ CountInv /\ [Next]_vars => CountInv'
  <2>1. SUFFICES ASSUME LInv, LInv', CountInv, [Next]_vars PROVE CountInv'
    OBVIOUS
  <2>2. CASE Skip \/ List
    BY <2>1, <2>2, SkipCounted, ListCounted DEF LInv
  <2>3. CASE Return \/ UNCHANGED vars
    <3>1. UNCHANGED <<slots, busid, devid, func, lines>>
      BY <2>3 DEF Return, vars
    <3>2. QED
      BY <2>1, <3>1 DEF CountInv, Passed, Current, LinesOf, Tried, Count, Last, Low, FunctionsOf
  <2>4. QED
    BY <2>1, <2>2, <2>3 DEF Next, Scan, Idle
<1>3. QED
  BY <1>1, <1>2, LInvHolds, PTL DEF Spec

-----------------------------------------------------------------------------
(* The theorems.                                                           *)

\* The loop counters of pci.c stay within the buses, devices and functions.
THEOREM TypeCorrect == Spec => []TypeOK
<1>1. IInv => TypeOK
  BY DEF IInv
<1>2. QED
  BY <1>1, IInvHolds, PTL

\* Whatever is plugged in, each line of the scan shows one of the functions 0
\* to 3 of the slot it names: read_pci_config cuts the number to two bits.
THEOREM LinesSoundHolds == Spec => []LinesSound
<1>1. IInv => LinesSound
  BY DEF IInv
<1>2. QED
  BY <1>1, IInvHolds, PTL

\* The break of scan_pci_bus lists a single-function device once, even one
\* that answers to every function number.
THEOREM SingleOnceHolds == Spec => []SingleOnce
<1>1. IInv => SingleOnce
  BY DEF IInv
<1>2. QED
  BY <1>1, IInvHolds, PTL

\* scan_pci_bus misses nothing it can address: a device the scan has left is on
\* the list with its first function, and with every function two bits can
\* number when each says that there are more.
THEOREM DevicesListedHolds == Spec => []DevicesListed
<1>1. LInv => DevicesListed
  BY DEF LInv
<1>2. QED
  BY <1>1, LInvHolds, PTL

\* The two-bit mask makes scan_pci_bus list a device that says throughout that
\* there are more functions twice over; its break ends the list of any other
\* device at the first function that does not say so.
THEOREM LinesCountedHolds == Spec => []LinesCounted
<1>1. CountInv => LinesCounted
  BY DEF CountInv, LinesCounted, Count, Last
<1>2. QED
  BY <1>1, CountInvHolds, PTL

=============================================================================
