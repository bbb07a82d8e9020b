-------------------------------- MODULE Apic --------------------------------
(***************************************************************************)
(* The kernel built with i686_USE_APIC: the choice idt_init and arch_init  *)
(* make by cpuid, apic_init's stores to the registers of the local APIC,   *)
(* with interrupts on, and the dispatch of irq.c through either family of  *)
(* stubs.  The same kernel runs on a processor without an APIC and then    *)
(* depends on the PIC alone.                                               *)
(***************************************************************************)
EXTENDS Naturals, Sequences

CONSTANTS
  Features,   \* feature bits of ECX and EDX that processors may differ in
  Priorities  \* task priorities the firmware may leave behind

\* CPUID_FEAT_EDX_APIC of util.h, the tenth of the features from 32 on.
CPUID_FEAT_EDX_APIC == 32 + 9

ASSUME FeaturesAssumption == Features \subseteq 0..31
ASSUME PrioritiesAssumption == Priorities \subseteq 0..255 /\ 0 \in Priorities

VARIABLES
  ecx, edx,     \* what cpuid reports
  pc, step,     \* the main thread; the next store of apic_init
  stubs,        \* the family of stubs in the IDT
  ifl, frame,   \* the interrupt flag; the interrupt in service of the processor
  handlers,     \* handlers[] of irq.c
  apic,         \* the pointer of apic.c
  global, reg,  \* bit 11 of the base MSR; the registers
  counting,     \* the timer runs
  irr, isr,     \* vectors latched and in service in the APIC
  imr, pirr, pisr, \* lines 0 and 1 of the PIC: masked, latched, in service
  key,          \* the keyboard holds its wire up
  drained,      \* i8042_init got past its flush
  glitch,       \* the PIC will answer one acknowledge with line 7
  wild          \* a store went through the null pointer

cpuVars  == <<ecx, edx>>
mainVars == <<pc, step, stubs, handlers, apic, drained>>
apicVars == <<global, reg, counting, irr, isr>>
picVars  == <<imr, pirr, pisr, glitch>>
vars     == <<cpuVars, mainVars, ifl, frame, apicVars, picVars, key, wild>>

IRQ0 == 32
IRQ1 == 33
IRQ7 == 39
NoFrame == [id |-> 0, stage |-> "none"]

-----------------------------------------------------------------------------
(* The structure local_apic_t, field by field with its width in bits, and  *)
(* the registers of the processor, as bit addresses in the page.           *)

Layout ==
  << <<"", 2 * 128>>,
     <<"", 24>>, <<"physical_id", 4>>, <<"", 4 + 96>>,
     <<"version", 8>>, <<"", 8>>, <<"max_lvt_entries", 8>>, <<"", 8 + 96>>,
     <<"", 4 * 128>>,
     <<"tpr.priority", 8>>, <<"", 24 + 96>>, <<"apr", 128>>, <<"ppr", 128>>,
     <<"eoi", 32>>, <<"", 96 + 128>>,
     <<"", 24>>, <<"logical_destination", 8>>, <<"", 96>>,
     <<"", 28>>, <<"destination_format_model", 4>>, <<"", 96>>,
     <<"spurious_int_vector", 8>>, <<"enabled", 1>>, <<"focus_cpu", 1>>, <<"", 2>>,
     <<"eoi_broadcast_suppression", 1>>, <<"", 19 + 96>>,
     <<"isr", 8 * 128>>, <<"tmr", 8 * 128>>, <<"irr", 8 * 128>>,
     <<"error", 32>>, <<"", 96 + 6 * 128>>, <<"lvt_cmci", 32>>, <<"", 96>>,
     <<"icr", 2 * 128>>,
     <<"lvt_timer.vector", 8>>, <<"", 8>>, <<"lvt_timer.mask", 1>>,
     <<"lvt_timer.mode", 2>>, <<"", 13 + 96>>,
     <<"", 16>>, <<"lvt_therm.mask", 1>>, <<"", 15 + 96>>,
     <<"", 16>>, <<"lvt_perfm.mask", 1>>, <<"", 15 + 96>>,
     <<"", 16>>, <<"lvt_lint0.mask", 1>>, <<"", 15 + 96>>,
     <<"", 16>>, <<"lvt_lint1.mask", 1>>, <<"", 15 + 96>>,
     <<"", 16>>, <<"lvt_error.mask", 1>>, <<"", 15 + 96>>,
     <<"timer_initial", 32>>, <<"", 96>>, <<"timer_current", 32>>, <<"", 96>>,
     <<"", 4 * 128>>, <<"divisor", 4>>, <<"", 28 + 96>>, <<"", 128>> >>

\* The bits of the structure before its n-th field.
BitsBefore[n \in 1..Len(Layout) + 1] ==
  IF n = 1 THEN 0 ELSE BitsBefore[n - 1] + Layout[n - 1][2]

BitOf(field) == BitsBefore[CHOOSE n \in 1..Len(Layout) : Layout[n][1] = field]

\* The processor's side.
At(address, bit) == 8 * address + bit
Tpr          == At(128, 0)
EoiRegister  == At(176, 0)
SvrVector    == At(240, 0)
SvrEnabled   == At(240, 8)
TimerVector  == At(800, 0)
TimerMask    == At(800, 16)
TimerMode    == At(800, 17)
Lint0Mask    == At(848, 16)
InitialCount == At(896, 0)
Divide       == At(992, 0)
Registers == {Tpr, SvrVector, SvrEnabled, TimerVector, TimerMask, TimerMode,
              Lint0Mask, InitialCount, Divide}

APIC_TIMER_ONESHOT  == 0
APIC_TIMER_PERIODIC == 1

HasApic == CPUID_FEAT_EDX_APIC - 32 \in edx

\* While the APIC is off its registers are not there and a store is lost;
\* while it is disabled in the SVR a mask cannot be cleared.
Taken(bit, value) ==
  /\ HasApic /\ global /\ bit \in Registers
  /\ bit \in {TimerMask, Lint0Mask} /\ value = 0 => reg[SvrEnabled] = 1

\* A store to the page.
Store(bit, value) ==
  /\ reg' = IF Taken(bit, value) THEN [reg EXCEPT ![bit] = value] ELSE reg
  /\ counting' = IF Taken(bit, value) /\ bit = InitialCount THEN value > 0 ELSE counting

-----------------------------------------------------------------------------
(* The main thread.                                                        *)

\* The firmware leaves the APIC off, or on in any of the usual ways; when it
\* is off, what counts is the state it has after being switched on.
Init ==
  /\ ecx \in SUBSET Features /\ edx \in SUBSET Features
  /\ pc = "idt_init" /\ step = 1 /\ stubs = "none"
  /\ ifl = FALSE /\ frame = NoFrame
  /\ handlers = [v \in 0..47 |-> "null"]
  /\ apic = "null"
  /\ global \in (IF HasApic THEN BOOLEAN ELSE {FALSE})
  /\ \E enabled, lint0 \in {0, 1}, tpr \in Priorities :
       /\ ~global => enabled = 0 /\ lint0 = 1 /\ tpr = 0
       /\ reg = [r \in Registers |->
                   CASE r = SvrEnabled -> enabled [] r = Lint0Mask -> lint0
                     [] r = Tpr -> tpr [] r = SvrVector -> 255
                     [] r = TimerMask -> 1 [] OTHER -> 0]
  /\ counting = FALSE /\ irr = {} /\ isr = {}
  /\ imr = {0} /\ pirr = {} /\ pisr = {}
  /\ key \in BOOLEAN /\ drained = FALSE /\ glitch = FALSE /\ wild = FALSE

\* Mutant of CpuidTestFeature: the other result register.
CpuidTestFeatureEcx(feat) ==
  IF feat >= 32 THEN feat - 32 \in ecx ELSE feat \in edx

CpuidTestFeature(feat) ==
  IF feat >= 32 THEN feat - 32 \in edx ELSE feat \in ecx

ApicIsAvailable == CpuidTestFeature(CPUID_FEAT_EDX_APIC)

IdtInit ==
  /\ pc = "idt_init" /\ pc' = "pic_init"
  /\ stubs' = IF ApicIsAvailable THEN "apic" ELSE "pic"
  /\ UNCHANGED <<cpuVars, step, handlers, apic, drained, ifl, frame, apicVars, picVars, key, wild>>

\* pic_init: lines 0 and 1 are masked, requests forgotten.
PicInit ==
  /\ pc = "pic_init" /\ pc' = "set_handlers"
  /\ imr' = {0, 1} /\ pirr' = {} /\ pisr' = {} /\ glitch' = FALSE
  /\ UNCHANGED <<cpuVars, step, stubs, handlers, apic, drained, ifl, frame, apicVars, key, wild>>

\* isr_set_handler(IRQ_TIMER, ...) and isr_enable.
SetHandlers ==
  /\ pc = "set_handlers" /\ pc' = "i8042_init"
  /\ handlers' = [handlers EXCEPT ![IRQ0] = "timer_interrupt"]
  /\ ifl' = TRUE
  /\ UNCHANGED <<cpuVars, step, stubs, apic, drained, frame, apicVars, picVars, key, wild>>

\* Interrupts are on from here: the main thread moves when none is served.
Main == frame = NoFrame

\* i8042_init's handler and pic_enable_line( 1 ).
I8042Init ==
  /\ Main /\ pc = "i8042_init" /\ pc' = "i8042_flush"
  /\ handlers' = [handlers EXCEPT ![IRQ1] = "i8042_irq"]
  /\ imr' = imr \ {1}
  /\ UNCHANGED <<cpuVars, step, stubs, apic, drained, ifl, frame, apicVars, pirr, pisr, glitch, key, wild>>

\* The rest of i8042_init: it reads the controller empty, which may withdraw
\* a request the PIC has signalled, or it returns early.
I8042Flush ==
  /\ Main /\ pc = "i8042_flush" /\ pc' = "apic_init"
  /\ \/ /\ drained' = TRUE /\ key' = FALSE
        /\ \/ UNCHANGED <<pirr, glitch>>
           \/ 1 \in pirr /\ pirr' = pirr \ {1} /\ glitch' = TRUE
     \/ UNCHANGED <<drained, key, pirr, glitch>>
  /\ UNCHANGED <<cpuVars, step, stubs, handlers, apic, ifl, frame, apicVars, imr, pisr, wild>>

\* apic_init up to paging_map; arch_init does not call it without an APIC.
ApicInit ==
  /\ Main /\ pc = "apic_init"
  /\ IF ApicIsAvailable
       THEN pc' = "store" /\ apic' = "mapped"
       ELSE pc' = "arch_postinit" /\ apic' = apic
  /\ UNCHANGED <<cpuVars, step, stubs, handlers, drained, ifl, frame, apicVars, picVars, key, wild>>

\* Mutant of ResetStores: the task priority is left as the firmware had it.
ResetStoresNoTpr ==
  << <<"destination_format_model", 15>>, <<"logical_destination", 1>>,
     <<"lvt_timer.mask", 1>>, <<"lvt_therm.mask", 1>>, <<"lvt_lint0.mask", 1>>,
     <<"lvt_lint1.mask", 1>>, <<"lvt_error.mask", 1>>,
     <<"eoi_broadcast_suppression", 1>> >>

\* Mutant of ResetStores: LINT0 is left as the firmware had it.
ResetStoresLint0 ==
  << <<"destination_format_model", 15>>, <<"logical_destination", 1>>,
     <<"lvt_timer.mask", 1>>, <<"lvt_therm.mask", 1>>,
     <<"lvt_lint1.mask", 1>>, <<"lvt_error.mask", 1>>,
     <<"eoi_broadcast_suppression", 1>>, <<"tpr.priority", 0>> >>

\* The stores of apic_init before wrmsr,
ResetStores ==
  << <<"destination_format_model", 15>>, <<"logical_destination", 1>>,
     <<"lvt_timer.mask", 1>>, <<"lvt_therm.mask", 1>>, <<"lvt_lint0.mask", 1>>,
     <<"lvt_lint1.mask", 1>>, <<"lvt_error.mask", 1>>,
     <<"eoi_broadcast_suppression", 1>>, <<"tpr.priority", 0>> >>

\* Mutant of EnableStores: the enable bit of the SVR is forgotten.
EnableStoresNone == << <<"focus_cpu", 1>>, <<"spurious_int_vector", 39>> >>

\* those that enable the APIC,
EnableStores == << <<"focus_cpu", 1>>, <<"spurious_int_vector", 39>>, <<"enabled", 1>> >>

\* Mutant of TimerStores: the vector 0x20 is written as 20.
TimerStoresDecimal ==
  << <<"lvt_timer.vector", 20>>, <<"lvt_timer.mode", APIC_TIMER_ONESHOT>>,
     <<"divisor", 11>>, <<"timer_initial", 1000>>, <<"lvt_timer.mask", 0>> >>

\* Mutant of TimerStores: the count is started before the divisor is set.
TimerStoresEarly ==
  << <<"lvt_timer.vector", 32>>, <<"lvt_timer.mode", APIC_TIMER_ONESHOT>>,
     <<"timer_initial", 1000>>, <<"divisor", 11>>, <<"lvt_timer.mask", 0>> >>

\* and those that start the timer.
TimerStores ==
  << <<"lvt_timer.vector", 32>>, <<"lvt_timer.mode", APIC_TIMER_ONESHOT>>,
     <<"divisor", 11>>, <<"timer_initial", 1000>>, <<"lvt_timer.mask", 0>> >>

\* "wrmsr" sets the global enable bit.
Program == ResetStores \o << <<"wrmsr", 0>> >> \o EnableStores \o TimerStores

\* wrmsr of the base address with bit 11 set.
Wrmsr == global' = TRUE /\ UNCHANGED <<reg, counting>>

ApicStore ==
  /\ Main /\ pc = "store"
  /\ LET field == Program[step][1] value == Program[step][2]
     IN IF field = "wrmsr"
          THEN Wrmsr
          ELSE Store(BitOf(field), value) /\ UNCHANGED global
  /\ IF step < Len(Program)
       THEN step' = step + 1 /\ pc' = pc
       ELSE step' = step /\ pc' = "arch_postinit"
  /\ UNCHANGED <<cpuVars, stubs, handlers, apic, drained, ifl, frame, irr, isr, picVars, key, wild>>

\* Mutant of ArchPostinit: pic_enable_line(0) is no longer commented out.
ArchPostinitTimer ==
  /\ Main /\ pc = "arch_postinit" /\ pc' = "idle"
  /\ imr' = imr \ {0}
  /\ UNCHANGED <<cpuVars, step, stubs, handlers, apic, drained, ifl, frame, apicVars, pirr, pisr, glitch, key, wild>>

\* arch_postinit does nothing.
ArchPostinit ==
  /\ Main /\ pc = "arch_postinit" /\ pc' = "idle"
  /\ UNCHANGED <<cpuVars, step, stubs, handlers, apic, drained, ifl, frame, apicVars, picVars, key, wild>>

\* while (1)
Idle == Main /\ pc = "idle" /\ UNCHANGED vars

MainThread ==
  \/ IdtInit \/ PicInit \/ SetHandlers \/ I8042Init \/ I8042Flush
  \/ ApicInit \/ ApicStore \/ ArchPostinit

-----------------------------------------------------------------------------
(* Devices, and the processor's interrupt entry.                           *)

Press ==
  /\ ~key /\ key' = TRUE /\ pirr' = pirr \cup {1}
  /\ UNCHANGED <<cpuVars, mainVars, ifl, frame, apicVars, imr, pisr, glitch, wild>>

\* The interval timer of pit_init.
Tick ==
  /\ 0 \notin pirr /\ pirr' = pirr \cup {0}
  /\ UNCHANGED <<cpuVars, mainVars, ifl, frame, apicVars, imr, pisr, glitch, key, wild>>

\* The APIC's timer reaches zero.  A masked entry forgets the event.
Expire ==
  /\ counting
  /\ irr' = IF reg[TimerMask] = 0 THEN irr \cup {reg[TimerVector]} ELSE irr
  /\ counting' = (reg[TimerMode] = APIC_TIMER_PERIODIC)
  /\ UNCHANGED <<cpuVars, mainVars, ifl, frame, global, reg, isr, picVars, key, wild>>

\* The PIC reaches the processor past an APIC that is off, or through LINT0.
LegacyPath == ~HasApic \/ ~global \/ reg[Lint0Mask] = 0

\* Only irq_handler_pic sends the PIC an end of interrupt.
Enter(v) ==
  /\ ifl /\ ifl' = FALSE
  /\ frame' = [id |-> v, stage |-> IF stubs = "pic" THEN "eoi" ELSE "dispatch"]

Pending == {n \in pirr \ imr : \A m \in pisr : n < m}

DeliverPic ==
  /\ LegacyPath
  /\ \E n \in Pending :
       /\ \A m \in Pending : n <= m
       /\ Enter(IRQ0 + n) /\ pirr' = pirr \ {n} /\ pisr' = pisr \cup {n}
  /\ UNCHANGED <<cpuVars, mainVars, apicVars, imr, glitch, key, wild>>

DeliverSpurious ==
  /\ LegacyPath /\ glitch /\ Pending = {}
  /\ Enter(IRQ7) /\ glitch' = FALSE
  /\ UNCHANGED <<cpuVars, mainVars, apicVars, imr, pirr, pisr, key, wild>>

\* The priority class of a vector has to be above the task's and above those
\* in service.
DeliverApic ==
  /\ global /\ reg[SvrEnabled] = 1
  /\ \E v \in irr :
       /\ v \div 16 > reg[Tpr] \div 16 /\ \A w \in isr : v \div 16 > w \div 16
       /\ Enter(v) /\ irr' = irr \ {v} /\ isr' = isr \cup {v}
  /\ UNCHANGED <<cpuVars, mainVars, global, reg, counting, picVars, key, wild>>

-----------------------------------------------------------------------------
(* The handlers, with interrupts off.                                      *)

\* irq_handler_pic ends the interrupt before it dispatches.
IrqHandlerPic ==
  /\ frame.stage = "eoi" /\ frame' = [frame EXCEPT !.stage = "dispatch"]
  /\ pisr' = pisr \ {n \in pisr : \A m \in pisr : n <= m}
  /\ UNCHANGED <<cpuVars, mainVars, ifl, apicVars, imr, pirr, glitch, key, wild>>

\* Mutant of ApicSendEoi: the store is missing.
ApicSendEoiNone == wild' = wild /\ isr' = isr

\* A store to eoi ends the interrupt of the highest priority.
ApicSendEoi ==
  /\ wild' = (wild \/ apic = "null")
  /\ isr' = IF apic = "mapped" /\ HasApic /\ global /\ BitOf("eoi") = EoiRegister
              THEN {v \in isr : \E w \in isr : w > v} ELSE isr

\* timer_interrupt prints its counter and acknowledges.
TimerInterrupt == ApicSendEoi

\* irq_handler_apic, and irq_handler_pic after its end of interrupt.
Dispatch ==
  /\ frame.stage = "dispatch" /\ frame' = [frame EXCEPT !.stage = "iret"]
  /\ IF handlers[frame.id] = "timer_interrupt"
       THEN TimerInterrupt ELSE UNCHANGED <<isr, wild>>
  /\ key' = (key /\ handlers[frame.id] # "i8042_irq")
  /\ UNCHANGED <<cpuVars, mainVars, ifl, global, reg, counting, irr, picVars>>

\* sti; iret
Iret ==
  /\ frame.stage = "iret" /\ frame' = NoFrame /\ ifl' = TRUE
  /\ UNCHANGED <<cpuVars, mainVars, apicVars, picVars, key, wild>>

Handler == IrqHandlerPic \/ Dispatch \/ Iret
Deliver == DeliverPic \/ DeliverSpurious \/ DeliverApic

Next == MainThread \/ Idle \/ Press \/ Tick \/ Expire \/ Deliver \/ Handler

\* The main thread and the handlers never wait; a processor with interrupts
\* on takes them; a timer that runs gets to zero.
Spec ==
  Init /\ [][Next]_vars
  /\ WF_vars(MainThread) /\ WF_vars(Handler) /\ WF_vars(Deliver) /\ WF_vars(Expire)

-----------------------------------------------------------------------------
(* Properties.                                                             *)

MainTypeOK ==
  /\ pc \in {"idt_init", "pic_init", "set_handlers", "i8042_init", "i8042_flush",
             "apic_init", "store", "arch_postinit", "idle"}
  /\ ecx \subseteq Features /\ edx \subseteq Features
  /\ step \in 1..Len(Program) /\ stubs \in {"none", "apic", "pic"}
  /\ handlers \in [0..47 -> {"null", "timer_interrupt", "i8042_irq"}]
  /\ apic \in {"null", "mapped"} /\ drained \in BOOLEAN

FrameTypeOK ==
  /\ frame \in {NoFrame} \cup [id : {IRQ0, IRQ1, IRQ7}, stage : {"eoi", "dispatch", "iret"}]
  /\ ifl \in BOOLEAN /\ key \in BOOLEAN /\ wild \in BOOLEAN

ApicTypeOK ==
  /\ global \in BOOLEAN /\ reg \in [Registers -> 0..1000] /\ counting \in BOOLEAN
  /\ irr \subseteq {IRQ0} /\ isr \subseteq {IRQ0}

PicTypeOK ==
  /\ imr \subseteq {0, 1} /\ pirr \subseteq {0, 1} /\ pisr \subseteq {0, 1}
  /\ glitch \in BOOLEAN

TypeOK == MainTypeOK /\ FrameTypeOK /\ ApicTypeOK /\ PicTypeOK

\* irq_handler_apic sends no end of interrupt itself.  Still, whenever no
\* handler runs, nothing is in service in the APIC.  A line may stay in service
\* in the PIC, a key that came before LINT0 was masked, but only on a processor
\* with an APIC and only behind a PIC that can no longer interrupt at all.
ServiceClean ==
  frame = NoFrame =>
    /\ isr = {}
    /\ pisr # {} => stubs = "apic" /\ (pc = "idle" => ~LegacyPath)

\* timer_interrupt acknowledges through the pointer of apic.c: it never runs
\* before apic_init has mapped it, nor on a processor without an APIC.
EoiMapped == ~wild

\* Whatever the firmware left, apic_init ends with the APIC on, the timer
\* open on IRQ0's vector and the PIC shut out; a store that came before the
\* APIC was on, or before it was enabled, would be lost.
TimerConfigured ==
  HasApic /\ pc = "idle" =>
    /\ global /\ reg[SvrEnabled] = 1 /\ reg[SvrVector] = IRQ7
    /\ reg[TimerVector] = IRQ0 /\ reg[TimerMask] = 0
    /\ reg[Lint0Mask] = 1 /\ reg[InitialCount] = 1000 /\ reg[Divide] = 11

\* A tick of the APIC's timer that was latched, or that the running count
\* will latch, reaches timer_interrupt.
TimerServed ==
  IRQ0 \in irr \/ (counting /\ reg[TimerMask] = 0) ~> frame.id = IRQ0

\* apic_init starts the count before it unmasks the entry.  Only a count that
\* ends between these two stores is forgotten; any other leaves its request.
ShotKept ==
  [][counting /\ ~counting' =>
       IRQ0 \in irr' \/ (pc = "store" /\ step = Len(Program))]_vars

\* On a processor without an APIC this build serves every key, once
\* i8042_init has emptied the controller.
FallbackServed ==
  stubs = "pic" /\ drained /\ key ~> ~key

\* apic.c on the timer's mode: "Periodic".
TimerPeriodic == HasApic => []<>(frame.id = IRQ0)

=============================================================================
