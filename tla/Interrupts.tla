----------------------------- MODULE Interrupts -----------------------------
(***************************************************************************)
(* How an interrupt or an exception travels through DuckyOS when the       *)
(* kernel is built without i686_USE_APIC: the boot order of kernel_main,   *)
(* the two 8259 interrupt controllers that pic.c programs, the stack frame *)
(* isr.s builds and unwinds, and the dispatch of irq.c.                    *)
(*                                                                         *)
(* Actors that interleave: the main thread (kernel_main), the handler that *)
(* interrupted it (the last of `frames'), the devices that raise lines.    *)
(***************************************************************************)
EXTENDS Naturals, Sequences

CONSTANTS
  Drivers,   \* interrupt lines whose driver arch_init installs; {1} in DuckyOS
  Faults,    \* exception vectors the code of the main thread may raise
  MaxFaults  \* bound: how many exceptions happen in one behaviour

\* Line 2 is the cascade, line 0 is the timer's.
ASSUME DriversAssumption == Drivers \subseteq (1..15) \ {2}
\* Vector 17 (alignment check) is raised in ring 3 only; the kernel runs in ring 0.
ASSUME FaultsAssumption == Faults \subseteq (0..31) \ {17}
ASSUME MaxFaultsAssumption == MaxFaults \in Nat

VARIABLES
  pc,        \* the next call of kernel_main
  drv,       \* per driver, how far its installation has come
  ifl,       \* the interrupt flag of EFLAGS
  shadow,    \* the instruction after `sti' is executing: ifl is not yet honoured
  frames,    \* activations of the stubs of isr.s, the running one last
  handlers,  \* handlers[] of irq.c, by handler name
  base,      \* vectors of lines 0 and 8, <<first controller, second>>
  imr,       \* lines masked in the controllers
  irr,       \* lines with a latched request
  isr,       \* lines in service
  line,      \* driver lines whose device holds its wire up
  glitch,    \* spurious lines the controllers will answer an acknowledge with
  wild,      \* a handler stored through the null `apic' pointer
  faults     \* exceptions raised so far

mainVars == <<pc, drv, handlers>>
cpuVars  == <<ifl, shadow, frames>>
picVars  == <<base, imr, irr, isr, glitch>>
vars     == <<mainVars, cpuVars, picVars, line, wild, faults>>

IRQ_BASE         == 32
IRQ_INTERCONNECT == 2
IRQ_TIMER        == IRQ_BASE
IRQ8             == IRQ_BASE + 8
Vectors          == 0..47           \* the gates idt_init fills
Pic1             == 0..7            \* lines of the first controller
Pic2             == 8..15           \* lines of the second, cascaded on line 2
Lines            == Pic1 \cup Pic2

BootCalls   == {"idt_init", "isr_init", "pic_init", "set_handlers", "isr_enable"}
DriverState == {"absent", "handler", "open", "failed", "drained", "closed"}
Handler     == {"null", "timer_interrupt", "protection_fault", "double_fault",
                "int_hang", "driver"}
Stage       == {"eoi", "dispatch", "spin", "sti", "iret"}

\* "above": stack words between the saved registers and the return address.
Frame == [id : Vectors, src : {"irq", "trap"}, stage : Stage,
          saved : BOOLEAN, above : Nat]

-----------------------------------------------------------------------------
(* The stack frame of isr.s.                                               *)

\* The exceptions for which the processor itself pushes an error code.
CpuErrorCode == {8, 10, 11, 12, 13, 14, 17}

\* The vectors isr.s expands with ISR_ERRORCODE, which pushes no dummy code.
StubErrorCode == {8, 10, 11, 12, 13, 14}

\* Mutant of WordsPushed: the page fault is expanded with ISR_NO_ERRORCODE.
WordsPushedPageFaultDummy(v, src) ==
  1 + (IF src = "trap" /\ v \in CpuErrorCode THEN 1 ELSE 0)
    + (IF v \in StubErrorCode \ {14} THEN 0 ELSE 1)

\* Words above the return address once a stub has pushed the vector: the
\* vector, the processor's error code if any, the stub's dummy code if any.
WordsPushed(v, src) ==
  1 + (IF src = "trap" /\ v \in CpuErrorCode THEN 1 ELSE 0)
    + (IF v \in StubErrorCode THEN 0 ELSE 1)

\* Mutant of WordsPopped: addl $12, %esp.
WordsPoppedThree == 3

\* addl $8, %esp before iret.
WordsPopped == 2

\* The processor takes vector v: it saves EFLAGS, and the interrupt gate
\* (flags 0x8E) and the stub's cli clear the interrupt flag.  Vectors from
\* IRQ0 on go to irq_handler_pic, the others to isr_handler.
Enter(v, src) ==
  /\ frames' = Append(frames,
       [id |-> v, src |-> src, stage |-> IF v >= IRQ_BASE THEN "eoi" ELSE "dispatch",
        saved |-> ifl, above |-> WordsPushed(v, src)])
  /\ ifl' = FALSE
  /\ shadow' = FALSE

InMain == frames = << >>
Top    == frames[Len(frames)]
SetTop(f) == frames' = [frames EXCEPT ![Len(frames)] = f]
Goto(stage) == SetTop([Top EXCEPT !.stage = stage])

-----------------------------------------------------------------------------
(* The 8259 pair, as pic.c and irq.c use it.                               *)

\* Lines of a controller that request service and that no line in service
\* of the same controller holds back.
Pending2 == {n \in (irr \cap Pic2) \ imr : \A m \in isr \cap Pic2 : n < m}
Pending1 == {n \in ((irr \cap Pic1) \ imr)
                   \cup (IF Pending2 = {} THEN {} ELSE {IRQ_INTERCONNECT} \ imr) :
               \A m \in isr \cap Pic1 : n < m}

\* The lines the acknowledge cycle puts in service: the first of each
\* controller's pending lines, with the cascade line for the second.
Acknowledged(n) ==
  IF n \in Pic1
    THEN n # IRQ_INTERCONNECT /\ n \in Pending1 /\ \A m \in Pending1 : n <= m
    ELSE /\ n \in Pending2 /\ \A m \in Pending2 : n <= m
         /\ IRQ_INTERCONNECT \in Pending1 /\ \A m \in Pending1 : IRQ_INTERCONNECT <= m

InService(n) == IF n \in Pic1 THEN {n} ELSE {n, IRQ_INTERCONNECT}
VectorOf(n)  == IF n \in Pic1 THEN base[1] + n ELSE base[2] + (n - 8)

\* A non-specific end of interrupt: the first line in service of the
\* controller leaves service.
Eoi(inService, pic) ==
  inService \ {n \in inService \cap pic : \A m \in inService \cap pic : n <= m}

\* The lines a controller may answer with when the request of line n is
\* withdrawn between the interrupt signal and its acknowledge.
SpuriousLines(n) == IF n \in Pic1 THEN {7} ELSE {7, 15}

-----------------------------------------------------------------------------
(* The main thread.                                                        *)

\* The state GRUB hands over: the BIOS vectors and any mask, interrupts off
\* (cli of _start), a driver's wire possibly up since before the boot.
Init ==
  /\ pc = "idt_init"
  /\ drv = [d \in Drivers |-> "absent"]
  /\ ifl = FALSE /\ shadow = FALSE /\ frames = << >>
  /\ handlers = [v \in Vectors |-> "null"]
  /\ base = <<8, 112>>
  /\ imr \in SUBSET ({0, IRQ_INTERCONNECT} \cup Drivers)
  /\ line \in SUBSET Drivers
  /\ irr = line
  /\ isr = {} /\ glitch = {} /\ wild = FALSE /\ faults = 0

\* idt_init: all 48 gates, then lidt.  From here on exceptions have a handler.
IdtInit ==
  /\ InMain /\ pc = "idt_init" /\ pc' = "isr_init"
  /\ UNCHANGED <<drv, handlers, cpuVars, picVars, line, wild, faults>>

IsrInit ==
  /\ InMain /\ pc = "isr_init" /\ pc' = "pic_init"
  /\ handlers' = [v \in Vectors |-> "null"]
  /\ UNCHANGED <<drv, cpuVars, picVars, line, wild, faults>>

\* pic_init (the first command word resets requests and service) and pit_init.
PicInit ==
  /\ InMain /\ pc = "pic_init" /\ pc' = "set_handlers"
  /\ base' = <<IRQ_BASE, IRQ_BASE + 8>>
  /\ imr' = Lines \ {IRQ_INTERCONNECT}
  /\ irr' = {} /\ isr' = {} /\ glitch' = {}
  /\ UNCHANGED <<drv, handlers, cpuVars, line, wild, faults>>

\* The isr_set_handler calls of kernel_main.
SetHandlers ==
  /\ InMain /\ pc = "set_handlers" /\ pc' = "isr_enable"
  /\ handlers' = [handlers EXCEPT ![IRQ_TIMER] = "timer_interrupt",
                    ![13] = "protection_fault", ![8] = "double_fault", ![6] = "int_hang"]
  /\ UNCHANGED <<drv, cpuVars, picVars, line, wild, faults>>

IsrEnable ==
  /\ InMain /\ pc = "isr_enable" /\ pc' = "arch_init"
  /\ ifl' = TRUE
  /\ UNCHANGED <<drv, handlers, shadow, frames, picVars, line, wild, faults>>

\* arch_init installs one driver at a time.
Installing(d) == InMain /\ pc = "arch_init"
  /\ \A e \in Drivers \ {d} : drv[e] \in {"absent", "failed", "drained"}

\* isr_set_handler( IRQ1, i8042_irq )
SetHandler(d) ==
  /\ Installing(d) /\ drv[d] = "absent"
  /\ drv' = [drv EXCEPT ![d] = "handler"]
  /\ handlers' = [handlers EXCEPT ![IRQ_BASE + d] = "driver"]
  /\ UNCHANGED <<pc, cpuVars, picVars, line, wild, faults>>

\* Mutant of EnableLine: the line is opened before the handler is there.
EnableLineFirst(d) ==
  /\ Installing(d)
  /\ \/ drv[d] = "absent" /\ d \in imr /\ UNCHANGED drv
     \/ drv[d] = "handler" /\ drv' = [drv EXCEPT ![d] = "open"]
  /\ imr' = imr \ {d}
  /\ UNCHANGED <<pc, handlers, cpuVars, base, irr, isr, glitch, line, wild, faults>>

\* Mutant of EnableLine: the mask bit cleared is the next line's.
EnableLineNext(d) ==
  /\ Installing(d) /\ drv[d] = "handler"
  /\ drv' = [drv EXCEPT ![d] = "open"]
  /\ imr' = imr \ {d + 1}
  /\ UNCHANGED <<pc, handlers, cpuVars, base, irr, isr, glitch, line, wild, faults>>

\* pic_enable_line( 1 )
EnableLine(d) ==
  /\ Installing(d) /\ drv[d] = "handler"
  /\ drv' = [drv EXCEPT ![d] = "open"]
  /\ imr' = imr \ {d}
  /\ UNCHANGED <<pc, handlers, cpuVars, base, irr, isr, glitch, line, wild, faults>>

\* Mutant of Drain: the driver does not read the device empty.
DrainNothing(d) ==
  /\ Installing(d) /\ drv[d] = "open"
  /\ drv' = [drv EXCEPT ![d] = "drained"]
  /\ UNCHANGED <<pc, handlers, cpuVars, picVars, line, wild, faults>>

\* The driver reads its device empty while its line is open: the wire falls,
\* and a request not yet acknowledged stays latched or is withdrawn.
Drain(d) ==
  /\ Installing(d) /\ drv[d] = "open"
  /\ drv' = [drv EXCEPT ![d] = "drained"]
  /\ line' = line \ {d}
  /\ \/ UNCHANGED <<irr, glitch>>
     \/ /\ d \in irr /\ irr' = irr \ {d}
        /\ \E s \in SpuriousLines(d) : glitch' = glitch \cup {s}
  /\ UNCHANGED <<pc, handlers, cpuVars, base, imr, isr, wild, faults>>

\* An early return of the driver's initialisation: the line stays open.
GiveUp(d) ==
  /\ Installing(d) /\ drv[d] = "open"
  /\ drv' = [drv EXCEPT ![d] = "failed"]
  /\ UNCHANGED <<pc, handlers, cpuVars, picVars, line, wild, faults>>

\* arch_init returns when no driver is left to install.
ArchInitDone ==
  /\ InMain /\ pc = "arch_init" /\ pc' = "arch_postinit"
  /\ \A d \in Drivers : drv[d] \in {"failed", "drained"}
  /\ UNCHANGED <<drv, handlers, cpuVars, picVars, line, wild, faults>>

\* Mutant of ArchPostinit: pic_enable_line(0) is no longer commented out.
ArchPostinitTimer ==
  /\ InMain /\ pc = "arch_postinit" /\ pc' = "idle"
  /\ imr' = imr \ {0}
  /\ UNCHANGED <<drv, handlers, cpuVars, base, irr, isr, glitch, line, wild, faults>>

\* arch_postinit does nothing; pci_init and while (1) follow.
ArchPostinit ==
  /\ InMain /\ pc = "arch_postinit" /\ pc' = "idle"
  /\ UNCHANGED <<drv, handlers, cpuVars, picVars, line, wild, faults>>

\* while (1) at the end of kernel_main, interrupts on.
Idle == InMain /\ pc = "idle" /\ UNCHANGED vars

\* pic_disable_line and pic_enable_line on an installed line, with interrupts
\* on.  Masking a latched request can leave a spurious answer behind.
DisableLine(d) ==
  /\ InMain /\ pc = "idle" /\ drv[d] = "drained"
  /\ drv' = [drv EXCEPT ![d] = "closed"]
  /\ imr' = imr \cup {d}
  /\ \/ UNCHANGED glitch
     \/ d \in irr /\ \E s \in SpuriousLines(d) : glitch' = glitch \cup {s}
  /\ UNCHANGED <<pc, handlers, cpuVars, base, irr, isr, line, wild, faults>>

ReenableLine(d) ==
  /\ InMain /\ pc = "idle" /\ drv[d] = "closed"
  /\ drv' = [drv EXCEPT ![d] = "drained"]
  /\ imr' = imr \ {d}
  /\ UNCHANGED <<pc, handlers, cpuVars, base, irr, isr, glitch, line, wild, faults>>

Main ==
  \/ IdtInit \/ IsrInit \/ PicInit \/ SetHandlers \/ IsrEnable
  \/ ArchInitDone \/ ArchPostinit \/ Idle
  \/ \E d \in Drivers : SetHandler(d) \/ EnableLine(d) \/ Drain(d) \/ GiveUp(d)

PicCalls == \E d \in Drivers : DisableLine(d) \/ ReenableLine(d)

-----------------------------------------------------------------------------
(* Devices and the processor's interrupt entry.                            *)

\* A device raises its wire; the rising edge latches a request, masked or not.
Raise(d) ==
  /\ d \notin line
  /\ line' = line \cup {d}
  /\ irr' = irr \cup {d}
  /\ UNCHANGED <<mainVars, cpuVars, base, imr, isr, glitch, wild, faults>>

\* The interval timer that pit_init programs (and the BIOS before it).
Tick ==
  /\ 0 \notin irr
  /\ irr' = irr \cup {0}
  /\ UNCHANGED <<mainVars, cpuVars, base, imr, isr, glitch, line, wild, faults>>

Interruptible == ifl /\ ~shadow

Deliver ==
  \E n \in Lines :
    /\ Interruptible /\ Acknowledged(n)
    /\ isr' = isr \cup InService(n)
    /\ irr' = irr \ {n}
    /\ Enter(VectorOf(n), "irq")
    /\ UNCHANGED <<mainVars, base, imr, glitch, line, wild, faults>>

\* The acknowledge finds no request: the controller answers with its last
\* line and puts nothing in service but, for the second one, the cascade.
DeliverSpurious ==
  \E n \in glitch :
    /\ Interruptible
    /\ IF n \in Pic1 THEN Pending1 = {}
       ELSE Pending2 = {} /\ \A m \in Pending1 : IRQ_INTERCONNECT < m
    /\ glitch' = glitch \ {n}
    /\ isr' = isr \cup (InService(n) \ {n})
    /\ Enter(VectorOf(n), "irq")
    /\ UNCHANGED <<mainVars, base, imr, irr, line, wild, faults>>

\* An instruction of the main thread faults or traps.
Trap(v) ==
  /\ InMain /\ pc # "idt_init" /\ faults < MaxFaults
  /\ faults' = faults + 1
  /\ Enter(v, "trap")
  /\ UNCHANGED <<mainVars, picVars, line, wild>>

-----------------------------------------------------------------------------
(* The handlers, running with interrupts off.                              *)

\* Mutant of NeedsEoi2: the comparison excludes the first line of the slave.
NeedsEoi2Off(v) == v > IRQ8

\* args.interrupt_id >= IRQ8
NeedsEoi2(v) == v >= IRQ8

\* irq_handler_pic acknowledges before it dispatches.
IrqHandlerPic ==
  /\ ~InMain /\ Top.stage = "eoi"
  /\ isr' = Eoi(IF NeedsEoi2(Top.id) THEN Eoi(isr, Pic2) ELSE isr, Pic1)
  /\ Goto("dispatch")
  /\ UNCHANGED <<mainVars, ifl, shadow, base, imr, irr, glitch, line, wild, faults>>

\* The handler's own work.  protection_fault and int_hang end in while (1);
\* timer_interrupt stores to apic->eoi, and apic is null; a driver reads its
\* device, so the wire falls; the others, unhandled_interrupt too, print.
Dispatch ==
  /\ ~InMain /\ Top.stage = "dispatch"
  /\ LET h == handlers[Top.id]
     IN /\ Goto(IF h \in {"protection_fault", "int_hang"} THEN "spin" ELSE "sti")
        /\ wild' = (wild \/ h = "timer_interrupt")
        /\ line' = IF h = "driver" THEN line \ {Top.id - IRQ_BASE} ELSE line
  /\ UNCHANGED <<mainVars, ifl, shadow, picVars, faults>>

\* Mutant of Sti: `sti' does not stand directly before `iret'.
StiEarly ==
  /\ ~InMain /\ Top.stage = "sti"
  /\ ifl' = TRUE /\ shadow' = FALSE
  /\ SetTop([Top EXCEPT !.stage = "iret", !.above = @ - WordsPopped])
  /\ UNCHANGED <<mainVars, picVars, line, wild, faults>>

\* popl, popa, addl $8, sti: interrupts stay blocked for one more instruction.
Sti ==
  /\ ~InMain /\ Top.stage = "sti"
  /\ ifl' = TRUE /\ shadow' = TRUE
  /\ SetTop([Top EXCEPT !.stage = "iret", !.above = @ - WordsPopped])
  /\ UNCHANGED <<mainVars, picVars, line, wild, faults>>

\* Mutant of Iret: the flag `sti' set survives the return.
IretKeepsFlag ==
  /\ ~InMain /\ Top.stage = "iret"
  /\ shadow' = FALSE /\ UNCHANGED ifl
  /\ frames' = SubSeq(frames, 1, Len(frames) - 1)
  /\ UNCHANGED <<mainVars, picVars, line, wild, faults>>

\* iret restores the interrupted EFLAGS.
Iret ==
  /\ ~InMain /\ Top.stage = "iret"
  /\ ifl' = Top.saved /\ shadow' = FALSE
  /\ frames' = SubSeq(frames, 1, Len(frames) - 1)
  /\ UNCHANGED <<mainVars, picVars, line, wild, faults>>

\* while (1) of protection_fault and int_hang, interrupts off.
Spin == ~InMain /\ Top.stage = "spin" /\ UNCHANGED vars

HandlerStep == IrqHandlerPic \/ Dispatch \/ Spin \/ Sti \/ Iret

Next ==
  \/ Main \/ PicCalls
  \/ Tick \/ \E d \in Drivers : Raise(d)
  \/ Deliver \/ DeliverSpurious \/ \E v \in Faults : Trap(v)
  \/ HandlerStep

\* The processor never stops executing, and takes a deliverable interrupt at
\* the next instruction boundary.  Devices, faults and the calls that close a
\* line owe nothing.
Fairness == WF_vars(Main) /\ WF_vars(Deliver) /\ WF_vars(DeliverSpurious) /\ WF_vars(HandlerStep)

Spec == Init /\ [][Next]_vars /\ Fairness

-----------------------------------------------------------------------------
(* Properties.                                                             *)

TypeOK ==
  /\ pc \in BootCalls \cup {"arch_init", "arch_postinit", "idle"}
  /\ drv \in [Drivers -> DriverState]
  /\ ifl \in BOOLEAN /\ shadow \in BOOLEAN
  /\ frames \in Seq(Frame)
  /\ handlers \in [Vectors -> Handler]
  /\ base \in {<<8, 112>>, <<IRQ_BASE, IRQ_BASE + 8>>}
  /\ imr \subseteq Lines /\ irr \subseteq Lines /\ isr \subseteq Lines
  /\ line \subseteq Drivers /\ glitch \subseteq {7, 15}
  /\ wild \in BOOLEAN /\ faults \in 0..MaxFaults

\* irq_handler_pic's end-of-interrupt commands always match what the
\* acknowledge put in service, spurious answers included: whenever the main
\* thread runs, no line is left in service, so none is blocked for ever.
InServiceClean == InMain => isr = {}

\* A hardware interrupt reaches the kernel only after isr_enable, through the
\* remapped vectors, even if an exception during the boot ran isr.s's `sti'.
IrqOnlyWhenReady ==
  \A i \in DOMAIN frames : frames[i].src = "irq" =>
    pc \notin BootCalls /\ frames[i].id >= IRQ_BASE

\* The `sti' before `iret' never lets a second interrupt in before the first
\* has returned: pending interrupts cannot pile frames on the 16 KiB stack.
StackBounded == Len(frames) <= 1

\* When iret executes, addl $8 has left exactly the return address on top,
\* for every vector and whether or not the processor pushed an error code.
ReturnAddressOnTop ==
  \A i \in DOMAIN frames : frames[i].stage = "iret" => frames[i].above = 0

\* A line is opened after its handler is set: a genuine interrupt never falls
\* through to unhandled_interrupt, which would leave the device unread.
NoUnhandledIrq ==
  \A i \in DOMAIN frames :
    /\ frames[i].src = "irq" /\ frames[i].stage = "eoi"
    /\ frames[i].id - IRQ_BASE \in isr
    => handlers[frames[i].id] # "null"

\* Once a driver has drained its device, a raised wire always has a latched
\* request or a running handler: no edge is lost, neither to the reset of the
\* controllers, nor to masking, nor to the early end of interrupt.
NoLostInterrupt ==
  \A d \in Drivers : drv[d] \in {"drained", "closed"} /\ d \in line =>
    \/ d \in irr
    \/ \E i \in DOMAIN frames : /\ frames[i].id = IRQ_BASE + d
                                /\ frames[i].stage \in {"eoi", "dispatch"}

\* timer_interrupt is registered but must never run in this build: it would
\* store through the null apic pointer.
NoNullEoi == ~wild

\* A keystroke's wire, on an open line, is eventually read, unless a fatal
\* exception stopped the machine or the line was closed.
KeyboardServed ==
  1 \in line /\ 1 \in Drivers /\ drv[1] = "drained" ~>
    \/ 1 \notin line \/ drv[1] = "closed"
    \/ \E i \in DOMAIN frames : frames[i].stage = "spin"

=============================================================================
