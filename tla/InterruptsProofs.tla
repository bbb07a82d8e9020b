-------------------------- MODULE InterruptsProofs --------------------------
(***************************************************************************)
(* Safety of the interrupt path for every set of drivers, every set of     *)
(* ring-0 exceptions and any number of them.                               *)
(***************************************************************************)
EXTENDS Interrupts, SequenceTheorems, TLAPS

\* Before pic_init has run, the controllers are as the BIOS left them.
BeforePic == {"idt_init", "isr_init", "pic_init"}

\* With no handler active nothing is in service; during the boot the flag is
\* off and no driver is installed; afterwards the vectors are the remapped
\* ones and only the cascade and installed drivers' lines are unmasked.
MainInv ==
  /\ InMain => isr = {} /\ ~shadow
  /\ pc \in BootCalls => (InMain => ~ifl) /\ \A d \in Drivers : drv[d] = "absent"
  /\ pc \notin BeforePic =>
       /\ base = <<IRQ_BASE, IRQ_BASE + 8>>
       /\ \A n \in Lines \ imr :
            n # IRQ_INTERCONNECT => n \in Drivers /\ drv[n] \notin {"absent", "handler"}

\* What the handler table holds.
HandlerInv ==
  /\ \A d \in Drivers : drv[d] # "absent" => handlers[IRQ_BASE + d] = "driver"
  /\ \A v \in Vectors : handlers[v] = "timer_interrupt" => v = IRQ_TIMER

\* An active frame f: what it was entered for, and what each stage has left.
FrameInv(f) ==
  /\ f.src = "trap" => f.id \in 0..31 /\ f.stage # "eoi"
  /\ f.src = "irq" => f.id \in 33..47 /\ f.saved /\ pc \notin BootCalls
  /\ pc \in BootCalls => ~f.saved
  /\ f.stage = "eoi" => isr \subseteq InService(f.id - IRQ_BASE)
  /\ f.stage = "eoi" /\ f.id - IRQ_BASE \in isr => handlers[f.id] = "driver"
  /\ f.stage # "eoi" => isr = {}
  /\ IF f.stage = "iret" THEN shadow /\ f.above = 0
                         ELSE ~ifl /\ ~shadow /\ f.above = WordsPopped

IInv ==
  /\ TypeOK
  /\ Len(frames) <= 1
  /\ MainInv
  /\ HandlerInv
  /\ ~InMain => FrameInv(frames[1])
  /\ NoLostInterrupt
  /\ NoNullEoi

-----------------------------------------------------------------------------
(* Facts about the stack of frames.                                        *)

\* An interrupted kernel has exactly one frame, the running one.
LEMMA OneFrame ==
  ASSUME frames \in Seq(Frame), Len(frames) <= 1, ~InMain
  PROVE  Len(frames) = 1 /\ Top = frames[1] /\ frames[1] \in Frame /\ DOMAIN frames = {1}
<1>1. Len(frames) = 1
  <2>1. Len(frames) \in Nat
    BY LenProperties
  <2>2. Len(frames) # 0
    BY EmptySeq, Zenon DEF InMain
  <2>3. \A n \in Nat : n # 0 /\ n <= 1 => n = 1
    OBVIOUS
  <2>4. QED
    BY <2>1, <2>2, <2>3, Zenon
<1>2. 1..1 = {1}
  OBVIOUS
<1>3. QED
  BY <1>1, <1>2, LenProperties, ElementOfSeq DEF Top

\* Taking a vector in the main thread leaves one frame, for that vector.
LEMMA EnterFrame ==
  ASSUME frames = << >>, ifl \in BOOLEAN,
         NEW v \in Vectors, NEW src \in {"irq", "trap"}, Enter(v, src)
  PROVE  /\ frames' \in Seq(Frame) /\ Len(frames') = 1 /\ ~InMain'
         /\ frames'[1] = [id |-> v, src |-> src,
                          stage |-> IF v >= IRQ_BASE THEN "eoi" ELSE "dispatch",
                          saved |-> ifl, above |-> WordsPushed(v, src)]
         /\ DOMAIN frames' = {1}
<1> DEFINE f == [id |-> v, src |-> src,
                 stage |-> IF v >= IRQ_BASE THEN "eoi" ELSE "dispatch",
                 saved |-> ifl, above |-> WordsPushed(v, src)]
<1>1. WordsPushed(v, src) \in Nat
  BY DEF WordsPushed
<1>2. f \in Frame
  BY <1>1 DEF Frame, Stage
<1>3. frames' = Append(frames, f)
  BY DEF Enter
<1>4. frames \in Seq(Frame) /\ Len(frames) = 0
  BY EmptySeq
<1> HIDE DEF f
<1>5. /\ frames' \in Seq(Frame) /\ Len(frames') = 1 /\ frames' # << >>
      /\ frames'[1] = f
  BY <1>2, <1>3, <1>4, AppendProperties
<1>6. 1..1 = {1}
  OBVIOUS
<1>7. DOMAIN frames' = {1}
  BY <1>5, <1>6, LenProperties
<1>8. QED
  BY <1>5, <1>7 DEF f, InMain

\* Rewriting the running frame keeps the stack's shape.
LEMMA SetTopFrame ==
  ASSUME frames \in Seq(Frame), Len(frames) <= 1, ~InMain, NEW f \in Frame, SetTop(f)
  PROVE  /\ frames' \in Seq(Frame) /\ Len(frames') = 1 /\ ~InMain'
         /\ frames'[1] = f /\ DOMAIN frames' = {1}
<1>1. Len(frames) = 1
  BY OneFrame
<1>2. frames' = [frames EXCEPT ![1] = f]
  BY <1>1 DEF SetTop
<1>3. frames' \in Seq(Frame) /\ Len(frames') = 1 /\ frames'[1] = f
  BY <1>1, <1>2, ExceptSeq, Z3T(30)
<1>4. 1..1 = {1}
  OBVIOUS
<1>5. QED
  BY <1>3, <1>4, LenProperties, EmptySeq DEF InMain

-----------------------------------------------------------------------------
(* The invariant holds initially and every step preserves it.              *)

LEMMA InitIInv == Init => IInv
<1> SUFFICES ASSUME Init PROVE IInv
  OBVIOUS
<1> USE DriversAssumption, MaxFaultsAssumption
<1>1. frames \in Seq(Frame) /\ Len(frames) = 0 /\ InMain
  BY EmptySeq DEF Init, InMain
<1>2. TypeOK
  <2>1. pc \in BootCalls /\ drv \in [Drivers -> DriverState]
    BY DEF Init, BootCalls, DriverState
  <2>2. handlers \in [Vectors -> Handler]
    BY DEF Init, Handler
  <2>3. imr \subseteq Lines /\ irr \subseteq Lines /\ isr \subseteq Lines /\ line \subseteq Drivers
    BY DEF Init, Lines, Pic1, Pic2, IRQ_INTERCONNECT
  <2>4. base = <<8, 112>> /\ glitch \subseteq {7, 15} /\ faults \in 0..MaxFaults
    BY DEF Init
  <2>5. ifl \in BOOLEAN /\ shadow \in BOOLEAN /\ wild \in BOOLEAN
    BY DEF Init
  <2>6. QED
    BY <1>1, <2>1, <2>2, <2>3, <2>4, <2>5, Zenon DEF TypeOK
<1>3. MainInv /\ HandlerInv
  BY <1>1 DEF Init, MainInv, HandlerInv, BootCalls, BeforePic, Vectors
<1>4. NoLostInterrupt /\ NoNullEoi
  BY DEF Init, NoLostInterrupt, NoNullEoi
<1>5. QED
  BY <1>1, <1>2, <1>3, <1>4 DEF IInv

\* A step of the main thread owes nothing about frames: there is none.
LEMMA MainStepFrames ==
  ASSUME InMain, UNCHANGED frames
  PROVE  /\ frames' = << >> /\ InMain' /\ Len(frames') <= 1
         /\ frames' \in Seq(Frame) /\ DOMAIN frames = {} /\ DOMAIN frames' = {}
<1>1. frames = << >> /\ frames' = << >>
  BY DEF InMain
<1>2. Len(frames) = 0 /\ frames' \in Seq(Frame)
  BY <1>1, EmptySeq
<1>3. DOMAIN << >> = {}
  OBVIOUS
<1>4. QED
  BY <1>1, <1>2, <1>3 DEF InMain

\* The calls of kernel_main that touch neither drivers nor handlers.
LEMMA BootStep ==
  ASSUME IInv, IdtInit \/ IsrInit \/ PicInit \/ SetHandlers \/ IsrEnable
  PROVE  IInv'
<1>1. InMain /\ UNCHANGED <<frames, drv, line, wild, faults, shadow>>
  BY DEF IdtInit, IsrInit, PicInit, SetHandlers, IsrEnable, cpuVars, picVars
<1>2. TypeOK'
  <2>1. pc' \in BootCalls \cup {"arch_init", "arch_postinit", "idle"}
    BY DEF IdtInit, IsrInit, PicInit, SetHandlers, IsrEnable, BootCalls
  <2>2. handlers' \in [Vectors -> Handler]
    BY DEF IInv, TypeOK, IdtInit, IsrInit, PicInit, SetHandlers, IsrEnable, Handler
  <2>3. /\ base' \in {<<8, 112>>, <<IRQ_BASE, IRQ_BASE + 8>>}
        /\ imr' \subseteq Lines /\ irr' \subseteq Lines /\ isr' \subseteq Lines
        /\ glitch' \subseteq {7, 15}
    BY DEF IInv, TypeOK, IdtInit, IsrInit, PicInit, SetHandlers, IsrEnable, picVars
  <2>4. ifl' \in BOOLEAN
    BY DEF IInv, TypeOK, IdtInit, IsrInit, PicInit, SetHandlers, IsrEnable, cpuVars
  <2>5. QED
    BY <1>1, <2>1, <2>2, <2>3, <2>4, MainStepFrames DEF IInv, TypeOK
<1>3. MainInv'
  BY <1>1, MainStepFrames
  DEF IInv, MainInv, TypeOK, IdtInit, IsrInit, PicInit, SetHandlers, IsrEnable,
      cpuVars, picVars, BootCalls, BeforePic
<1>4. HandlerInv'
  BY <1>1, DriversAssumption
  DEF IInv, HandlerInv, MainInv, TypeOK, IdtInit, IsrInit, PicInit, SetHandlers, IsrEnable,
      BootCalls, Vectors, IRQ_TIMER, IRQ_BASE
<1>5. NoLostInterrupt' /\ NoNullEoi'
  BY <1>1 DEF IInv, NoLostInterrupt, NoNullEoi, MainInv, BootCalls,
      IdtInit, IsrInit, PicInit, SetHandlers, IsrEnable
<1>6. QED
  BY <1>1, <1>2, <1>3, <1>4, <1>5, MainStepFrames DEF IInv

\* The driver's installation, and the calls that close and reopen its line.
LEMMA DriverStep ==
  ASSUME IInv, NEW d \in Drivers,
         \/ SetHandler(d) \/ EnableLine(d) \/ Drain(d) \/ GiveUp(d)
         \/ DisableLine(d) \/ ReenableLine(d)
  PROVE  IInv'
<1> USE DEF SetHandler, EnableLine, Drain, GiveUp, DisableLine, ReenableLine, Installing
<1>1. /\ InMain /\ UNCHANGED <<frames, pc, ifl, shadow, base, isr, wild, faults>>
      /\ pc \notin BootCalls
  BY DEF cpuVars, picVars, BootCalls
<1>2. d \in Lines /\ d # IRQ_INTERCONNECT /\ IRQ_BASE + d \in Vectors /\ d # 0
  BY DriversAssumption DEF Lines, Pic1, Pic2, IRQ_INTERCONNECT, Vectors, IRQ_BASE
<1>3. TypeOK'
  <2>1. drv' \in [Drivers -> DriverState]
    BY DEF IInv, TypeOK, DriverState
  <2>2. handlers' \in [Vectors -> Handler]
    BY DEF IInv, TypeOK, Handler
  <2>3. /\ imr' \subseteq Lines /\ irr' \subseteq Lines /\ line' \subseteq Drivers
    BY <1>2 DEF IInv, TypeOK, picVars
  <2>4. glitch' \subseteq {7, 15}
    BY ZenonT(60) DEF IInv, TypeOK, picVars, SpuriousLines
  <2>5. QED
    BY <1>1, <2>1, <2>2, <2>3, <2>4, MainStepFrames DEF IInv, TypeOK
<1>4. MainInv'
  BY <1>1, <1>2, MainStepFrames
  DEF IInv, MainInv, TypeOK, picVars
<1>5. HandlerInv'
  <2>1. \/ UNCHANGED handlers /\ (drv'[d] # "absent" => drv[d] # "absent")
        \/ handlers' = [handlers EXCEPT ![IRQ_BASE + d] = "driver"]
    BY DEF IInv, TypeOK
  <2>2. \A e \in Drivers \ {d} : drv'[e] = drv[e]
    BY DEF IInv, TypeOK
  <2>3. \A e \in Drivers : IRQ_BASE + e \in Vectors /\ (IRQ_BASE + e = IRQ_BASE + d => e = d)
    BY DriversAssumption DEF Vectors, IRQ_BASE
  <2>4. \A e \in Drivers : drv'[e] # "absent" => handlers'[IRQ_BASE + e] = "driver"
    BY <1>2, <2>1, <2>2, <2>3 DEF IInv, HandlerInv, TypeOK
  <2>5. \A v \in Vectors : handlers'[v] = "timer_interrupt" => v = IRQ_TIMER
    BY <1>2, <2>1 DEF IInv, HandlerInv, TypeOK
  <2>6. QED
    BY <2>4, <2>5 DEF HandlerInv
<1>6. NoLostInterrupt' /\ NoNullEoi'
  BY <1>1, MainStepFrames DEF IInv, NoLostInterrupt, NoNullEoi, TypeOK, picVars
<1>7. QED
  BY <1>1, <1>3, <1>4, <1>5, <1>6, MainStepFrames DEF IInv

\* The remaining calls of kernel_main change nothing but the control point.
LEMMA CallStep ==
  ASSUME IInv, ArchInitDone \/ ArchPostinit
  PROVE  IInv'
<1>1. /\ InMain /\ UNCHANGED <<drv, handlers, cpuVars, picVars, line, wild, faults>>
      /\ pc \notin BootCalls \cup BeforePic
      /\ pc' \in {"arch_postinit", "idle"}
  BY DEF ArchInitDone, ArchPostinit, BootCalls, BeforePic
<1>2. TypeOK'
  BY <1>1 DEF IInv, TypeOK, cpuVars, picVars
<1>3. MainInv'
  BY <1>1, MainStepFrames DEF IInv, MainInv, cpuVars, picVars, BootCalls, BeforePic
<1>4. HandlerInv'
  BY <1>1 DEF IInv, HandlerInv
<1>5. NoLostInterrupt' /\ NoNullEoi'
  BY <1>1 DEF IInv, NoLostInterrupt, NoNullEoi, cpuVars, picVars
<1>6. QED
  BY <1>1, <1>2, <1>3, <1>4, <1>5, MainStepFrames DEF IInv, cpuVars

\* A device or the timer latches one more request.
LEMMA RequestStep ==
  ASSUME IInv, Tick \/ \E d \in Drivers : Raise(d)
  PROVE  IInv'
<1>1. /\ UNCHANGED <<mainVars, cpuVars, base, imr, isr, glitch, wild, faults>>
      /\ irr \subseteq irr' /\ line' \subseteq Drivers /\ irr' \subseteq Lines
      /\ \A d \in line' : d \in line \/ d \in irr'
  <2>1. Drivers \subseteq Lines /\ 0 \in Lines
    BY DriversAssumption DEF Lines, Pic1, Pic2
  <2>2. CASE Tick
    BY <2>1, <2>2 DEF IInv, TypeOK, Tick
  <2>3. ASSUME NEW d \in Drivers, Raise(d)
        PROVE  <1>1!:
    BY <2>1, <2>3 DEF IInv, TypeOK, Raise
  <2>4. QED
    BY <2>2, <2>3
<1>2. TypeOK'
  BY <1>1 DEF IInv, TypeOK, mainVars, cpuVars
<1>3. MainInv' /\ HandlerInv'
  BY <1>1 DEF IInv, MainInv, HandlerInv, InMain, mainVars, cpuVars
<1>4. ~InMain' => FrameInv(frames[1])'
  BY <1>1 DEF IInv, FrameInv, InMain, mainVars, cpuVars
<1>5. NoLostInterrupt' /\ NoNullEoi'
  BY <1>1 DEF IInv, NoLostInterrupt, NoNullEoi, mainVars, cpuVars
<1>6. QED
  BY <1>1, <1>2, <1>3, <1>4, <1>5 DEF IInv, cpuVars

\* An interrupt can only be taken in the main thread after isr_enable: a
\* handler runs with the flag off, and the instruction after its `sti' is
\* the `iret' itself.
LEMMA InterruptibleInMain ==
  ASSUME IInv, Interruptible
  PROVE  /\ InMain /\ frames = << >> /\ isr = {} /\ ifl
         /\ pc \notin BootCalls /\ pc \notin BeforePic
         /\ base = <<IRQ_BASE, IRQ_BASE + 8>>
<1>1. InMain
  BY DEF IInv, FrameInv, Interruptible
<1>2. pc \notin BootCalls
  BY <1>1 DEF IInv, MainInv, Interruptible
<1>3. QED
  BY <1>1, <1>2 DEF IInv, MainInv, InMain, Interruptible, BootCalls, BeforePic

\* Taking the vector of line n: the controller has put at most n and the
\* cascade in service, and n itself only if a driver's handler is installed.
LEMMA EntryStep ==
  ASSUME IInv, Interruptible, NEW n \in 1..15, Enter(IRQ_BASE + n, "irq"),
         isr' \subseteq InService(n), n \in isr' => handlers[IRQ_BASE + n] = "driver",
         irr \ {n} \subseteq irr', irr' \subseteq irr, glitch' \subseteq glitch,
         UNCHANGED <<mainVars, base, imr, line, wild, faults>>
  PROVE  IInv'
<1> DEFINE v == IRQ_BASE + n
<1>1. v \in Vectors /\ v \in 33..47 /\ v >= IRQ_BASE /\ v - IRQ_BASE = n
  BY DEF Vectors, IRQ_BASE
<1>2. WordsPushed(v, "irq") = WordsPopped
  BY <1>1 DEF WordsPushed, WordsPopped, StubErrorCode, CpuErrorCode
<1> HIDE DEF v
<1>3. Enter(v, "irq") /\ ~ifl' /\ ~shadow' /\ ifl' \in BOOLEAN /\ shadow' \in BOOLEAN
  BY DEF Enter, v
<1>4. /\ frames' \in Seq(Frame) /\ Len(frames') = 1 /\ ~InMain' /\ DOMAIN frames' = {1}
      /\ frames'[1] = [id |-> v, src |-> "irq", stage |-> "eoi",
                       saved |-> ifl, above |-> WordsPopped]
  <2>1. frames = << >> /\ ifl \in BOOLEAN
    BY InterruptibleInMain DEF IInv, TypeOK
  <2>2. QED
    BY <1>1, <1>2, <1>3, <2>1, EnterFrame
<1>5. TypeOK'
  <2>1. isr' \subseteq Lines
    BY DEF InService, Lines, Pic1, Pic2, IRQ_INTERCONNECT
  <2>2. QED
    BY <1>3, <1>4, <2>1 DEF IInv, TypeOK, mainVars
<1>6. MainInv' /\ HandlerInv'
  BY <1>4 DEF IInv, MainInv, HandlerInv, mainVars
<1>7. FrameInv(frames[1])'
  <2>1. ifl /\ pc' \notin BootCalls
    BY InterruptibleInMain DEF mainVars
  <2>2. handlers' = handlers
    BY DEF mainVars
  <2>3. QED
    BY <1>1, <1>3, <1>4, <2>1, <2>2 DEF FrameInv, v
<1>8. NoLostInterrupt' /\ NoNullEoi'
  <2>1. \A d \in Drivers : drv[d] \in {"drained", "closed"} /\ d \in line => d \in irr
    <3>1. DOMAIN frames = {}
      BY InterruptibleInMain
    <3>2. QED
      BY <3>1 DEF IInv, NoLostInterrupt
  <2>2. \A d \in Drivers : drv'[d] \in {"drained", "closed"} /\ d \in line' => d \in irr' \/ d = n
    BY <2>1 DEF mainVars
  <2>3. frames'[1].id = IRQ_BASE + n /\ frames'[1].stage = "eoi"
    BY <1>4 DEF v
  <2>4. QED
    BY <1>4, <2>2, <2>3 DEF IInv, NoLostInterrupt, NoNullEoi
<1>9. QED
  BY <1>4, <1>5, <1>6, <1>7, <1>8 DEF IInv

\* A genuine interrupt comes from an unmasked line, hence from a driver's.
LEMMA DeliverStep ==
  ASSUME IInv, Deliver
  PROVE  IInv'
<1>1. PICK n \in Lines :
        /\ Interruptible /\ Acknowledged(n)
        /\ isr' = isr \cup InService(n)
        /\ irr' = irr \ {n}
        /\ Enter(VectorOf(n), "irq")
        /\ UNCHANGED <<mainVars, base, imr, glitch, line, wild, faults>>
  BY DEF Deliver
<1>2. /\ isr = {} /\ pc \notin BeforePic /\ base = <<IRQ_BASE, IRQ_BASE + 8>>
  BY <1>1, InterruptibleInMain
<1>3. n # IRQ_INTERCONNECT /\ n \notin imr
  BY <1>1 DEF Acknowledged, Pending1, Pending2, Pic1, Pic2, IRQ_INTERCONNECT
<1>4. n \in Drivers /\ drv[n] # "absent"
  BY <1>1, <1>2, <1>3 DEF IInv, MainInv
<1>5. n \in 1..15 /\ handlers[IRQ_BASE + n] = "driver"
  BY <1>4, DriversAssumption DEF IInv, HandlerInv
<1>6. VectorOf(n) = IRQ_BASE + n
  BY <1>2, <1>5 DEF VectorOf, IRQ_BASE
<1>7. QED
  BY <1>1, <1>2, <1>5, <1>6, EntryStep

\* A spurious answer is line 7 or 15, and puts neither in service.
LEMMA DeliverSpuriousStep ==
  ASSUME IInv, DeliverSpurious
  PROVE  IInv'
<1>1. PICK n \in glitch :
        /\ Interruptible
        /\ glitch' = glitch \ {n}
        /\ isr' = isr \cup (InService(n) \ {n})
        /\ Enter(VectorOf(n), "irq")
        /\ UNCHANGED <<mainVars, base, imr, irr, line, wild, faults>>
  BY DEF DeliverSpurious
<1>2. isr = {} /\ base = <<IRQ_BASE, IRQ_BASE + 8>>
  BY <1>1, InterruptibleInMain
<1>3. n \in 1..15
  BY DEF IInv, TypeOK
<1>4. VectorOf(n) = IRQ_BASE + n
  BY <1>2, <1>3 DEF VectorOf, IRQ_BASE
<1>5. QED
  BY <1>1, <1>2, <1>3, <1>4, EntryStep

\* An exception of the main thread, at any point of the boot from idt_init on.
LEMMA TrapStep ==
  ASSUME IInv, NEW v \in Faults, Trap(v)
  PROVE  IInv'
<1>1. v \in Vectors /\ v \in 0..31 /\ ~(v >= IRQ_BASE) /\ v # 17
  BY FaultsAssumption DEF Vectors, IRQ_BASE
<1>2. WordsPushed(v, "trap") = WordsPopped
  BY <1>1 DEF WordsPushed, WordsPopped, StubErrorCode, CpuErrorCode
<1>3. /\ InMain /\ frames = << >> /\ ifl \in BOOLEAN /\ isr = {} /\ Enter(v, "trap")
      /\ UNCHANGED <<mainVars, picVars, line, wild>>
  BY DEF IInv, TypeOK, MainInv, Trap, InMain
<1>4. ~ifl' /\ ~shadow' /\ ifl' \in BOOLEAN /\ shadow' \in BOOLEAN
  BY <1>3 DEF Enter
<1>5. /\ frames' \in Seq(Frame) /\ Len(frames') = 1 /\ ~InMain' /\ DOMAIN frames' = {1}
      /\ frames'[1] = [id |-> v, src |-> "trap", stage |-> "dispatch",
                       saved |-> ifl, above |-> WordsPopped]
  BY <1>1, <1>2, <1>3, EnterFrame
<1>6. TypeOK'
  <2>1. faults' \in 0..MaxFaults
    BY MaxFaultsAssumption DEF IInv, TypeOK, Trap
  <2>2. QED
    BY <1>3, <1>4, <1>5, <2>1 DEF IInv, TypeOK, mainVars, picVars
<1>7. MainInv' /\ HandlerInv'
  BY <1>3, <1>5 DEF IInv, MainInv, HandlerInv, mainVars, picVars
<1>8. FrameInv(frames[1])'
  BY <1>1, <1>3, <1>4, <1>5 DEF IInv, MainInv, FrameInv, mainVars, picVars
<1>9. NoLostInterrupt' /\ NoNullEoi'
  <2>1. DOMAIN frames = {}
    BY <1>3
  <2>2. QED
    BY <1>3, <2>1 DEF IInv, NoLostInterrupt, NoNullEoi, mainVars, picVars
<1>10. QED
  BY <1>5, <1>6, <1>7, <1>8, <1>9 DEF IInv

\* The two end-of-interrupt commands, or the one, empty what the acknowledge
\* put in service: nothing, a line, the cascade, or a line and the cascade.
LEMMA EoiClears ==
  ASSUME NEW n \in 1..15, NEW inService \in SUBSET InService(n)
  PROVE  Eoi(IF NeedsEoi2(IRQ_BASE + n) THEN Eoi(inService, Pic2) ELSE inService, Pic1) = {}
<1>1. ASSUME NEW pic \in {Pic1, Pic2}, NEW s, NEW m \in pic, s \cap pic \subseteq {m}
      PROVE  Eoi(s, pic) = s \ {m}
  <2>1. m <= m
    BY DEF Pic1, Pic2
  <2>2. {k \in s \cap pic : \A j \in s \cap pic : k <= j} = s \cap {m}
    BY <1>1, <2>1
  <2>3. QED
    BY <2>2 DEF Eoi
<1>2. CASE n \in Pic1
  <2>1. ~NeedsEoi2(IRQ_BASE + n) /\ inService \subseteq {n}
    BY <1>2 DEF NeedsEoi2, IRQ_BASE, IRQ8, Pic1, InService
  <2>2. Eoi(inService, Pic1) = inService \ {n}
    BY <1>1, <1>2, <2>1
  <2>3. QED
    BY <2>1, <2>2
<1>3. CASE n \notin Pic1
  <2>1. /\ NeedsEoi2(IRQ_BASE + n) /\ inService \subseteq {n, 2}
        /\ n \in Pic2 /\ 2 \notin Pic2 /\ 2 \in Pic1
    BY <1>3 DEF NeedsEoi2, IRQ_BASE, IRQ8, Pic1, Pic2, InService, IRQ_INTERCONNECT
  <2>2. inService \cap Pic2 \subseteq {n} /\ (inService \ {n}) \cap Pic1 \subseteq {2}
    BY <2>1
  <2>3. Eoi(inService, Pic2) = inService \ {n}
    BY <1>1, <2>1, <2>2, Zenon
  <2>4. Eoi(inService \ {n}, Pic1) = (inService \ {n}) \ {2}
    BY <1>1, <2>1, <2>2, Zenon
  <2>5. QED
    BY <2>1, <2>3, <2>4
<1>4. QED
  BY <1>2, <1>3

\* irq_handler_pic leaves nothing in service.
LEMMA IrqHandlerPicStep ==
  ASSUME IInv, IrqHandlerPic
  PROVE  IInv'
<1> DEFINE f == frames[1]
           g == [f EXCEPT !.stage = "dispatch"]
<1>1. /\ ~InMain /\ Top = f /\ f \in Frame /\ Len(frames) = 1 /\ DOMAIN frames = {1}
      /\ f.stage = "eoi" /\ FrameInv(f)
  <2>1. ~InMain /\ Top.stage = "eoi"
    BY DEF IrqHandlerPic
  <2>2. QED
    BY <2>1, OneFrame DEF IInv, TypeOK
<1>2. f.src = "irq" /\ f.id \in 33..47 /\ ~ifl /\ ~shadow
  BY <1>1 DEF FrameInv, Frame
<1>3. g \in Frame /\ SetTop(g)
  BY <1>1 DEF IrqHandlerPic, Goto, Frame, Stage
<1>4. /\ frames' \in Seq(Frame) /\ Len(frames') = 1 /\ ~InMain'
      /\ frames'[1] = g /\ DOMAIN frames' = {1}
  BY <1>1, <1>3, SetTopFrame DEF IInv, TypeOK
<1>5. isr' = {}
  <2>1. f.id - IRQ_BASE \in 1..15 /\ IRQ_BASE + (f.id - IRQ_BASE) = f.id
    BY <1>2 DEF IRQ_BASE
  <2>2. isr \in SUBSET InService(f.id - IRQ_BASE)
    BY <1>1 DEF FrameInv
  <2>3. isr' = Eoi(IF NeedsEoi2(f.id) THEN Eoi(isr, Pic2) ELSE isr, Pic1)
    BY <1>1 DEF IrqHandlerPic
  <2>4. QED
    BY <2>1, <2>2, <2>3, EoiClears
<1>6. UNCHANGED <<mainVars, ifl, shadow, base, imr, irr, glitch, line, wild, faults>>
  BY DEF IrqHandlerPic
<1>7. TypeOK'
  BY <1>4, <1>5, <1>6 DEF IInv, TypeOK, mainVars
<1>8. MainInv' /\ HandlerInv'
  BY <1>4, <1>6 DEF IInv, MainInv, HandlerInv, mainVars
<1>9. FrameInv(frames[1])'
  BY <1>1, <1>2, <1>4, <1>5, <1>6 DEF FrameInv, Frame, mainVars
<1>10. NoLostInterrupt' /\ NoNullEoi'
  <2>1. g.id = f.id /\ g.stage = "dispatch"
    BY <1>1 DEF Frame
  <2>2. QED
    BY <1>1, <1>4, <1>6, <2>1, ZenonT(60) DEF IInv, NoLostInterrupt, NoNullEoi, mainVars
<1>11. QED
  BY <1>4, <1>7, <1>8, <1>9, <1>10 DEF IInv

\* The handler's own work.
LEMMA DispatchStep ==
  ASSUME IInv, Dispatch
  PROVE  IInv'
<1> DEFINE f == frames[1]
           h == handlers[f.id]
           g == [f EXCEPT !.stage = IF h \in {"protection_fault", "int_hang"} THEN "spin" ELSE "sti"]
<1>1. /\ ~InMain /\ Top = f /\ f \in Frame /\ Len(frames) = 1 /\ DOMAIN frames = {1}
      /\ f.stage = "dispatch" /\ FrameInv(f)
  <2>1. ~InMain /\ Top.stage = "dispatch"
    BY DEF Dispatch
  <2>2. QED
    BY <2>1, OneFrame DEF IInv, TypeOK
<1>2. f.id \in 33..47 \/ f.id \in 0..31
  BY <1>1 DEF FrameInv, Frame
<1>3. g \in Frame /\ SetTop(g)
  BY <1>1 DEF Dispatch, Goto, Frame, Stage
<1>4. /\ frames' \in Seq(Frame) /\ Len(frames') = 1 /\ ~InMain'
      /\ frames'[1] = g /\ DOMAIN frames' = {1}
  BY <1>1, <1>3, SetTopFrame DEF IInv, TypeOK
<1>5. /\ UNCHANGED <<mainVars, ifl, shadow, picVars, faults>>
      /\ wild' = (wild \/ h = "timer_interrupt")
      /\ line' = IF h = "driver" THEN line \ {f.id - IRQ_BASE} ELSE line
  BY <1>1 DEF Dispatch
<1>6. h # "timer_interrupt"
  <2>1. f.id \in Vectors /\ f.id # IRQ_TIMER
    BY <1>2 DEF Vectors, IRQ_TIMER, IRQ_BASE
  <2>2. QED
    BY <2>1 DEF IInv, HandlerInv
<1>7. wild' = FALSE
  BY <1>5, <1>6, Zenon DEF IInv, NoNullEoi
<1>8. TypeOK'
  <2>1. line' \subseteq Drivers
    BY <1>5 DEF IInv, TypeOK
  <2>2. QED
    BY <1>4, <1>5, <1>7, <2>1 DEF IInv, TypeOK, mainVars, picVars
<1>9. MainInv' /\ HandlerInv'
  BY <1>4, <1>5 DEF IInv, MainInv, HandlerInv, mainVars, picVars
<1>10. FrameInv(frames[1])'
  BY <1>1, <1>4, <1>5 DEF FrameInv, Frame, mainVars, picVars
<1>11. NoLostInterrupt' /\ NoNullEoi'
  <2>1. ASSUME NEW d \in Drivers, drv'[d] \in {"drained", "closed"}, d \in line'
        PROVE  d \in irr'
    <3>1. drv[d] \in {"drained", "closed"} /\ d \in line /\ irr' = irr
      BY <1>5, <2>1 DEF mainVars, picVars
    <3>2. CASE f.id = IRQ_BASE + d
      <4>1. h = "driver" /\ f.id - IRQ_BASE = d
        BY <3>1, <3>2, DriversAssumption, SMTT(30) DEF IInv, HandlerInv, IRQ_BASE
      <4>2. QED
        BY <1>5, <2>1, <4>1
    <3>3. CASE f.id # IRQ_BASE + d
      BY <1>1, <3>1, <3>3 DEF IInv, NoLostInterrupt
    <3>4. QED
      BY <3>2, <3>3
  <2>2. QED
    BY <1>7, <2>1 DEF NoLostInterrupt, NoNullEoi
<1>12. QED
  BY <1>4, <1>8, <1>9, <1>10, <1>11 DEF IInv

\* The registers and the two words above the return address are popped.
LEMMA StiStep ==
  ASSUME IInv, Sti
  PROVE  IInv'
<1> DEFINE f == frames[1]
           g == [f EXCEPT !.stage = "iret", !.above = f.above - WordsPopped]
<1>1. /\ ~InMain /\ Top = f /\ f \in Frame /\ Len(frames) = 1 /\ DOMAIN frames = {1}
      /\ f.stage = "sti" /\ FrameInv(f)
  <2>1. ~InMain /\ Top.stage = "sti"
    BY DEF Sti
  <2>2. QED
    BY <2>1, OneFrame DEF IInv, TypeOK
<1>2. f.above - WordsPopped = 0 /\ isr = {}
  BY <1>1 DEF FrameInv, WordsPopped
<1>3. g \in Frame /\ SetTop(g)
  <2>1. g \in Frame
    <3>1. [f EXCEPT !.stage = "iret", !.above = 0] \in Frame
      BY <1>1 DEF Frame, Stage
    <3>2. QED
      BY <1>2, <3>1, Zenon
  <2>2. SetTop([Top EXCEPT !.stage = "iret", !.above = @ - WordsPopped])
    BY DEF Sti
  <2>3. QED
    BY <1>1, <2>1, <2>2, Zenon
<1>4. /\ frames' \in Seq(Frame) /\ Len(frames') = 1 /\ ~InMain'
      /\ frames'[1] = g /\ DOMAIN frames' = {1}
  BY <1>1, <1>3, SetTopFrame DEF IInv, TypeOK
<1>5. ifl' = TRUE /\ shadow' = TRUE /\ UNCHANGED <<mainVars, picVars, line, wild, faults>>
  BY DEF Sti
<1>6. TypeOK'
  BY <1>4, <1>5 DEF IInv, TypeOK, mainVars, picVars
<1>7. MainInv' /\ HandlerInv'
  BY <1>4, <1>5 DEF IInv, MainInv, HandlerInv, mainVars, picVars
<1>8. FrameInv(frames[1])'
  BY <1>1, <1>2, <1>4, <1>5 DEF FrameInv, Frame, mainVars, picVars
<1>9. NoLostInterrupt' /\ NoNullEoi'
  BY <1>1, <1>5 DEF IInv, NoLostInterrupt, NoNullEoi, mainVars, picVars
<1>10. QED
  BY <1>4, <1>6, <1>7, <1>8, <1>9 DEF IInv

\* iret returns to the main thread with the flags it was interrupted with.
LEMMA IretStep ==
  ASSUME IInv, Iret
  PROVE  IInv'
<1> DEFINE f == frames[1]
<1>1. /\ ~InMain /\ Top = f /\ f \in Frame /\ Len(frames) = 1 /\ DOMAIN frames = {1}
      /\ f.stage = "iret" /\ FrameInv(f)
  <2>1. ~InMain /\ Top.stage = "iret"
    BY DEF Iret
  <2>2. QED
    BY <2>1, OneFrame DEF IInv, TypeOK
<1>2. frames' = << >>
  BY <1>1 DEF Iret, IInv, TypeOK
<1>3. /\ frames' \in Seq(Frame) /\ Len(frames') <= 1 /\ InMain'
  BY <1>2, EmptySeq DEF InMain
<1>4. /\ ifl' = f.saved /\ shadow' = FALSE /\ ifl' \in BOOLEAN
      /\ UNCHANGED <<mainVars, picVars, line, wild, faults>>
  BY <1>1 DEF Iret, Frame
<1>5. isr = {} /\ (pc \in BootCalls => ~f.saved)
  BY <1>1 DEF FrameInv
<1>6. TypeOK'
  BY <1>3, <1>4 DEF IInv, TypeOK, mainVars, picVars
<1>7. MainInv' /\ HandlerInv'
  BY <1>4, <1>5 DEF IInv, MainInv, HandlerInv, mainVars, picVars
<1>8. NoLostInterrupt' /\ NoNullEoi'
  BY <1>1, <1>4 DEF IInv, NoLostInterrupt, NoNullEoi, mainVars, picVars
<1>9. QED
  BY <1>3, <1>6, <1>7, <1>8 DEF IInv

\* IInv is inductive.
LEMMA NextIInv == IInv /\ [Next]_vars => IInv'
<1> SUFFICES ASSUME IInv, [Next]_vars PROVE IInv'
  OBVIOUS
<1>1. CASE UNCHANGED vars
  <2>1. UNCHANGED <<pc, drv, handlers, ifl, shadow, frames, base, imr, irr, isr, glitch,
                    line, wild, faults>>
    BY <1>1 DEF vars, mainVars, cpuVars, picVars
  <2>2. TypeOK' /\ (Len(frames) <= 1)'
    BY <2>1 DEF IInv, TypeOK
  <2>3. MainInv' /\ HandlerInv' /\ (~InMain => FrameInv(frames[1]))'
    BY <2>1 DEF IInv, MainInv, HandlerInv, FrameInv, InMain
  <2>4. NoLostInterrupt' /\ NoNullEoi'
    BY <2>1 DEF IInv, NoLostInterrupt, NoNullEoi
  <2>5. QED
    BY <2>2, <2>3, <2>4 DEF IInv
<1>2. CASE Main
  <2>1. CASE Idle
    BY <1>1, <2>1 DEF Idle
  <2>2. QED
    BY <1>2, <2>1, BootStep, CallStep, DriverStep DEF Main
<1>3. CASE PicCalls
  BY <1>3, DriverStep DEF PicCalls
<1>4. CASE Tick \/ \E d \in Drivers : Raise(d)
  BY <1>4, RequestStep
<1>5. CASE Deliver
  BY <1>5, DeliverStep
<1>6. CASE DeliverSpurious
  BY <1>6, DeliverSpuriousStep
<1>7. CASE \E v \in Faults : Trap(v)
  BY <1>7, TrapStep
<1>8. CASE HandlerStep
  <2>1. CASE Spin
    BY <1>1, <2>1 DEF Spin
  <2>2. QED
    BY <1>8, <2>1, IrqHandlerPicStep, DispatchStep, StiStep, IretStep DEF HandlerStep
<1>9. QED
  BY <1>1, <1>2, <1>3, <1>4, <1>5, <1>6, <1>7, <1>8 DEF Next

LEMMA IInvHolds == Spec => []IInv
  BY InitIInv, NextIInv, PTL DEF Spec

-----------------------------------------------------------------------------
(* The theorems.                                                           *)

\* Every reachable state of the interrupt path is well typed; in particular
\* no stub pops more words than it pushed.
THEOREM TypeCorrect == Spec => []TypeOK
<1>1. IInv => TypeOK
  BY DEF IInv
<1>2. QED
  BY <1>1, IInvHolds, PTL

\* Whenever the main thread runs, irq_handler_pic has ended every interrupt it
\* was entered for, spurious ones included, and ended no other.
THEOREM InServiceCleanHolds == Spec => []InServiceClean
<1>1. IInv => InServiceClean
  BY DEF IInv, MainInv, InServiceClean
<1>2. QED
  BY <1>1, IInvHolds, PTL

\* The `sti' in front of `iret' never nests handlers.
THEOREM StackBoundedHolds == Spec => []StackBounded
<1>1. IInv => StackBounded
  BY DEF IInv, StackBounded
<1>2. QED
  BY <1>1, IInvHolds, PTL

\* What the invariant says about frames holds of each: there is one at most.
LEMMA FramesInv == ASSUME IInv, NEW i \in DOMAIN frames PROVE i = 1 /\ FrameInv(frames[i])
                          /\ frames[i] \in Frame
<1>1. ~InMain
  BY DEF InMain
<1>2. DOMAIN frames = {1} /\ frames[1] \in Frame
  BY <1>1, OneFrame DEF IInv, TypeOK
<1>3. QED
  BY <1>1, <1>2 DEF IInv

\* No hardware interrupt enters the kernel before isr_enable or through a
\* vector the controllers were not remapped to, whatever exceptions the boot
\* raises and wherever isr.s sets the interrupt flag.
THEOREM IrqOnlyWhenReadyHolds == Spec => []IrqOnlyWhenReady
<1>1. IInv => IrqOnlyWhenReady
  BY FramesInv DEF IrqOnlyWhenReady, FrameInv, IRQ_BASE
<1>2. QED
  BY <1>1, IInvHolds, PTL

\* iret always finds the return address, for every exception and every line.
THEOREM ReturnAddressOnTopHolds == Spec => []ReturnAddressOnTop
<1>1. IInv => ReturnAddressOnTop
  BY FramesInv DEF ReturnAddressOnTop, FrameInv
<1>2. QED
  BY <1>1, IInvHolds, PTL

\* An interrupt that is in service always has a driver's handler.
THEOREM NoUnhandledIrqHolds == Spec => []NoUnhandledIrq
<1>1. IInv => NoUnhandledIrq
  BY FramesInv DEF NoUnhandledIrq, FrameInv
<1>2. QED
  BY <1>1, IInvHolds, PTL

\* No edge of an installed driver's line is lost.
THEOREM NoLostInterruptHolds == Spec => []NoLostInterrupt
<1>1. IInv => NoLostInterrupt
  BY DEF IInv
<1>2. QED
  BY <1>1, IInvHolds, PTL

\* The timer's handler, which would store through the null apic pointer,
\* never runs in the build without an APIC.
THEOREM NoNullEoiHolds == Spec => []NoNullEoi
<1>1. IInv => NoNullEoi
  BY DEF IInv
<1>2. QED
  BY <1>1, IInvHolds, PTL

=============================================================================
