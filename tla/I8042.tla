------------------------------- MODULE I8042 -------------------------------
(***************************************************************************)
(* The keyboard driver: i8042_init and the interrupt handler i8042_irq of  *)
(* drv/i8042.c, keyboard_handle of keyboard.c, and around them the         *)
(* controller and the keyboard, as the driver's port accesses see them.    *)
(*                                                                         *)
(* i8042_init runs with interrupts on and its line open, so the handler    *)
(* comes between any two of its port accesses; the controller and the      *)
(* keyboard act between any two port accesses of either.                   *)
(***************************************************************************)
EXTENDS Naturals, Sequences

CONSTANTS
  Polls,    \* status reads of wait_tx and wait_rx before they give up (0x2000)
  Flush,    \* data reads that empty the controller (256)
  Configs,  \* configuration bytes the firmware may have left
  Keys,     \* modifier keys the user may press
  MaxKeys   \* bound: key events in one behaviour

ASSUME PollsAssumption == Polls \in Nat \ {0} /\ Flush \in Nat \ {0}
ASSUME ConfigsAssumption == Configs \subseteq 0..255
ASSUME KeysAssumption == Keys \subseteq {42, 54} /\ MaxKeys \in Nat

VARIABLES
  pc,      \* i8042_init: index into Program, 0 after an early return
  cntr,    \* rounds left of the loop main is in
  in,      \* the local variable `in'
  h,       \* i8042_irq: its next port access, "none" when it is not running
  irq,     \* line 1 has a latched request
  obf,     \* output buffer: "empty", or whose byte it holds
  latch,   \* last byte in the output buffer; reading an empty one returns it
  ibf,     \* input buffer: what main wrote and the controller has not taken
  expect,  \* the controller takes the next data byte as its configuration
  config,  \* the configuration byte
  wire,    \* bytes in the keyboard, not yet in the controller
  kind,    \* what kind of controller this is
  down,    \* modifiers keyboard.c believes held
  echo,    \* what keyboard.c printed: scan code and key map
  held,    \* modifiers the user holds
  text,    \* what the user typed, as echo should show it
  keys,    \* key events so far
  lost,    \* the bytes of the keyboard's that i8042_init took
  torn     \* the handler completed a two-byte code from an empty buffer

mainVars == <<pc, cntr, in>>
ctrlVars == <<obf, latch, ibf, expect, config>>
keybVars == <<down, echo>>
userVars == <<held, text, keys>>
vars     == <<mainVars, h, irq, ctrlVars, wire, kind, keybVars, userVars, lost, torn>>

KEYBOARD_TBF   == 224
KEYUP          == 128
DISABLE_A      == 173
DISABLE_B      == 167
ENABLE_A       == 174
ENABLE_B       == 168
READ           == 32
WRITE          == 96
TEST           == 170
RSP_TEST_OKAY  == 85

\* Mutant of Program: DISABLE_B is sent without waiting for DISABLE_A.
ProgramNoWait == <<
  <<"set_handler", 0>>, <<"enable_line", 0>>,
  <<"command", DISABLE_A>>, <<"command", DISABLE_B>>, <<"wait_tx", 0>>,
  <<"flush", 0>>,
  <<"command", READ>>, <<"wait_rx", 0>>, <<"in_config", 0>>, <<"wait_tx", 0>>,
  <<"command", WRITE>>, <<"wait_tx", 0>>, <<"out_config", 0>>, <<"wait_tx", 0>>,
  <<"command", TEST>>, <<"wait_rx", 0>>, <<"in_test", 0>>, <<"wait_tx", 0>>,
  <<"command", ENABLE_A>>, <<"command", ENABLE_B>> >>

\* Mutant of Program: the port is enabled before the self test.
ProgramEnableFirst == <<
  <<"set_handler", 0>>, <<"enable_line", 0>>,
  <<"command", DISABLE_A>>, <<"wait_tx", 0>>,
  <<"command", DISABLE_B>>, <<"wait_tx", 0>>,
  <<"flush", 0>>,
  <<"command", READ>>, <<"wait_rx", 0>>, <<"in_config", 0>>, <<"wait_tx", 0>>,
  <<"command", WRITE>>, <<"wait_tx", 0>>, <<"out_config", 0>>, <<"wait_tx", 0>>,
  <<"command", ENABLE_A>>, <<"wait_tx", 0>>,
  <<"command", TEST>>, <<"wait_rx", 0>>, <<"in_test", 0>>, <<"wait_tx", 0>>,
  <<"command", ENABLE_B>> >>

\* i8042_init, one entry for each of its loops and port accesses.
Program == <<
  <<"set_handler", 0>>, <<"enable_line", 0>>,
  <<"command", DISABLE_A>>, <<"wait_tx", 0>>,
  <<"command", DISABLE_B>>, <<"wait_tx", 0>>,
  <<"flush", 0>>,
  <<"command", READ>>, <<"wait_rx", 0>>, <<"in_config", 0>>, <<"wait_tx", 0>>,
  <<"command", WRITE>>, <<"wait_tx", 0>>, <<"out_config", 0>>, <<"wait_tx", 0>>,
  <<"command", TEST>>, <<"wait_rx", 0>>, <<"in_test", 0>>, <<"wait_tx", 0>>,
  <<"command", ENABLE_A>>, <<"command", ENABLE_B>> >>

Failed == 0
Done   == Len(Program) + 1

\* Bits of the configuration byte: interrupt enable and clock disable of A.
Bit(b, n)      == (b \div 2^n) % 2 = 1
SetBit(b, n)   == IF Bit(b, n) THEN b ELSE b + 2^n
ClearBit(b, n) == IF Bit(b, n) THEN b - 2^n ELSE b

\* keyboard.c's tables are for the codes the controller's translation gives
\* (i8042_CMD0_A_TRANSL): the firmware has left it on.
ASSUME TranslationAssumption == \A c \in Configs : Bit(c, 6)

IrqEnabled     == Bit(config, 0)
PortOpen       == ~Bit(config, 4)

NoInput == <<"none", 0>>

-----------------------------------------------------------------------------
(* The ports.                                                              *)

\* The keyboard's next byte enters the output buffer and raises the line.
LoadNext ==
  /\ obf' = "key" /\ latch' = Head(wire) /\ wire' = Tail(wire)
  /\ irq' = (irq \/ IrqEnabled)

\* inb(i8042_DATA): on a prompt controller the next byte is there at once.
InData ==
  IF kind.prompt /\ wire # << >> /\ PortOpen
    THEN LoadNext
    ELSE obf' = "empty" /\ UNCHANGED <<latch, wire, irq>>

\* main's reads take what there is, also a byte of the keyboard's.
Swallow == lost' = IF obf = "key" THEN Append(lost, latch) ELSE lost

\* outb replaces an input the controller has not taken yet.
Out(what, byte) == ibf' = <<what, byte>>

-----------------------------------------------------------------------------
(* i8042_init.                                                             *)

At(op) == h = "none" /\ pc \in 1..Len(Program) /\ Program[pc][1] = op

\* Enter the next entry with a full loop counter.
Advance ==
  /\ pc' = pc + 1
  /\ cntr' = IF pc + 1 \in 1..Len(Program) /\ Program[pc + 1][1] = "flush" THEN Flush ELSE Polls

\* An early return: port A stays disabled, the line stays open.
Exit == pc' = Failed /\ UNCHANGED cntr

Install ==
  /\ At("set_handler") \/ At("enable_line")
  /\ Advance
  /\ UNCHANGED <<in, h, irq, ctrlVars, wire, kind, keybVars, userVars, lost, torn>>

Command ==
  /\ At("command")
  /\ Out("command", Program[pc][2])
  /\ Advance
  /\ UNCHANGED <<in, h, irq, obf, latch, expect, config, wire, kind, keybVars, userVars, lost, torn>>

\* Mutant of WaitTx: the counter is not decremented.
WaitTxForever ==
  /\ At("wait_tx")
  /\ IF ibf = NoInput THEN Advance ELSE UNCHANGED <<pc, cntr>>
  /\ UNCHANGED <<in, h, irq, ctrlVars, wire, kind, keybVars, userVars, lost, torn>>

\* Mutant of WaitTx: the counter is tested after it is decremented.
WaitTxOneMore ==
  /\ At("wait_tx")
  /\ IF ibf = NoInput THEN Advance
     ELSE IF cntr = 0 THEN Exit ELSE cntr' = cntr - 1 /\ UNCHANGED pc
  /\ UNCHANGED <<in, h, irq, ctrlVars, wire, kind, keybVars, userVars, lost, torn>>

WaitTx ==
  /\ At("wait_tx")
  /\ IF ibf = NoInput THEN Advance
     ELSE IF cntr = 1 THEN Exit ELSE cntr' = cntr - 1 /\ UNCHANGED pc
  /\ UNCHANGED <<in, h, irq, ctrlVars, wire, kind, keybVars, userVars, lost, torn>>

WaitRx ==
  /\ At("wait_rx")
  /\ IF obf # "empty" THEN Advance
     ELSE IF cntr = 1 THEN Exit ELSE cntr' = cntr - 1 /\ UNCHANGED pc
  /\ UNCHANGED <<in, h, irq, ctrlVars, wire, kind, keybVars, userVars, lost, torn>>

\* Mutant of FlushData: the loop is left out.
FlushNothing ==
  /\ At("flush") /\ Advance
  /\ UNCHANGED <<in, h, irq, ctrlVars, wire, kind, keybVars, userVars, lost, torn>>

FlushData ==
  /\ At("flush")
  /\ InData
  /\ Swallow
  /\ IF cntr = 1 THEN Advance ELSE cntr' = cntr - 1 /\ UNCHANGED pc
  /\ UNCHANGED <<in, h, ibf, expect, config, kind, keybVars, userVars, torn>>

\* in = inb(i8042_DATA), the configuration or the result of the self test.
InConfig ==
  /\ At("in_config")
  /\ InData /\ in' = latch
  /\ Swallow
  /\ Advance
  /\ UNCHANGED <<h, ibf, expect, config, kind, keybVars, userVars, torn>>

InTest ==
  /\ At("in_test")
  /\ InData /\ in' = latch
  /\ Swallow
  /\ IF latch = RSP_TEST_OKAY THEN Advance ELSE Exit
  /\ UNCHANGED <<h, ibf, expect, config, kind, keybVars, userVars, torn>>

OutConfig ==
  /\ At("out_config")
  /\ Out("data", in)
  /\ Advance
  /\ UNCHANGED <<in, h, irq, obf, latch, expect, config, wire, kind, keybVars, userVars, lost, torn>>

Main ==
  \/ Install \/ Command \/ WaitTx \/ WaitRx \/ FlushData
  \/ InConfig \/ InTest \/ OutConfig

-----------------------------------------------------------------------------
(* i8042_irq and keyboard_handle.                                          *)

\* The modifier keys of keyboard.c: both shifts, and caps lock, which it
\* treats as held, not toggled.
Modifiers == {42, 54, 58}

\* The scan codes for which keymap and keymap_up, of 60 entries each, have a
\* character.
Printable == (0..59) \ ({0, 29, 55, 56, 59} \cup Modifiers)

KeyMap(mods) == IF mods # {} THEN "keymap_up" ELSE "keymap"

\* Mutant of KeyboardHandle: the release of a key is not looked at.
KeyboardHandleNoUp(code) ==
  /\ down' = down \cup ({code} \cap Modifiers)
  /\ echo' = IF code \in Printable THEN Append(echo, <<code, KeyMap(down)>>) ELSE echo

\* keyboard_handle of a one-byte code; a two-byte code changes nothing.
KeyboardHandle(code) ==
  /\ down' = IF code < KEYUP THEN down \cup ({code} \cap Modifiers)
                             ELSE down \ {code - KEYUP}
  /\ echo' = IF code \in Printable THEN Append(echo, <<code, KeyMap(down)>>) ELSE echo

\* The interrupt is taken between two instructions of the main thread.
Interrupt ==
  /\ irq /\ h = "none" /\ (pc > 2 \/ pc = Failed)
  /\ irq' = FALSE /\ h' = "status"
  /\ UNCHANGED <<mainVars, ctrlVars, wire, kind, keybVars, userVars, lost, torn>>

\* Mutant of IrqStatus: the other buffer's flag is tested.
IrqStatusInbuf ==
  /\ h = "status"
  /\ h' = IF ibf # NoInput THEN "data" ELSE "none"
  /\ UNCHANGED <<mainVars, irq, ctrlVars, wire, kind, keybVars, userVars, lost, torn>>

IrqStatus ==
  /\ h = "status"
  /\ h' = IF obf # "empty" THEN "data" ELSE "none"
  /\ UNCHANGED <<mainVars, irq, ctrlVars, wire, kind, keybVars, userVars, lost, torn>>

\* Mutant of IrqData: the prefix is handled as a code of its own.
IrqDataNoPrefix ==
  /\ h = "data"
  /\ InData
  /\ KeyboardHandle(latch) /\ h' = "none"
  /\ UNCHANGED <<mainVars, ibf, expect, config, kind, userVars, lost, torn>>

IrqData ==
  /\ h = "data"
  /\ InData
  /\ IF latch = KEYBOARD_TBF THEN h' = "second" /\ UNCHANGED keybVars
                             ELSE h' = "none" /\ KeyboardHandle(latch)
  /\ UNCHANGED <<mainVars, ibf, expect, config, kind, userVars, lost, torn>>

\* The second byte of a two-byte code, read without looking at the status.
IrqSecond ==
  /\ h = "second" /\ h' = "none"
  /\ InData
  /\ torn' = (torn \/ obf = "empty")
  /\ UNCHANGED <<mainVars, ibf, expect, config, kind, keybVars, userVars, lost>>

Handler == IrqStatus \/ IrqData \/ IrqSecond

-----------------------------------------------------------------------------
(* The controller and the keyboard.                                        *)

\* The controller answers once its output buffer is free.  Whether an answer
\* raises the keyboard's line depends on the controller.
Answer(byte) ==
  /\ obf = "empty"
  /\ obf' = "answer" /\ latch' = byte
  /\ irq' = (irq \/ (kind.irqOnAnswer /\ IrqEnabled))

TakeCommand ==
  /\ ibf[1] = "command" /\ ibf' = NoInput
  /\ LET c == ibf[2]
     IN /\ config' = CASE c = DISABLE_A -> SetBit(config, 4)
                       [] c = ENABLE_A  -> ClearBit(config, 4)
                       [] c = DISABLE_B -> SetBit(config, 5)
                       [] c = ENABLE_B  -> ClearBit(config, 5)
                       [] OTHER         -> config
        /\ expect' = (c = WRITE)
        /\ \/ c = READ /\ Answer(config)
           \/ c = TEST /\ \E rsp \in {RSP_TEST_OKAY, 252} : Answer(rsp)
           \/ c \notin {READ, TEST} /\ UNCHANGED <<obf, latch, irq>>
  /\ UNCHANGED <<mainVars, h, wire, kind, keybVars, userVars, lost, torn>>

TakeData ==
  /\ ibf[1] = "data" /\ ibf' = NoInput
  /\ config' = IF expect THEN ibf[2] ELSE config
  /\ expect' = FALSE
  /\ UNCHANGED <<mainVars, h, irq, obf, latch, wire, kind, keybVars, userVars, lost, torn>>

Controller == TakeCommand \/ TakeData

\* The keyboard sends while its clock runs and the buffer is free.
Send ==
  /\ obf = "empty" /\ PortOpen /\ wire # << >>
  /\ LoadNext
  /\ UNCHANGED <<mainVars, h, ibf, expect, config, kind, keybVars, userVars, lost, torn>>

Letter == 30

\* The user: modifiers, a letter, and a key whose two-byte codes wrap a false
\* shift (print screen), down and up.
Press(k) ==
  /\ k \in Keys \ held
  /\ held' = held \cup {k} /\ wire' = Append(wire, k) /\ UNCHANGED text

Release(k) ==
  /\ k \in held
  /\ held' = held \ {k} /\ wire' = Append(wire, k + KEYUP) /\ UNCHANGED text

Type ==
  /\ wire' = Append(wire, Letter)
  /\ text' = Append(text, <<Letter, KeyMap(held)>>) /\ UNCHANGED held

Extended ==
  /\ \E code \in {42, 42 + KEYUP} : wire' = wire \o <<KEYBOARD_TBF, code>>
  /\ UNCHANGED <<held, text>>

User ==
  /\ keys < MaxKeys /\ keys' = keys + 1
  /\ Type \/ Extended \/ \E k \in Keys : Press(k) \/ Release(k)
  /\ UNCHANGED <<mainVars, h, irq, ctrlVars, kind, keybVars, lost, torn>>

\* A byte may lie in the controller since before the boot; the request it
\* latched is gone, because pic_init reset the interrupt controllers.
Init ==
  /\ pc = 1 /\ cntr = Polls /\ in = 0
  /\ h = "none" /\ irq = FALSE
  /\ obf \in {"empty", "key"} /\ latch = Letter
  /\ ibf = NoInput /\ expect = FALSE /\ config \in Configs
  /\ wire = << >> /\ kind \in [prompt : BOOLEAN, irqOnAnswer : BOOLEAN]
  /\ down = {} /\ echo = << >> /\ held = {} /\ text = << >> /\ keys = 0
  /\ lost = << >> /\ torn = FALSE

\* After i8042_init the main thread spins with interrupts on.
Idle == h = "none" /\ pc \in {Failed, Done} /\ UNCHANGED vars

Next == Main \/ Idle \/ Interrupt \/ Handler \/ Controller \/ Send \/ User

\* The processor executes the main thread and the handler and takes pending
\* interrupts.  The user owes nothing, and a controller may be deaf.
Fairness == WF_vars(Main) /\ WF_vars(Handler) /\ WF_vars(Interrupt)

\* A working controller takes its input and passes the keyboard's bytes on.
WorkingController == WF_vars(Controller) /\ WF_vars(Send)

Spec == Init /\ [][Next]_vars /\ Fairness

-----------------------------------------------------------------------------
(* Properties.                                                             *)

MainTypeOK ==
  /\ pc \in 0..Done /\ cntr \in 1..(Polls + Flush) /\ in \in 0..255
  /\ h \in {"none", "status", "data", "second"} /\ irq \in BOOLEAN
  /\ lost \in Seq(0..255) /\ torn \in BOOLEAN

CtrlTypeOK ==
  /\ obf \in {"empty", "key", "answer"} /\ latch \in 0..255
  /\ ibf \in {"none", "command", "data"} \X (0..255) /\ expect \in BOOLEAN /\ config \in 0..255
  /\ wire \in Seq(0..255) /\ kind \in [prompt : BOOLEAN, irqOnAnswer : BOOLEAN]

KeybTypeOK ==
  /\ down \subseteq Modifiers /\ held \subseteq Keys /\ keys \in 0..MaxKeys
  /\ echo \in Seq(Printable \X {"keymap", "keymap_up"})
  /\ text \in Seq(Printable \X {"keymap", "keymap_up"})

TypeOK == MainTypeOK /\ CtrlTypeOK /\ KeybTypeOK

\* i8042_init writes back the configuration byte it read: although the
\* interrupt handler may take the controller's answer from under it, what it
\* writes is always the configuration the controller has.
ConfigKept == ibf[1] = "data" => expect /\ ibf[2] = config

Quiet == wire = << >> /\ obf = "empty" /\ h = "none"

\* When every byte has been handled, the shift state equals the user's and
\* the echoed text is the typed one, in order and in case, unless the init
\* code swallowed a byte or a two-byte code was completed too early: nothing
\* else, in particular no stolen answer, disturbs the keyboard's state.
TypingFaithful == Quiet /\ lost = << >> /\ ~torn => down = held /\ echo = text

\* i8042_init reads the data port without looking whose byte it gets, hundreds
\* of times, but it has closed the port before: all it can take from the
\* keyboard, interrupts or not, is the one byte that was in the buffer.
OneByteLost == Len(lost) <= 1

\* A shift that is stuck, or missing, can only come from that byte: it was the
\* break, or the make, of this very key.  (Half of a two-byte code is the one
\* exception: what is left of it is read as a key.)
StuckByLossOnly ==
  Quiet /\ ~torn /\ lost # <<KEYBOARD_TBF>> =>
    \A k \in Modifiers :
      /\ k \in down \ held => lost = <<k + KEYUP>>
      /\ k \in held \ down => lost = <<k>>

\* An initialisation that gave up, at whichever step and whatever had been
\* sent by then, leaves the keyboard's port disabled, or about to be.
FailedClosed == pc = Failed => ~PortOpen \/ ibf = <<"command", DISABLE_A>>

\* wait_tx and wait_rx give up: no controller, however slow or deaf, and no
\* stream of interrupts keeps i8042_init from returning.
InitReturns == <>(pc \in {Failed, Done})

\* After a successful initialisation on a working controller every key is
\* eventually taken, if the firmware left the keyboard's interrupt enabled and
\* ENABLE_A took effect.
KeysServed ==
  WorkingController =>
    (pc = Done /\ PortOpen /\ IrqEnabled /\ (wire # << >> \/ obf = "key") ~> Quiet)

\* i8042_STATUS_INBUF: "Must be clear before writing".
WritesWhenClear == [][ibf' # ibf /\ ibf' # NoInput => ibf = NoInput]_vars

\* i8042_STATUS_OUTBUF: "Must be set before reading", for the handler's reads.
ReadsWhenSet == h \in {"data", "second"} => obf # "empty"

=============================================================================
