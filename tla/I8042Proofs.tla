---------------------------- MODULE I8042Proofs ----------------------------
(***************************************************************************)
(* Safety of the keyboard driver for every loop bound, every set of        *)
(* configuration bytes and any number of key events.                       *)
(***************************************************************************)
EXTENDS I8042, Integers, SequenceTheorems, TLAPS

-----------------------------------------------------------------------------
(* The program of i8042_init and the bits of the configuration byte.       *)

LEMMA ProgramSteps ==
  /\ Len(Program) = 21 /\ Done = 22
  /\ Program[1] = <<"set_handler", 0>> /\ Program[2] = <<"enable_line", 0>>
  /\ Program[3] = <<"command", 173>> /\ Program[4] = <<"wait_tx", 0>>
  /\ Program[5] = <<"command", 167>> /\ Program[6] = <<"wait_tx", 0>>
  /\ Program[7] = <<"flush", 0>>
  /\ Program[8] = <<"command", 32>> /\ Program[9] = <<"wait_rx", 0>>
  /\ Program[10] = <<"in_config", 0>> /\ Program[11] = <<"wait_tx", 0>>
  /\ Program[12] = <<"command", 96>> /\ Program[13] = <<"wait_tx", 0>>
  /\ Program[14] = <<"out_config", 0>> /\ Program[15] = <<"wait_tx", 0>>
  /\ Program[16] = <<"command", 170>> /\ Program[17] = <<"wait_rx", 0>>
  /\ Program[18] = <<"in_test", 0>> /\ Program[19] = <<"wait_tx", 0>>
  /\ Program[20] = <<"command", 174>> /\ Program[21] = <<"command", 168>>
BY DEF Program, Done, DISABLE_A, DISABLE_B, READ, WRITE, TEST, ENABLE_A, ENABLE_B

\* Which entries of the program an operation is at.
LEMMA AtSteps ==
  /\ At("set_handler") => pc = 1
  /\ At("enable_line") => pc = 2
  /\ At("command") => pc \in {3, 5, 8, 12, 16, 20, 21}
  /\ At("wait_tx") => pc \in {4, 6, 11, 13, 15, 19}
  /\ At("wait_rx") => pc \in {9, 17}
  /\ At("flush") => pc = 7
  /\ At("in_config") => pc = 10
  /\ At("out_config") => pc = 14
  /\ At("in_test") => pc = 18
<1>1. ASSUME NEW op, At(op) PROVE pc \in 1..21 /\ Program[pc][1] = op
  BY <1>1, ProgramSteps DEF At
<1>2. pc \in 1..21 => \/ pc = 1 \/ pc = 2 \/ pc = 3 \/ pc = 4 \/ pc = 5 \/ pc = 6 \/ pc = 7
                      \/ pc = 8 \/ pc = 9 \/ pc = 10 \/ pc = 11 \/ pc = 12 \/ pc = 13
                      \/ pc = 14 \/ pc = 15 \/ pc = 16 \/ pc = 17 \/ pc = 18 \/ pc = 19
                      \/ pc = 20 \/ pc = 21
  OBVIOUS
<1>3. QED
  BY <1>1, <1>2, ProgramSteps

\* What TakeCommand makes of the configuration byte.
LEMMA ConfigBits ==
  ASSUME NEW b \in 0..255
  PROVE  /\ SetBit(b, 4) \in 0..255 /\ Bit(SetBit(b, 4), 4)
         /\ SetBit(b, 5) \in 0..255 /\ (Bit(b, 4) => Bit(SetBit(b, 5), 4))
         /\ ClearBit(b, 4) \in 0..255 /\ ClearBit(b, 5) \in 0..255
         /\ Bit(b, 6) => /\ Bit(SetBit(b, 4), 6) /\ Bit(SetBit(b, 5), 6)
                         /\ Bit(ClearBit(b, 4), 6) /\ Bit(ClearBit(b, 5), 6)
<1>1. 2^4 = 16 /\ 2^5 = 32 /\ 2^6 = 64
  OBVIOUS
<1>2. SetBit(b, 4) \in 0..255 /\ Bit(SetBit(b, 4), 4) /\ (Bit(b, 6) => Bit(SetBit(b, 4), 6))
  BY <1>1 DEF Bit, SetBit
<1>3. /\ SetBit(b, 5) \in 0..255 /\ (Bit(b, 4) => Bit(SetBit(b, 5), 4))
      /\ Bit(b, 6) => Bit(SetBit(b, 5), 6)
  BY <1>1 DEF Bit, SetBit
<1>4. /\ ClearBit(b, 4) \in 0..255 /\ ClearBit(b, 5) \in 0..255
      /\ Bit(b, 6) => Bit(ClearBit(b, 4), 6) /\ Bit(ClearBit(b, 5), 6)
  BY <1>1 DEF Bit, ClearBit
<1>5. QED
  BY <1>2, <1>3, <1>4

-----------------------------------------------------------------------------
(* The invariant behind ConfigKept.                                        *)

Sent(c) == ibf = <<"command", c>>
Closed == Bit(config, 4)

\* Where i8042_init stands, what it has sent and the controller has taken,
\* and how the answer gets from the latch to `in' and back.
MainInv ==
  /\ pc \in {1, 2, 3, 5, 7, 8, 10, 11, 12, 14, 16, 18, 19, 20} => ibf = NoInput
  /\ pc = 4 => Sent(DISABLE_A) \/ (ibf = NoInput /\ Closed)
  /\ pc \in 5..20 => Closed
  /\ pc = 6 => ibf = NoInput \/ Sent(DISABLE_B)
  /\ pc = 9 => Sent(READ) \/ (ibf = NoInput /\ latch = config)
  /\ pc = 10 => latch = config
  /\ pc \in 11..15 => in = config
  /\ pc = 13 => Sent(WRITE) \/ (ibf = NoInput /\ expect)
  /\ pc = 14 => expect
  /\ pc = 15 => ibf = NoInput \/ (ibf = <<"data", config>> /\ expect)
  /\ pc = 17 => ibf = NoInput \/ Sent(TEST)
  /\ pc \in {21, 22} => ibf = NoInput \/ Sent(ENABLE_A) \/ Sent(ENABLE_B)
  /\ pc = 0 => \/ ibf = NoInput \/ (ibf = <<"data", config>> /\ expect)
               \/ Sent(DISABLE_A) \/ Sent(DISABLE_B) \/ Sent(READ) \/ Sent(WRITE) \/ Sent(TEST)
  /\ pc = 0 => Closed \/ Sent(DISABLE_A)

\* While the controller owes an answer, or has given one that nobody took, the
\* port is closed and no two-byte code is half read.
BufferInv ==
  /\ Sent(READ) \/ Sent(TEST) => obf = "empty"
  /\ Sent(READ) \/ Sent(TEST) \/ obf = "answer" => Closed /\ h # "second"
  /\ pc \in {8, 11, 12, 13, 14, 15, 16, 19, 20} => obf = "empty"
  /\ obf = "answer" => pc \in {0, 9, 10, 17, 18}
  /\ h = "data" => obf # "empty"

IInv == TypeOK /\ MainInv /\ BufferInv

\* The invariant implies the property.
LEMMA IInvConfigKept == IInv => ConfigKept
<1> SUFFICES ASSUME IInv, ibf[1] = "data" PROVE expect /\ ibf[2] = config
  BY DEF ConfigKept
<1>1. ibf # NoInput /\ \A c : ~Sent(c)
  BY DEF NoInput, Sent
<1>2. pc \in 0..22
  BY ProgramSteps DEF IInv, TypeOK, MainTypeOK
<1>3. ibf = <<"data", config>> /\ expect
  BY <1>1, <1>2 DEF IInv, MainInv
<1>4. QED
  BY <1>3

-----------------------------------------------------------------------------
(* It holds initially, and i8042_init preserves it.                        *)

LEMMA InitIInv == Init => IInv
<1> SUFFICES ASSUME Init PROVE IInv
  OBVIOUS
<1> USE PollsAssumption, ConfigsAssumption, KeysAssumption
<1>1. MainTypeOK
  <2>1. Polls \in 1..(Polls + Flush)
    OBVIOUS
  <2>2. irq \in BOOLEAN /\ torn \in BOOLEAN
    BY Zenon DEF Init
  <2>3. pc \in 0..22 /\ in \in 0..255 /\ lost \in Seq(0..255)
    BY EmptySeq DEF Init
  <2>4. QED
    BY <2>1, <2>2, <2>3, ProgramSteps, Zenon DEF Init, MainTypeOK
<1>2. CtrlTypeOK
  <2>1. << >> \in Seq(0..255)
    BY EmptySeq
  <2>2. ibf \in {"none", "command", "data"} \X (0..255)
    BY DEF Init, NoInput
  <2>3. expect \in BOOLEAN /\ kind \in [prompt : BOOLEAN, irqOnAnswer : BOOLEAN]
    BY Zenon DEF Init
  <2>4. QED
    BY <2>1, <2>2, <2>3 DEF Init, CtrlTypeOK, Letter
<1>3. KeybTypeOK
  BY EmptySeq DEF Init, KeybTypeOK
<1>4. MainInv /\ BufferInv
  BY DEF Init, MainInv, BufferInv, Sent, NoInput
<1>5. QED
  BY <1>1, <1>2, <1>3, <1>4 DEF IInv, TypeOK

\* The next entry.
LEMMA AdvanceStep ==
  ASSUME MainTypeOK, Advance
  PROVE  pc' = pc + 1 /\ cntr' \in 1..(Polls + Flush)
BY PollsAssumption DEF Advance

\* Reading the data port.
LEMMA InDataStep ==
  ASSUME CtrlTypeOK, irq \in BOOLEAN, InData
  PROVE  /\ obf' \in {"empty", "key"} /\ latch' \in 0..255 /\ wire' \in Seq(0..255)
         /\ irq' \in BOOLEAN
         /\ Closed => obf' = "empty" /\ UNCHANGED <<latch, wire, irq>>
<1>1. CASE kind.prompt /\ wire # << >> /\ PortOpen
  <2>1. LoadNext /\ ~Closed
    BY <1>1 DEF InData, PortOpen, Closed
  <2>2. wire \in Seq(0..255) /\ wire # << >>
    BY <1>1 DEF CtrlTypeOK
  <2>3. Head(wire) \in 0..255 /\ Tail(wire) \in Seq(0..255)
    BY <2>2, HeadTailProperties
  <2>4. irq' \in BOOLEAN
    BY <2>1, Zenon DEF LoadNext
  <2>5. QED
    BY <2>1, <2>3, <2>4 DEF LoadNext
<1>2. CASE ~(kind.prompt /\ wire # << >> /\ PortOpen)
  BY <1>2 DEF InData, CtrlTypeOK
<1>3. QED
  BY <1>1, <1>2

\* The handler's registration and the two loops that wait.
LEMMA WaitStep == IInv /\ (Install \/ WaitTx \/ WaitRx) => IInv'
<1> SUFFICES ASSUME IInv, Install \/ WaitTx \/ WaitRx PROVE IInv'
  OBVIOUS
<1> USE DEF ctrlVars, keybVars, userVars
<1>1. /\ UNCHANGED <<in, h, irq, obf, latch, ibf, expect, config, wire, kind, down, echo, held,
                     text, keys, lost, torn>>
      /\ h = "none"
  BY DEF Install, WaitTx, WaitRx, At
<1>2. \/ /\ pc' = pc + 1 /\ cntr' \in 1..(Polls + Flush)
         /\ \/ pc \in {1, 2}
            \/ pc \in {4, 6, 11, 13, 15, 19} /\ ibf = NoInput
            \/ pc \in {9, 17} /\ obf # "empty"
      \/ pc' = pc /\ cntr' = cntr - 1 /\ cntr # 1
      \/ pc' = 0 /\ pc \in {4, 6, 9, 11, 13, 15, 17, 19} /\ cntr' = cntr
  <2>1. MainTypeOK
    BY DEF IInv, TypeOK
  <2>2. CASE Install
    BY <2>1, <2>2, AtSteps, AdvanceStep DEF Install
  <2>3. CASE WaitTx
    BY <2>1, <2>3, AtSteps, AdvanceStep DEF WaitTx, Exit, Failed
  <2>4. CASE WaitRx
    BY <2>1, <2>4, AtSteps, AdvanceStep DEF WaitRx, Exit, Failed
  <2>5. QED
    BY <2>2, <2>3, <2>4
<1>3. MainTypeOK'
  <2>1. pc \in 0..22 /\ cntr \in 1..(Polls + Flush)
    BY ProgramSteps DEF IInv, TypeOK, MainTypeOK
  <2>2. pc' \in 0..22 /\ cntr' \in 1..(Polls + Flush)
    BY <1>2, <2>1, PollsAssumption
  <2>3. QED
    BY <1>1, <2>2, ProgramSteps, Zenon DEF IInv, TypeOK, MainTypeOK
<1>4. CtrlTypeOK' /\ KeybTypeOK'
  BY <1>1, Zenon DEF IInv, TypeOK, CtrlTypeOK, KeybTypeOK
<1>5. (Sent(READ) \/ Sent(TEST) => obf = "empty") /\ pc \in 0..22
  BY ProgramSteps DEF IInv, BufferInv, TypeOK, MainTypeOK
<1>6. MainInv'
  BY <1>1, <1>2, <1>5 DEF IInv, MainInv, Sent, Closed, NoInput
<1>7. BufferInv'
  BY <1>1, <1>2, <1>5 DEF IInv, BufferInv, MainInv, Sent, Closed
<1>8. QED
  BY <1>3, <1>4, <1>6, <1>7 DEF IInv, TypeOK

\* What it writes to the ports.
LEMMA WriteStep == IInv /\ (Command \/ OutConfig) => IInv'
<1> SUFFICES ASSUME IInv, Command \/ OutConfig PROVE IInv'
  OBVIOUS
<1> USE DEF ctrlVars, keybVars, userVars
<1>1. /\ UNCHANGED <<in, h, irq, obf, latch, expect, config, wire, kind, down, echo, held,
                     text, keys, lost, torn>>
      /\ h = "none" /\ Advance
  BY DEF Command, OutConfig, At
<1>2. pc' = pc + 1 /\ cntr' \in 1..(Polls + Flush)
  BY <1>1, AdvanceStep DEF IInv, TypeOK
<1>3. \/ pc \in {3, 5, 8, 12, 16, 20, 21} /\ ibf' = <<"command", Program[pc][2]>>
      \/ pc = 14 /\ ibf' = <<"data", in>>
  BY AtSteps DEF Command, OutConfig, Out
<1>4. \/ pc = 3 /\ ibf' = <<"command", DISABLE_A>>
      \/ pc = 5 /\ ibf' = <<"command", DISABLE_B>>
      \/ pc = 8 /\ ibf' = <<"command", READ>>
      \/ pc = 12 /\ ibf' = <<"command", WRITE>>
      \/ pc = 14 /\ ibf' = <<"data", in>>
      \/ pc = 16 /\ ibf' = <<"command", TEST>>
      \/ pc = 20 /\ ibf' = <<"command", ENABLE_A>>
      \/ pc = 21 /\ ibf' = <<"command", ENABLE_B>>
  BY <1>3, ProgramSteps DEF DISABLE_A, DISABLE_B, READ, WRITE, TEST, ENABLE_A, ENABLE_B
<1>5. MainTypeOK'
  BY <1>1, <1>2, <1>4, ProgramSteps DEF IInv, TypeOK, MainTypeOK
<1>6. CtrlTypeOK'
  <2>1. in \in 0..255
    BY DEF IInv, TypeOK, MainTypeOK
  <2>2. ibf' \in {"none", "command", "data"} \X (0..255)
    BY <1>4, <2>1 DEF DISABLE_A, DISABLE_B, READ, WRITE, TEST, ENABLE_A, ENABLE_B
  <2>3. QED
    BY <1>1, <2>2, Zenon DEF IInv, TypeOK, CtrlTypeOK
<1>7. KeybTypeOK'
  BY <1>1, Zenon DEF IInv, TypeOK, KeybTypeOK
<1>8. MainInv'
  BY <1>1, <1>2, <1>4 DEF IInv, MainInv, Sent, Closed, NoInput
<1>9. BufferInv'
  BY <1>1, <1>2, <1>4 DEF IInv, BufferInv, MainInv, Sent, Closed,
     DISABLE_A, DISABLE_B, READ, WRITE, TEST, ENABLE_A, ENABLE_B
<1>10. QED
  BY <1>5, <1>6, <1>7, <1>8, <1>9 DEF IInv, TypeOK

\* What it reads from the data port.
LEMMA ReadStep == IInv /\ (FlushData \/ InConfig \/ InTest) => IInv'
<1> SUFFICES ASSUME IInv, FlushData \/ InConfig \/ InTest PROVE IInv'
  OBVIOUS
<1> USE DEF keybVars, userVars
<1>1. /\ UNCHANGED <<h, ibf, expect, config, kind, down, echo, held, text, keys, torn>>
      /\ h = "none" /\ InData /\ Swallow
  BY DEF FlushData, InConfig, InTest, At
<1>2. \/ /\ pc' = pc + 1 /\ cntr' \in 1..(Polls + Flush)
         /\ \/ pc = 7 /\ in' = in
            \/ pc \in {10, 18} /\ in' = latch
      \/ pc = 7 /\ pc' = pc /\ cntr' = cntr - 1 /\ cntr # 1 /\ in' = in
      \/ pc = 18 /\ pc' = 0 /\ cntr' = cntr /\ in' = latch
  <2>1. MainTypeOK
    BY DEF IInv, TypeOK
  <2>2. CASE FlushData
    BY <2>1, <2>2, AtSteps, AdvanceStep DEF FlushData
  <2>3. CASE InConfig
    BY <2>1, <2>3, AtSteps, AdvanceStep DEF InConfig
  <2>4. CASE InTest
    BY <2>1, <2>4, AtSteps, AdvanceStep DEF InTest, Exit, Failed
  <2>5. QED
    BY <2>2, <2>3, <2>4
<1>3. Closed /\ ibf = NoInput
  BY <1>2 DEF IInv, MainInv
<1>4. obf' = "empty" /\ UNCHANGED <<latch, wire, irq>>
  BY <1>1, <1>3, InDataStep DEF IInv, TypeOK, MainTypeOK
<1>5. MainTypeOK'
  <2>1. lost' \in Seq(0..255)
    BY <1>1, AppendProperties DEF Swallow, IInv, TypeOK, MainTypeOK, CtrlTypeOK
  <2>2. cntr \in 1..(Polls + Flush) /\ latch \in 0..255 /\ in \in 0..255
    BY DEF IInv, TypeOK, MainTypeOK, CtrlTypeOK
  <2>3. pc' \in 0..22 /\ in' \in 0..255
    BY <1>2, <2>2
  <2>4. cntr' \in 1..(Polls + Flush)
    BY <1>2, <2>2, PollsAssumption
  <2>5. QED
    BY <1>1, <1>4, <2>1, <2>3, <2>4, ProgramSteps, Zenon DEF IInv, TypeOK, MainTypeOK
<1>6. CtrlTypeOK' /\ KeybTypeOK'
  BY <1>1, <1>4, Zenon DEF IInv, TypeOK, CtrlTypeOK, KeybTypeOK
<1>7. MainInv'
  BY <1>1, <1>2, <1>3, <1>4 DEF IInv, MainInv, Sent, Closed, NoInput
<1>8. BufferInv'
  BY <1>1, <1>2, <1>3, <1>4 DEF IInv, BufferInv, Sent, Closed, NoInput
<1>9. QED
  BY <1>5, <1>6, <1>7, <1>8 DEF IInv, TypeOK

-----------------------------------------------------------------------------
(* The handler, the controller and the user preserve it.                   *)

\* keyboard_handle keeps the types of what it changes.
LEMMA KeyboardHandleStep ==
  ASSUME KeybTypeOK, NEW code \in 0..255, KeyboardHandle(code)
  PROVE  /\ down' \subseteq Modifiers
         /\ echo' \in Seq(Printable \X {"keymap", "keymap_up"})
<1>1. down' \subseteq Modifiers
  BY DEF KeybTypeOK, KeyboardHandle
<1>2. echo' \in Seq(Printable \X {"keymap", "keymap_up"})
  <2>1. echo \in Seq(Printable \X {"keymap", "keymap_up"})
    BY DEF KeybTypeOK
  <2>2. CASE code \in Printable
    <3>1. <<code, KeyMap(down)>> \in Printable \X {"keymap", "keymap_up"}
      BY <2>2 DEF KeyMap
    <3>2. echo' = Append(echo, <<code, KeyMap(down)>>)
      BY <2>2 DEF KeyboardHandle
    <3>3. QED
      BY <2>1, <3>1, <3>2, AppendProperties
  <2>3. CASE code \notin Printable
    BY <2>1, <2>3 DEF KeyboardHandle
  <2>4. QED
    BY <2>2, <2>3
<1>3. QED
  BY <1>1, <1>2

\* The entry of the handler and its status read.
LEMMA EntryStep == IInv /\ (Interrupt \/ IrqStatus) => IInv'
<1> SUFFICES ASSUME IInv, Interrupt \/ IrqStatus PROVE IInv'
  OBVIOUS
<1> USE DEF mainVars, ctrlVars, keybVars, userVars
<1>1. UNCHANGED <<pc, cntr, in, obf, latch, ibf, expect, config, wire, kind, down, echo, held,
                  text, keys, lost, torn>>
  BY DEF Interrupt, IrqStatus
<1>2. h' \in {"none", "status", "data"} /\ (h' = "data" => obf # "empty")
  BY DEF Interrupt, IrqStatus
<1>3. irq' \in BOOLEAN
  BY Zenon DEF Interrupt, IrqStatus, IInv, TypeOK, MainTypeOK
<1>4. MainTypeOK'
  BY <1>1, <1>2, <1>3 DEF IInv, TypeOK, MainTypeOK
<1>5. CtrlTypeOK' /\ KeybTypeOK'
  BY <1>1, Zenon DEF IInv, TypeOK, CtrlTypeOK, KeybTypeOK
<1>6. MainInv'
  BY <1>1 DEF IInv, MainInv, Sent, Closed
<1>7. BufferInv'
  BY <1>1, <1>2 DEF IInv, BufferInv, Sent, Closed
<1>8. QED
  BY <1>4, <1>5, <1>6, <1>7 DEF IInv, TypeOK

\* The handler's data reads.  It reads a prefix from a full buffer, and then
\* no command is pending that will be answered.
LEMMA HandlerReadStep == IInv /\ (IrqData \/ IrqSecond) => IInv'
<1> SUFFICES ASSUME IInv, IrqData \/ IrqSecond PROVE IInv'
  OBVIOUS
<1> USE DEF mainVars, keybVars, userVars
<1>1. /\ UNCHANGED <<pc, cntr, in, ibf, expect, config, kind, held, text, keys, lost>>
      /\ InData /\ h \in {"data", "second"}
  BY DEF IrqData, IrqSecond
<1>2. /\ obf' \in {"empty", "key"} /\ latch' \in 0..255 /\ wire' \in Seq(0..255)
      /\ irq' \in BOOLEAN
      /\ Closed => obf' = "empty" /\ UNCHANGED <<latch, wire, irq>>
  BY <1>1, InDataStep DEF IInv, TypeOK, MainTypeOK
<1>3. /\ h' \in {"none", "second"}
      /\ h' = "second" => obf # "empty"
  BY DEF IrqData, IrqSecond, IInv, BufferInv, TypeOK, CtrlTypeOK
<1>4. torn' \in BOOLEAN
  BY Zenon DEF IrqData, IrqSecond, IInv, TypeOK, MainTypeOK
<1>5. MainTypeOK'
  BY <1>1, <1>2, <1>3, <1>4 DEF IInv, TypeOK, MainTypeOK
<1>6. CtrlTypeOK'
  BY <1>1, <1>2, Zenon DEF IInv, TypeOK, CtrlTypeOK
<1>7. KeybTypeOK'
  <2>1. latch \in 0..255 /\ KeybTypeOK
    BY DEF IInv, TypeOK, CtrlTypeOK
  <2>2. \/ UNCHANGED <<down, echo>>
        \/ KeyboardHandle(latch)
    BY DEF IrqData, IrqSecond
  <2>3. /\ down' \subseteq Modifiers
        /\ echo' \in Seq(Printable \X {"keymap", "keymap_up"})
    BY <2>1, <2>2, KeyboardHandleStep DEF KeybTypeOK
  <2>4. QED
    BY <1>1, <2>1, <2>3, Zenon DEF KeybTypeOK
<1>8. MainInv'
  BY <1>1, <1>2 DEF IInv, MainInv, Sent, Closed
<1>9. BufferInv'
  BY <1>1, <1>2, <1>3 DEF IInv, BufferInv, MainInv, Sent, Closed
<1>10. QED
  BY <1>5, <1>6, <1>7, <1>8, <1>9 DEF IInv, TypeOK

\* The controller takes a command.
LEMMA TakeCommandStep == IInv /\ TakeCommand => IInv'
<1> SUFFICES ASSUME IInv, TakeCommand PROVE IInv'
  OBVIOUS
<1> USE DEF mainVars, keybVars, userVars
<1>1. /\ UNCHANGED <<pc, cntr, in, h, wire, kind, down, echo, held, text, keys, lost, torn>>
      /\ ibf[1] = "command" /\ ibf' = NoInput /\ expect' = (ibf[2] = WRITE)
  BY DEF TakeCommand
<1>2. /\ config \in 0..255 /\ ibf \in {"none", "command", "data"} \X (0..255)
      /\ irq \in BOOLEAN /\ latch \in 0..255 /\ obf \in {"empty", "key", "answer"}
      /\ pc \in 0..22
  BY ProgramSteps DEF IInv, TypeOK, MainTypeOK, CtrlTypeOK
<1>3. PICK c \in 0..255 : ibf = <<"command", c>>
  BY <1>1, <1>2
<1>4. /\ config' = CASE c = DISABLE_A -> SetBit(config, 4)
                     [] c = ENABLE_A  -> ClearBit(config, 4)
                     [] c = DISABLE_B -> SetBit(config, 5)
                     [] c = ENABLE_B  -> ClearBit(config, 5)
                     [] OTHER         -> config
      /\ \/ c = READ /\ Answer(config)
         \/ c = TEST /\ \E rsp \in {RSP_TEST_OKAY, 252} : Answer(rsp)
         \/ c \notin {READ, TEST} /\ UNCHANGED <<obf, latch, irq>>
  BY <1>3 DEF TakeCommand
<1>5. /\ c = DISABLE_A => config' \in 0..255 /\ Closed'
      /\ c = DISABLE_B => config' \in 0..255 /\ (Closed => Closed')
      /\ c \in {ENABLE_A, ENABLE_B} => config' \in 0..255
      /\ c \notin {DISABLE_A, DISABLE_B, ENABLE_A, ENABLE_B} => config' = config
  <2>1. /\ c = DISABLE_A => config' = SetBit(config, 4)
        /\ c = DISABLE_B => config' = SetBit(config, 5)
        /\ c = ENABLE_A => config' = ClearBit(config, 4)
        /\ c = ENABLE_B => config' = ClearBit(config, 5)
        /\ c \notin {DISABLE_A, DISABLE_B, ENABLE_A, ENABLE_B} => config' = config
    BY <1>4 DEF DISABLE_A, DISABLE_B, ENABLE_A, ENABLE_B
  <2>2. /\ SetBit(config, 4) \in 0..255 /\ Bit(SetBit(config, 4), 4)
        /\ SetBit(config, 5) \in 0..255 /\ (Bit(config, 4) => Bit(SetBit(config, 5), 4))
        /\ ClearBit(config, 4) \in 0..255 /\ ClearBit(config, 5) \in 0..255
    BY <1>2, ConfigBits, ZenonT(60)
  <2>3. QED
    BY <2>1, <2>2 DEF Closed
<1>6. /\ \A d : Sent(d) <=> c = d
      /\ ibf # NoInput /\ ibf # <<"data", config>>
  BY <1>3 DEF Sent, NoInput
<1>7. /\ c = READ => obf' = "answer" /\ latch' = config
      /\ c = TEST => obf' = "answer" /\ latch' \in {85, 252}
      /\ c \notin {READ, TEST} => UNCHANGED <<obf, latch>>
      /\ irq' \in BOOLEAN
  <2>1. irq' \in BOOLEAN
    BY <1>2, <1>4, Zenon DEF Answer
  <2>2. QED
    BY <1>4, <2>1 DEF Answer, READ, TEST, RSP_TEST_OKAY
<1>8. MainTypeOK' /\ KeybTypeOK'
  BY <1>1, <1>7, Zenon DEF IInv, TypeOK, MainTypeOK, KeybTypeOK
<1>9. CtrlTypeOK'
  <2>1. config' \in 0..255
    BY <1>2, <1>5
  <2>2. latch' \in 0..255 /\ obf' \in {"empty", "key", "answer"}
    BY <1>2, <1>7
  <2>3. ibf' \in {"none", "command", "data"} \X (0..255)
    BY <1>1 DEF NoInput
  <2>4. expect' \in BOOLEAN
    BY <1>1, Zenon
  <2>5. QED
    BY <1>1, <2>1, <2>2, <2>3, <2>4, Zenon DEF IInv, TypeOK, CtrlTypeOK
<1>10. /\ DISABLE_A = 173 /\ DISABLE_B = 167 /\ ENABLE_A = 174 /\ ENABLE_B = 168
       /\ READ = 32 /\ WRITE = 96 /\ TEST = 170
  BY DEF DISABLE_A, DISABLE_B, ENABLE_A, ENABLE_B, READ, WRITE, TEST
<1>11. \/ <<pc, c>> \in {<<4, 173>>, <<6, 167>>, <<9, 32>>, <<13, 96>>, <<17, 170>>}
       \/ pc \in {21, 22} /\ c \in {174, 168}
       \/ pc = 0 /\ c \in {173, 167, 32, 96, 170}
  BY <1>2, <1>6, <1>10 DEF IInv, MainInv
<1>12. pc \in 5..20 \/ pc = 0 => Closed'
  <2>1. pc \in 5..20 \/ pc = 0 => Closed \/ c = DISABLE_A
    BY <1>6 DEF IInv, MainInv
  <2>2. QED
    BY <1>5, <1>10, <1>11, <2>1 DEF Closed
<1>13. MainInv'
  <2>1. CASE pc = 4
    BY <1>1, <1>5, <1>10, <1>11, <2>1 DEF MainInv
  <2>2. CASE pc = 9
    BY <1>1, <1>5, <1>7, <1>10, <1>11, <1>12, <2>2 DEF MainInv
  <2>3. CASE pc = 13
    <3>1. c = 96 /\ ibf[2] = 96
      BY <1>3, <1>11, <2>3
    <3>2. expect' = TRUE
      BY <1>1, <1>10, <3>1
    <3>3. config' = config /\ in = config
      BY <1>5, <1>10, <2>3, <3>1 DEF IInv, MainInv
    <3>4. QED
      BY <1>1, <1>12, <2>3, <3>2, <3>3 DEF MainInv
  <2>4. CASE pc \in {0, 6, 17, 21, 22}
    BY <1>1, <1>12, <2>4 DEF MainInv
  <2>5. QED
    BY <1>11, <2>1, <2>2, <2>3, <2>4
<1>14. BufferInv'
  <2>1. ~Sent(READ)' /\ ~Sent(TEST)'
    BY <1>1 DEF Sent, NoInput
  <2>2. obf' = "answer" => Closed' /\ h # "second"
    BY <1>5, <1>6, <1>7, <1>10, <1>11 DEF IInv, BufferInv, Closed
  <2>3. obf' = "answer" => pc \in {0, 9, 10, 17, 18}
    BY <1>7, <1>10, <1>11 DEF IInv, BufferInv
  <2>4. pc \in {8, 11, 12, 13, 14, 15, 16, 19, 20} => obf' = "empty"
    BY <1>7, <1>10, <1>11 DEF IInv, BufferInv
  <2>5. h = "data" => obf' # "empty"
    BY <1>7 DEF IInv, BufferInv
  <2>6. QED
    BY <1>1, <2>1, <2>2, <2>3, <2>4, <2>5 DEF BufferInv
<1>15. QED
  BY <1>8, <1>9, <1>13, <1>14 DEF IInv, TypeOK

\* The controller takes a data byte, the keyboard sends one, and the user
\* types.
LEMMA TakeDataStep == IInv /\ TakeData => IInv'
<1> SUFFICES ASSUME IInv, TakeData PROVE IInv'
  OBVIOUS
<1> USE DEF mainVars, keybVars, userVars
<1>1. /\ UNCHANGED <<pc, cntr, in, h, irq, obf, latch, wire, kind, down, echo, held, text, keys,
                     lost, torn>>
      /\ ibf[1] = "data" /\ ibf' = NoInput /\ expect' = FALSE
  BY DEF TakeData
<1>2. config' = config
  BY <1>1, IInvConfigKept DEF ConfigKept, TakeData
<1>3. MainTypeOK' /\ KeybTypeOK'
  BY <1>1, Zenon DEF IInv, TypeOK, MainTypeOK, KeybTypeOK
<1>4. CtrlTypeOK'
  <2>1. ibf' \in {"none", "command", "data"} \X (0..255)
    BY <1>1 DEF NoInput
  <2>2. QED
    BY <1>1, <1>2, <2>1, Zenon DEF IInv, TypeOK, CtrlTypeOK
<1>5. pc \in {0, 15}
  <2>1. ibf # NoInput /\ \A c : ~Sent(c)
    BY <1>1 DEF NoInput, Sent
  <2>2. pc \in 0..22
    BY ProgramSteps DEF IInv, TypeOK, MainTypeOK
  <2>3. QED
    BY <2>1, <2>2 DEF IInv, MainInv
<1>6. MainInv'
  <2>1. ~Sent(DISABLE_A)
    BY <1>1 DEF Sent
  <2>2. Closed'
    BY <1>2, <1>5, <2>1 DEF IInv, MainInv, Closed
  <2>3. QED
    BY <1>1, <1>2, <1>5, <2>2 DEF IInv, MainInv, Closed
<1>7. BufferInv'
  BY <1>1, <1>2 DEF IInv, BufferInv, Closed, Sent, NoInput
<1>8. QED
  BY <1>3, <1>4, <1>6, <1>7 DEF IInv, TypeOK

LEMMA SendStep == IInv /\ Send => IInv'
<1> SUFFICES ASSUME IInv, Send PROVE IInv'
  OBVIOUS
<1> USE DEF mainVars, keybVars, userVars
<1>1. /\ UNCHANGED <<pc, cntr, in, h, ibf, expect, config, kind, down, echo, held, text, keys,
                     lost, torn>>
      /\ obf = "empty" /\ ~Closed /\ LoadNext /\ wire # << >>
  BY DEF Send, PortOpen, Closed
<1>2. /\ obf' = "key" /\ latch' \in 0..255 /\ wire' \in Seq(0..255) /\ irq' \in BOOLEAN
  <2>1. wire \in Seq(0..255)
    BY DEF IInv, TypeOK, CtrlTypeOK
  <2>2. Head(wire) \in 0..255 /\ Tail(wire) \in Seq(0..255)
    BY <1>1, <2>1, HeadTailProperties
  <2>3. irq' \in BOOLEAN
    BY <1>1, Zenon DEF LoadNext
  <2>4. QED
    BY <1>1, <2>2, <2>3 DEF LoadNext
<1>3. MainTypeOK' /\ KeybTypeOK'
  BY <1>1, <1>2, Zenon DEF IInv, TypeOK, MainTypeOK, KeybTypeOK
<1>4. CtrlTypeOK'
  BY <1>1, <1>2, Zenon DEF IInv, TypeOK, CtrlTypeOK
<1>5. pc \notin 5..20 /\ ~Sent(READ) /\ ~Sent(TEST)
  BY <1>1 DEF IInv, MainInv, BufferInv
<1>6. MainInv'
  BY <1>1, <1>5 DEF IInv, MainInv, Closed, Sent
<1>7. BufferInv'
  BY <1>1, <1>2, <1>5 DEF BufferInv, Sent, Closed
<1>8. QED
  BY <1>3, <1>4, <1>6, <1>7 DEF IInv, TypeOK

\* What a key event does to the wire and to the user's side.
LEMMA UserEffect ==
  ASSUME TypeOK, User
  PROVE  /\ wire' \in Seq(0..255) /\ held' \subseteq Keys /\ keys' \in 0..MaxKeys
         /\ text' \in Seq(Printable \X {"keymap", "keymap_up"})
<1> USE KeysAssumption
<1>1. /\ wire \in Seq(0..255) /\ held \subseteq Keys /\ keys \in 0..MaxKeys
      /\ text \in Seq(Printable \X {"keymap", "keymap_up"})
  BY DEF TypeOK, CtrlTypeOK, KeybTypeOK
<1>2. keys' \in 0..MaxKeys
  BY <1>1 DEF User
<1>3. CASE Type
  <2>1. Letter \in 0..255 /\ <<Letter, KeyMap(held)>> \in Printable \X {"keymap", "keymap_up"}
    BY DEF Letter, KeyMap, Printable, Modifiers
  <2>2. QED
    BY <1>1, <1>2, <1>3, <2>1, AppendProperties DEF Type
<1>4. CASE Extended
  <2>1. PICK code \in {42, 42 + KEYUP} : wire' = wire \o <<KEYBOARD_TBF, code>>
    BY <1>4 DEF Extended
  <2>2. <<KEYBOARD_TBF, code>> \in Seq(0..255)
    BY DEF KEYBOARD_TBF, KEYUP
  <2>3. QED
    BY <1>1, <1>2, <1>4, <2>1, <2>2, ConcatProperties DEF Extended
<1>5. ASSUME NEW k \in Keys, Press(k) \/ Release(k)
      PROVE  /\ wire' \in Seq(0..255) /\ held' \subseteq Keys /\ text' = text
  <2>1. k \in 0..255 /\ k + KEYUP \in 0..255
    BY DEF KEYUP
  <2>2. CASE Press(k)
    <3>1. wire' = Append(wire, k) /\ held' = held \cup {k} /\ text' = text
      BY <2>2 DEF Press
    <3>2. QED
      BY <1>1, <2>1, <3>1, AppendProperties
  <2>3. CASE Release(k)
    <3>1. wire' = Append(wire, k + KEYUP) /\ held' = held \ {k} /\ text' = text
      BY <2>3 DEF Release
    <3>2. QED
      BY <1>1, <2>1, <3>1, AppendProperties
  <2>4. QED
    BY <1>5, <2>2, <2>3
<1>6. QED
  BY <1>1, <1>2, <1>3, <1>4, <1>5 DEF User

LEMMA UserStep == IInv /\ User => IInv'
<1> SUFFICES ASSUME IInv, User PROVE IInv'
  OBVIOUS
<1> USE DEF mainVars, ctrlVars, keybVars
<1>1. UNCHANGED <<pc, cntr, in, h, irq, obf, latch, ibf, expect, config, kind, down, echo, lost,
                  torn>>
  BY DEF User
<1>2. /\ wire' \in Seq(0..255) /\ held' \subseteq Keys /\ keys' \in 0..MaxKeys
      /\ text' \in Seq(Printable \X {"keymap", "keymap_up"})
  BY UserEffect DEF IInv
<1>3. MainTypeOK' /\ CtrlTypeOK'
  BY <1>1, <1>2, SMT DEF IInv, TypeOK, MainTypeOK, CtrlTypeOK
<1>4. KeybTypeOK'
  BY <1>1, <1>2, Zenon DEF IInv, TypeOK, KeybTypeOK
<1>5. MainInv'
  BY <1>1 DEF IInv, MainInv, Sent, Closed
<1>6. BufferInv'
  BY <1>1 DEF IInv, BufferInv, Sent, Closed
<1>7. QED
  BY <1>3, <1>4, <1>5, <1>6 DEF IInv, TypeOK

\* Every step preserves the invariant.
LEMMA NextIInv == IInv /\ [Next]_vars => IInv'
<1> SUFFICES ASSUME IInv, [Next]_vars PROVE IInv'
  OBVIOUS
<1>1. CASE UNCHANGED vars
  <2> USE <1>1 DEF vars, mainVars, ctrlVars, keybVars, userVars
  <2>1. MainTypeOK' /\ CtrlTypeOK' /\ KeybTypeOK'
    BY SMT DEF IInv, TypeOK, MainTypeOK, CtrlTypeOK, KeybTypeOK
  <2>2. MainInv'
    BY DEF IInv, MainInv, Sent, Closed
  <2>3. BufferInv'
    BY DEF IInv, BufferInv, Sent, Closed
  <2>4. QED
    BY <2>1, <2>2, <2>3 DEF IInv, TypeOK
<1>2. CASE Next
  BY <1>1, <1>2, WaitStep, WriteStep, ReadStep, EntryStep, HandlerReadStep, TakeCommandStep,
     TakeDataStep, SendStep, UserStep
     DEF Next, Main, Handler, Controller, Idle
<1>3. QED
  BY <1>1, <1>2

-----------------------------------------------------------------------------
(* What i8042_init takes from the keyboard.                                *)

\* The port is closed before the flush, so a byte of the keyboard's that the
\* flush finds is the last one, and no later read of main's finds any.
LossInv ==
  /\ pc \in 1..6 => lost = << >>
  /\ pc = 7 => lost = << >> \/ obf # "key"
  /\ pc \in 8..20 => obf # "key"
  /\ Len(lost) <= 1

LEMMA InitLossInv == Init => LossInv
BY DEF Init, LossInv

\* With the port closed nothing but main moves main closer to a loss.
LEMMA LossKept ==
  ASSUME IInv, LossInv, UNCHANGED <<pc, lost>>, obf' = "key" => obf = "key" \/ ~Closed
  PROVE  LossInv'
<1>1. pc \in 7..20 => Closed
  BY DEF IInv, MainInv
<1>2. QED
  BY <1>1 DEF LossInv

\* main's steps that are not reads.
LEMMA WaitLoss == IInv /\ LossInv /\ (Install \/ Command \/ WaitTx \/ WaitRx \/ OutConfig) => LossInv'
<1> SUFFICES ASSUME IInv, LossInv, Install \/ Command \/ WaitTx \/ WaitRx \/ OutConfig
             PROVE  LossInv'
  OBVIOUS
<1>1. UNCHANGED <<obf, lost>>
  BY DEF Install, Command, WaitTx, WaitRx, OutConfig, ctrlVars
<1>2. pc \in 1..21 /\ pc # 7 /\ (pc' = pc \/ pc' = pc + 1 \/ pc' = 0)
  <2>1. pc \in 1..21
    BY AtSteps DEF Install, Command, WaitTx, WaitRx, OutConfig
  <2>2. pc # 7
    BY AtSteps DEF Install, Command, WaitTx, WaitRx, OutConfig
  <2>3. pc' = pc \/ pc' = pc + 1 \/ pc' = 0
    BY DEF Install, Command, WaitTx, WaitRx, OutConfig, Advance, Exit, Failed
  <2>4. QED
    BY <2>1, <2>2, <2>3
<1>3. pc' \in 1..7 => pc \in 1..6
  BY <1>2
<1>4. pc' \in 8..20 => pc \in 8..20
  BY <1>2
<1>5. 7 \in 1..7 /\ \A n \in 1..6 : n \in 1..7
  OBVIOUS
<1>6. QED
  BY <1>1, <1>3, <1>4, <1>5 DEF LossInv

\* main's reads.
LEMMA ReadLoss == IInv /\ LossInv /\ (FlushData \/ InConfig \/ InTest) => LossInv'
<1> SUFFICES ASSUME IInv, LossInv, FlushData \/ InConfig \/ InTest PROVE LossInv'
  OBVIOUS
<1>1. InData /\ Swallow
  BY DEF FlushData, InConfig, InTest
<1>2. \/ pc = 7 /\ pc' \in {7, 8}
      \/ pc = 10 /\ pc' = 11
      \/ pc = 18 /\ pc' \in {0, 19}
  BY AtSteps DEF FlushData, InConfig, InTest, Advance, Exit, Failed
<1>3. obf' = "empty"
  <2>1. Closed
    BY <1>2 DEF IInv, MainInv
  <2>2. QED
    BY <1>1, <2>1, InDataStep DEF IInv, TypeOK, MainTypeOK
<1>4. Len(lost') <= 1
  <2>1. CASE obf = "key"
    <3>1. lost = << >>
      BY <1>2, <2>1 DEF LossInv
    <3>2. lost' = Append(lost, latch)
      BY <1>1, <2>1 DEF Swallow
    <3>3. QED
      BY <3>1, <3>2
  <2>2. CASE obf # "key"
    BY <1>1, <2>2 DEF LossInv, Swallow
  <2>3. QED
    BY <2>1, <2>2
<1>5. QED
  BY <1>2, <1>3, <1>4 DEF LossInv

LEMMA NextLossInv == IInv /\ LossInv /\ [Next]_vars => LossInv'
<1> SUFFICES ASSUME IInv, LossInv, [Next]_vars PROVE LossInv'
  OBVIOUS
<1> USE DEF vars, mainVars, ctrlVars, keybVars, userVars
<1>1. CASE Main
  BY <1>1, WaitLoss, ReadLoss DEF Main
<1>2. CASE Idle \/ Interrupt \/ IrqStatus \/ TakeData \/ User \/ UNCHANGED vars
  <2>1. UNCHANGED <<pc, lost, obf>>
    BY <1>2 DEF Idle, Interrupt, IrqStatus, TakeData, User
  <2>2. QED
    BY <2>1, LossKept
<1>3. CASE IrqData \/ IrqSecond
  <2>1. UNCHANGED <<pc, lost>> /\ InData
    BY <1>3 DEF IrqData, IrqSecond
  <2>2. obf' = "key" => ~Closed
    BY <2>1, InDataStep DEF IInv, TypeOK, MainTypeOK
  <2>3. QED
    BY <2>1, <2>2, LossKept
<1>4. CASE TakeCommand
  <2>1. UNCHANGED <<pc, lost>> /\ (obf' = "key" => obf = "key")
    BY <1>4 DEF TakeCommand, Answer
  <2>2. QED
    BY <2>1, LossKept
<1>5. CASE Send
  <2>1. UNCHANGED <<pc, lost>> /\ ~Closed
    BY <1>5 DEF Send, PortOpen, Closed
  <2>2. QED
    BY <2>1, LossKept
<1>6. QED
  BY <1>1, <1>2, <1>3, <1>4, <1>5 DEF Next, Handler, Controller

-----------------------------------------------------------------------------
(* The invariant behind TypingFaithful.  The keyboard's state that the     *)
(* bytes still under way lead to is the user's: some sequence of states    *)
(* leads byte by byte from one to the other.                               *)

\* The state after one more byte: modifiers, text, and whether the next byte
\* is the second of its code.
After(a, b) ==
  IF a[3] = "second" THEN <<a[1], a[2], "first">>
  ELSE IF b = KEYBOARD_TBF THEN <<a[1], a[2], "second">>
  ELSE <<IF b < KEYUP THEN a[1] \cup ({b} \cap Modifiers) ELSE a[1] \ {b - KEYUP},
         IF b \in Printable THEN Append(a[2], <<b, KeyMap(a[1])>>) ELSE a[2],
         "first">>

\* The bytes s lead from state a to state z.
Leads(s, a, z) ==
  \E D : /\ D[0] = a /\ D[Len(s)] = z
         /\ \A i \in 1..Len(s) : D[i] = After(D[i - 1], s[i])

\* The bytes under way, what keyboard.c has made of those before, and what
\* the user typed.
UnderWay == IF obf = "key" THEN <<latch>> \o wire ELSE wire
Seen     == <<down, echo, IF h = "second" THEN "second" ELSE "first">>
Typed    == <<held, text, "first">>

\* A byte that nobody was told of: only i8042_init can take it, and that
\* loses it.
Unannounced == obf = "key" /\ ~irq /\ h = "none"

\* A byte that keyboard_handle ignores.
Harmless(b) ==
  /\ b # KEYBOARD_TBF /\ b \notin Printable /\ b \notin Modifiers
  /\ b - KEYUP \notin Modifiers

AnswerInv == Bit(config, 6) /\ (obf = "answer" => Harmless(latch))
TypingInv == lost = << >> /\ ~torn => Unannounced \/ Leads(UnderWay, Seen, Typed)

\* No bytes lead nowhere.
LEMMA LeadsNowhere ==
  ASSUME NEW a, NEW z
  PROVE  Leads(<< >>, a, z) <=> a = z
<1>1. Len(<< >>) = 0
  OBVIOUS
<1>2. ASSUME a = z PROVE Leads(<< >>, a, z)
  <2>1. [i \in {0} |-> a][0] = a
    OBVIOUS
  <2>2. \A i \in 1..0 : FALSE
    OBVIOUS
  <2>3. QED
    BY <1>1, <1>2, <2>1, <2>2 DEF Leads
<1>3. ASSUME Leads(<< >>, a, z) PROVE a = z
  BY <1>1, <1>3 DEF Leads
<1>4. QED
  BY <1>2, <1>3

\* One byte more.
LEMMA LeadsOn ==
  ASSUME NEW s \in Seq(0..255), NEW b \in 0..255, NEW a, NEW z, Leads(s, a, z)
  PROVE  Leads(Append(s, b), a, After(z, b))
<1>1. PICK D : /\ D[0] = a /\ D[Len(s)] = z
               /\ \A i \in 1..Len(s) : D[i] = After(D[i - 1], s[i])
  BY DEF Leads
<1> DEFINE t == Append(s, b)
           n == Len(s)
           E == [i \in 0..n + 1 |-> IF i = n + 1 THEN After(z, b) ELSE D[i]]
<1>2. n \in Nat /\ Len(t) = n + 1 /\ t[n + 1] = b /\ \A i \in 1..n : t[i] = s[i]
  BY AppendProperties, LenProperties
<1> HIDE DEF t, n
<1>3. E[0] = a /\ E[n + 1] = After(z, b)
  BY <1>1, <1>2 DEF n
<1>4. ASSUME NEW i \in 1..n + 1 PROVE E[i] = After(E[i - 1], t[i])
  <2>1. i - 1 \in 0..n + 1 /\ i \in 0..n + 1 /\ i - 1 # n + 1
    BY <1>2
  <2>2. E[i - 1] = D[i - 1]
    BY <2>1
  <2>3. CASE i = n + 1
    BY <1>1, <1>2, <2>1, <2>2, <2>3 DEF n
  <2>4. CASE i # n + 1
    <3>1. i \in 1..n
      BY <1>2, <2>4
    <3>2. QED
      BY <1>1, <1>2, <2>1, <2>2, <2>4, <3>1 DEF n
  <2>5. QED
    BY <2>3, <2>4
<1>5. E[0] = a /\ E[Len(t)] = After(z, b) /\ \A i \in 1..Len(t) : E[i] = After(E[i - 1], t[i])
  BY <1>2, <1>3, <1>4
<1> HIDE DEF E
<1>6. QED
  BY <1>5 DEF Leads, t

\* One byte less.
LEMMA LeadsFrom ==
  ASSUME NEW t \in Seq(0..255), NEW b \in 0..255, NEW a, NEW z, Leads(<<b>> \o t, a, z)
  PROVE  Leads(t, After(a, b), z)
<1> DEFINE s == <<b>> \o t
           n == Len(t)
<1>1. n \in Nat /\ Len(s) = n + 1 /\ s[1] = b /\ \A i \in 1..n : s[i + 1] = t[i]
  <2>1. <<b>> \in Seq(0..255) /\ Len(<<b>>) = 1 /\ <<b>>[1] = b
    OBVIOUS
  <2>2. /\ Len(s) = 1 + n
        /\ \A i \in 1..1 + n : s[i] = IF i <= 1 THEN <<b>>[i] ELSE t[i - 1]
    BY <2>1, ConcatProperties
  <2>3. n \in Nat
    BY LenProperties
  <2> HIDE DEF s, n
  <2>4. 1 \in 1..1 + n /\ s[1] = b
    BY <2>1, <2>2, <2>3
  <2>5. ASSUME NEW i \in 1..n PROVE s[i + 1] = t[i]
    <3>1. i + 1 \in 1..1 + n /\ ~(i + 1 <= 1) /\ (i + 1) - 1 = i
      BY <2>3
    <3>2. QED
      BY <2>2, <3>1
  <2>6. QED
    BY <2>2, <2>3, <2>4, <2>5
<1>2. PICK D : /\ D[0] = a /\ D[Len(s)] = z
               /\ \A i \in 1..Len(s) : D[i] = After(D[i - 1], s[i])
  BY DEF Leads
<1> DEFINE E == [i \in 0..n |-> D[i + 1]]
<1> HIDE DEF s, n
<1>3. E[0] = After(a, b) /\ E[n] = z
  <2>1. D[1] = After(a, b)
    <3>1. 1 \in 1..Len(s) /\ 1 - 1 = 0
      BY <1>1
    <3>2. QED
      BY <1>1, <1>2, <3>1
  <2>2. 0 \in 0..n /\ n \in 0..n /\ 0 + 1 = 1
    BY <1>1
  <2>3. QED
    BY <1>1, <1>2, <2>1, <2>2
<1>4. ASSUME NEW i \in 1..n PROVE E[i] = After(E[i - 1], t[i])
  <2>1. i + 1 \in 1..Len(s) /\ (i + 1) - 1 = i /\ i \in 0..n /\ i - 1 \in 0..n /\ (i - 1) + 1 = i
    BY <1>1
  <2>2. D[i + 1] = After(D[i], s[i + 1])
    BY <1>2, <2>1
  <2>3. E[i] = D[i + 1] /\ E[i - 1] = D[i]
    BY <2>1
  <2>4. QED
    BY <1>1, <2>2, <2>3
<1> HIDE DEF E
<1>5. QED
  BY <1>3, <1>4 DEF Leads, n

-----------------------------------------------------------------------------
(* The answers of the controller are harmless.                             *)

\* A configuration byte with the port closed and translation on is none of
\* keyboard.c's codes.
LEMMA ConfigHarmless ==
  ASSUME NEW b \in 0..255, Bit(b, 4), Bit(b, 6)
  PROVE  Harmless(b)
<1>1. 2^4 = 16 /\ 2^6 = 64
  OBVIOUS
<1>2. b # 224 /\ b >= 64 /\ (b >= 128 => b - 128 >= 64)
  BY <1>1 DEF Bit
<1>3. QED
  BY <1>2 DEF Harmless, KEYBOARD_TBF, KEYUP, Printable, Modifiers

\* keyboard_handle does nothing with it.
LEMMA HarmlessHandled ==
  ASSUME KeybTypeOK, NEW b \in 0..255, Harmless(b), KeyboardHandle(b)
  PROVE  UNCHANGED <<down, echo>>
BY DEF KeybTypeOK, Harmless, KeyboardHandle

LEMMA InitAnswerInv == Init => AnswerInv
BY TranslationAssumption DEF Init, AnswerInv

LEMMA NextAnswerInv == IInv /\ AnswerInv /\ [Next]_vars => AnswerInv'
<1> SUFFICES ASSUME IInv, AnswerInv, [Next]_vars PROVE AnswerInv'
  OBVIOUS
<1> USE DEF vars, mainVars, ctrlVars, keybVars, userVars
<1>1. config \in 0..255 /\ CtrlTypeOK /\ irq \in BOOLEAN
  BY DEF IInv, TypeOK, MainTypeOK, CtrlTypeOK
<1>2. ASSUME UNCHANGED config, obf' = "answer" => obf = "answer" /\ latch' = latch
      PROVE  AnswerInv'
  BY <1>2 DEF AnswerInv, Harmless
<1>3. CASE UNCHANGED <<obf, latch, config>>
  BY <1>2, <1>3
<1>4. CASE InData /\ UNCHANGED config
  BY <1>1, <1>2, <1>4, InDataStep
<1>5. CASE TakeCommand
  <2>1. /\ \/ config' = config \/ config' = SetBit(config, 4) \/ config' = SetBit(config, 5)
           \/ config' = ClearBit(config, 4) \/ config' = ClearBit(config, 5)
        /\ \/ ibf[2] = READ /\ obf' = "answer" /\ latch' = config
           \/ ibf[2] = TEST /\ obf' = "answer" /\ latch' \in {85, 252}
           \/ UNCHANGED <<obf, latch>>
    BY <1>5 DEF TakeCommand, Answer, RSP_TEST_OKAY
  <2>2. Bit(config', 6)
    BY <1>1, <2>1, ConfigBits, ZenonT(60) DEF AnswerInv
  <2>3. ASSUME obf' = "answer" PROVE Harmless(latch')
    <3>1. CASE ibf[2] = READ /\ latch' = config
      <4>1. Sent(READ)
        BY <1>1, <1>5, <3>1 DEF CtrlTypeOK, TakeCommand, Sent
      <4>2. Bit(config, 4) /\ Bit(config, 6)
        BY <4>1 DEF IInv, BufferInv, Closed, AnswerInv
      <4>3. QED
        BY <1>1, <3>1, <4>2, ConfigHarmless
    <3>2. CASE latch' \in {85, 252}
      BY <3>2 DEF Harmless, KEYBOARD_TBF, KEYUP, Printable, Modifiers
    <3>3. CASE UNCHANGED <<obf, latch>>
      BY <2>3, <3>3 DEF AnswerInv, Harmless
    <3>4. QED
      BY <2>1, <3>1, <3>2, <3>3
  <2>4. QED
    BY <2>2, <2>3 DEF AnswerInv, Harmless
<1>6. CASE TakeData
  <2>1. config' = config /\ UNCHANGED <<obf, latch>>
    BY <1>6, IInvConfigKept DEF ConfigKept, TakeData
  <2>2. QED
    BY <1>3, <2>1
<1>7. CASE Send
  BY <1>2, <1>7 DEF Send, LoadNext
<1>8. CASE Main
  <2>1. CASE Install \/ Command \/ WaitTx \/ WaitRx \/ OutConfig
    BY <1>3, <2>1 DEF Install, Command, WaitTx, WaitRx, OutConfig
  <2>2. CASE FlushData \/ InConfig \/ InTest
    BY <1>4, <2>2 DEF FlushData, InConfig, InTest
  <2>3. QED
    BY <1>8, <2>1, <2>2 DEF Main
<1>9. CASE Handler \/ Interrupt \/ User \/ Idle \/ UNCHANGED vars
  BY <1>3, <1>4, <1>9 DEF Handler, Interrupt, IrqStatus, IrqData, IrqSecond, User, Idle
<1>10. QED
  BY <1>5, <1>6, <1>7, <1>8, <1>9 DEF Next, Controller

-----------------------------------------------------------------------------
(* The bytes under way keep leading to what the user typed.                *)

LEMMA InitTypingInv == Init => TypingInv
<1> SUFFICES ASSUME Init PROVE TypingInv
  OBVIOUS
<1>1. CASE obf = "key"
  BY <1>1 DEF Init, TypingInv, Unannounced
<1>2. CASE obf = "empty"
  BY <1>2, LeadsNowhere DEF Init, TypingInv, UnderWay, Seen, Typed
<1>3. QED
  BY <1>1, <1>2 DEF Init

\* A step that moves none of them.
LEMMA TypingKept ==
  ASSUME TypingInv, Unannounced => Unannounced', lost # << >> => lost' # << >>, torn => torn',
         UNCHANGED <<UnderWay, Seen, Typed>>
  PROVE  TypingInv'
BY DEF TypingInv

\* A byte moves from the wire to the buffer.
LEMMA LoadNextKeeps ==
  ASSUME wire \in Seq(0..255), wire # << >>, LoadNext
  PROVE  UnderWay' = wire
<1>1. Head(wire) \in 0..255 /\ Tail(wire) \in Seq(0..255)
  BY HeadTailProperties
<1>2. <<Head(wire)>> \o Tail(wire) = wire
  <2>1. wire = <<Head(wire)>> \o Tail(wire)
    OBVIOUS
  <2>2. QED
    BY <2>1
<1>3. QED
  BY <1>2 DEF LoadNext, UnderWay

\* Reading the data port takes the buffer's byte and leaves the others.
LEMMA InDataTakes ==
  ASSUME CtrlTypeOK, InData
  PROVE  UnderWay' = wire
<1>1. CASE kind.prompt /\ wire # << >> /\ PortOpen
  BY <1>1, LoadNextKeeps DEF InData, CtrlTypeOK
<1>2. CASE ~(kind.prompt /\ wire # << >> /\ PortOpen)
  BY <1>2 DEF InData, UnderWay
<1>3. QED
  BY <1>1, <1>2

\* i8042_init: it loses what it reads of the keyboard's, and moves nothing
\* otherwise.
LEMMA MainTyping == IInv /\ TypingInv /\ Main => TypingInv'
<1> SUFFICES ASSUME IInv, TypingInv, Main PROVE TypingInv'
  OBVIOUS
<1> USE DEF ctrlVars, keybVars, userVars
<1>1. UNCHANGED <<h, down, echo, held, text, torn>> /\ UNCHANGED <<Seen, Typed>>
  BY DEF Main, Install, Command, WaitTx, WaitRx, OutConfig, FlushData, InConfig, InTest,
         Seen, Typed
<1>2. CASE Install \/ Command \/ WaitTx \/ WaitRx \/ OutConfig
  <2>1. UNCHANGED <<obf, latch, wire, irq, lost>>
    BY <1>2 DEF Install, Command, WaitTx, WaitRx, OutConfig
  <2>2. UNCHANGED UnderWay /\ (Unannounced => Unannounced')
    BY <1>1, <2>1 DEF UnderWay, Unannounced
  <2>3. QED
    BY <1>1, <2>1, <2>2, TypingKept
<1>3. CASE FlushData \/ InConfig \/ InTest
  <2>1. InData /\ Swallow /\ UnderWay' = wire
    BY <1>3, InDataTakes DEF FlushData, InConfig, InTest, IInv, TypeOK
  <2>2. CASE obf = "key"
    <3>1. lost' # << >>
      BY <2>1, <2>2, AppendProperties DEF Swallow, IInv, TypeOK, MainTypeOK, CtrlTypeOK
    <3>2. QED
      BY <3>1 DEF TypingInv
  <2>3. CASE obf # "key"
    <3>1. lost' = lost
      BY <2>1, <2>3 DEF Swallow
    <3>2. QED
      BY <1>1, <2>1, <2>3, <3>1, TypingKept DEF UnderWay, Unannounced
  <2>4. QED
    BY <2>2, <2>3
<1>4. QED
  BY <1>2, <1>3 DEF Main

\* The entry of the handler and its status read.
LEMMA EntryTyping == TypingInv /\ (Interrupt \/ IrqStatus) => TypingInv'
<1> SUFFICES ASSUME TypingInv, Interrupt \/ IrqStatus PROVE TypingInv'
  OBVIOUS
<1> USE DEF mainVars, ctrlVars, keybVars, userVars
<1>1. /\ UNCHANGED <<obf, latch, wire, down, echo, held, text, lost, torn>>
      /\ h # "second" /\ h' # "second" /\ ~Unannounced
  BY DEF Interrupt, IrqStatus, Unannounced
<1>2. UNCHANGED <<UnderWay, Seen, Typed>>
  BY <1>1 DEF UnderWay, Seen, Typed
<1>3. QED
  BY <1>1, <1>2, TypingKept

\* The handler takes a byte of the keyboard's.
LEMMA ByteTaken ==
  ASSUME IInv, TypingInv, InData, obf = "key", h # "none", UNCHANGED <<held, text, lost, torn>>,
         Seen' = After(Seen, latch)
  PROVE  TypingInv'
<1>1. CASE lost # << >> \/ torn
  BY <1>1 DEF TypingInv
<1>2. CASE lost = << >> /\ ~torn
  <2>1. latch \in 0..255 /\ wire \in Seq(0..255)
    BY DEF IInv, TypeOK, CtrlTypeOK
  <2>2. Leads(<<latch>> \o wire, Seen, Typed)
    BY <1>2 DEF TypingInv, Unannounced, UnderWay
  <2>3. Leads(wire, After(Seen, latch), Typed)
    BY <2>1, <2>2, LeadsFrom
  <2>4. UnderWay' = wire /\ Typed' = Typed
    BY InDataTakes DEF IInv, TypeOK, Typed
  <2>5. Leads(UnderWay, Seen, Typed)'
    BY <2>3, <2>4
  <2>6. QED
    BY <2>5 DEF TypingInv
<1>3. QED
  BY <1>1, <1>2

\* The handler's first read: a byte of the keyboard's, or an answer, which
\* keyboard_handle ignores.
LEMMA IrqDataTyping == IInv /\ AnswerInv /\ TypingInv /\ IrqData => TypingInv'
<1> SUFFICES ASSUME IInv, AnswerInv, TypingInv, IrqData PROVE TypingInv'
  OBVIOUS
<1> USE DEF mainVars, keybVars, userVars
<1>1. /\ InData /\ h = "data" /\ UNCHANGED <<held, text, lost, torn>>
      /\ IF latch = KEYBOARD_TBF THEN h' = "second" /\ UNCHANGED <<down, echo>>
                                 ELSE h' = "none" /\ KeyboardHandle(latch)
  BY DEF IrqData
<1>2. obf \in {"key", "answer"} /\ latch \in 0..255 /\ irq \in BOOLEAN
  BY <1>1 DEF IInv, BufferInv, TypeOK, MainTypeOK, CtrlTypeOK
<1>3. CASE obf = "key"
  <2>1. Seen' = After(Seen, latch)
    <3>1. Seen = <<down, echo, "first">>
      BY <1>1 DEF Seen
    <3>2. CASE latch = KEYBOARD_TBF
      BY <1>1, <3>1, <3>2 DEF After, Seen
    <3>3. CASE latch # KEYBOARD_TBF
      BY <1>1, <3>1, <3>3 DEF After, Seen, KeyboardHandle
    <3>4. QED
      BY <3>2, <3>3
  <2>2. QED
    BY <1>1, <1>3, <2>1, ByteTaken
<1>4. CASE obf = "answer"
  <2>1. Harmless(latch)
    BY <1>4 DEF AnswerInv
  <2>2. h' = "none" /\ UNCHANGED <<down, echo>>
    BY <1>1, <1>2, <2>1, HarmlessHandled DEF Harmless, IInv, TypeOK
  <2>3. UnderWay' = UnderWay
    BY <1>1, <1>4, InDataTakes DEF IInv, TypeOK, UnderWay
  <2>4. UNCHANGED <<Seen, Typed>>
    BY <1>1, <2>2 DEF Seen, Typed
  <2>5. QED
    BY <1>1, <1>4, <2>3, <2>4, TypingKept DEF Unannounced
<1>5. QED
  BY <1>2, <1>3, <1>4

\* The second read: of an empty buffer it is torn, an answer it never is.
LEMMA IrqSecondTyping == IInv /\ TypingInv /\ IrqSecond => TypingInv'
<1> SUFFICES ASSUME IInv, TypingInv, IrqSecond PROVE TypingInv'
  OBVIOUS
<1> USE DEF mainVars, keybVars, userVars
<1>1. /\ InData /\ h = "second" /\ h' = "none" /\ torn' = (torn \/ obf = "empty")
      /\ UNCHANGED <<down, echo, held, text, lost>>
  BY DEF IrqSecond
<1>2. obf # "answer"
  BY <1>1 DEF IInv, BufferInv
<1>3. CASE obf = "key"
  <2>1. Seen' = After(Seen, latch)
    BY <1>1 DEF Seen, After
  <2>2. torn' = torn
    BY <1>1, <1>3 DEF IInv, TypeOK, MainTypeOK
  <2>3. QED
    BY <1>1, <1>3, <2>1, <2>2, ByteTaken
<1>4. CASE obf = "empty"
  BY <1>1, <1>4 DEF TypingInv
<1>5. QED
  BY <1>2, <1>3, <1>4 DEF IInv, TypeOK, CtrlTypeOK

\* The controller's answers and the keyboard's bytes.
LEMMA DeviceTyping == IInv /\ TypingInv /\ (TakeCommand \/ TakeData \/ Send) => TypingInv'
<1> SUFFICES ASSUME IInv, TypingInv, TakeCommand \/ TakeData \/ Send PROVE TypingInv'
  OBVIOUS
<1> USE DEF mainVars, keybVars, userVars
<1>1. UNCHANGED <<h, down, echo, held, text, lost, torn>> /\ UNCHANGED <<Seen, Typed>>
  BY DEF TakeCommand, TakeData, Send, Seen, Typed
<1>2. UnderWay' = UnderWay /\ (Unannounced => Unannounced')
  <2>1. CASE TakeCommand
    BY <1>1, <2>1 DEF TakeCommand, Answer, UnderWay, Unannounced
  <2>2. CASE TakeData
    BY <1>1, <2>2 DEF TakeData, UnderWay, Unannounced
  <2>3. CASE Send
    <3>1. UnderWay' = wire
      BY <2>3, LoadNextKeeps DEF Send, IInv, TypeOK, CtrlTypeOK
    <3>2. QED
      BY <2>3, <3>1 DEF Send, UnderWay, Unannounced
  <2>4. QED
    BY <2>1, <2>2, <2>3
<1>3. QED
  BY <1>1, <1>2, TypingKept

\* A byte the user adds goes to the end of those under way.
LEMMA UnderWayGrows ==
  ASSUME CtrlTypeOK, NEW b \in 0..255, wire' = Append(wire, b), UNCHANGED <<obf, latch>>
  PROVE  UnderWay' = Append(UnderWay, b)
<1>1. wire \in Seq(0..255) /\ latch \in 0..255 /\ <<latch>> \in Seq(0..255)
  BY DEF CtrlTypeOK
<1>2. <<latch>> \o Append(wire, b) = Append(<<latch>> \o wire, b)
  <2>1. Append(wire, b) = wire \o <<b>>
    BY <1>1, AppendIsConcat
  <2>2. <<latch>> \o wire \in Seq(0..255)
    BY <1>1, ConcatProperties
  <2>3. Append(<<latch>> \o wire, b) = (<<latch>> \o wire) \o <<b>>
    BY <2>2, AppendIsConcat
  <2>4. <<b>> \in Seq(0..255)
    OBVIOUS
  <2>5. QED
    BY <1>1, <2>1, <2>3, <2>4, ConcatAssociative
<1>3. QED
  BY <1>2 DEF UnderWay

\* The user's keys: what is added leads on to what is then typed.
LEMMA UserTyping == IInv /\ TypingInv /\ User => TypingInv'
<1> SUFFICES ASSUME IInv, TypingInv, User PROVE TypingInv'
  OBVIOUS
<1> USE KeysAssumption DEF mainVars, ctrlVars, keybVars
<1>1. UNCHANGED <<h, irq, obf, latch, down, echo, lost, torn, Seen>>
  BY DEF User, Seen
<1>2. CtrlTypeOK /\ wire \in Seq(0..255) /\ latch \in 0..255 /\ held \subseteq Keys
  BY DEF IInv, TypeOK, CtrlTypeOK, KeybTypeOK
<1>3. CASE lost # << >> \/ torn \/ Unannounced
  BY <1>1, <1>3 DEF TypingInv, Unannounced
<1>4. CASE lost = << >> /\ ~torn /\ ~Unannounced
  <2>1. Leads(UnderWay, Seen, Typed) /\ UnderWay \in Seq(0..255)
    <3>1. <<latch>> \o wire \in Seq(0..255)
      BY <1>2, ConcatProperties
    <3>2. QED
      BY <1>2, <1>4, <3>1 DEF TypingInv, UnderWay
  <2>2. ASSUME NEW b \in 0..255, wire' = Append(wire, b), Typed' = After(Typed, b)
        PROVE  TypingInv'
    <3>1. UnderWay' = Append(UnderWay, b)
      BY <1>1, <1>2, <2>2, UnderWayGrows
    <3>2. Leads(UnderWay', Seen', Typed')
      BY <1>1, <2>1, <2>2, <3>1, LeadsOn
    <3>3. QED
      BY <3>2 DEF TypingInv
  <2>3. CASE Type
    <3>1. Letter \in 0..255 /\ After(Typed, Letter) = Typed'
      BY <2>3 DEF Type, Typed, After, Letter, KEYBOARD_TBF, KEYUP, Printable, Modifiers
    <3>2. QED
      BY <2>2, <2>3, <3>1 DEF Type
  <2>4. CASE \E k \in Keys : Press(k)
    <3>1. PICK k \in Keys : Press(k)
      BY <2>4
    <3>2. k \in 0..255 /\ k \in Modifiers /\ k \notin Printable /\ k < KEYUP /\ k # KEYBOARD_TBF
      BY DEF KEYBOARD_TBF, KEYUP, Printable, Modifiers
    <3>3. Typed' = <<held \cup {k}, text, "first">> /\ {k} \cap Modifiers = {k}
      BY <3>1, <3>2 DEF Press, Typed
    <3>4. After(Typed, k) = Typed'
      BY <3>2, <3>3 DEF Typed, After
    <3>5. QED
      BY <2>2, <3>1, <3>2, <3>4 DEF Press
  <2>5. CASE \E k \in Keys : Release(k)
    <3>1. PICK k \in Keys : Release(k)
      BY <2>5
    <3>2. k + KEYUP \in 0..255 /\ After(Typed, k + KEYUP) = Typed'
      BY <3>1 DEF Release, Typed, After, KEYBOARD_TBF, KEYUP, Printable, Modifiers
    <3>3. QED
      BY <2>2, <3>1, <3>2 DEF Release
  <2>6. CASE Extended
    <3>1. PICK code \in {42, 42 + KEYUP} : wire' = wire \o <<KEYBOARD_TBF, code>>
      BY <2>6 DEF Extended
    <3>2. KEYBOARD_TBF \in 0..255 /\ code \in 0..255
      BY DEF KEYBOARD_TBF, KEYUP
    <3>3. Leads(Append(Append(UnderWay, KEYBOARD_TBF), code), Seen,
                After(After(Typed, KEYBOARD_TBF), code))
      <4>1. Append(UnderWay, KEYBOARD_TBF) \in Seq(0..255)
        BY <2>1, <3>2, AppendProperties
      <4>2. QED
        BY <2>1, <3>2, <4>1, LeadsOn
    <3>4. After(After(Typed, KEYBOARD_TBF), code) = Typed /\ Typed' = Typed
      BY <2>6 DEF Extended, Typed, After, KEYBOARD_TBF
    <3>5. UnderWay' = Append(Append(UnderWay, KEYBOARD_TBF), code)
      <4> DEFINE p == <<KEYBOARD_TBF, code>>
      <4>1. p \in Seq(0..255)
        BY <3>2
      <4>2. ASSUME NEW s \in Seq(0..255) PROVE s \o p = Append(Append(s, KEYBOARD_TBF), code)
        <5>1. p = <<KEYBOARD_TBF>> \o <<code>>
          OBVIOUS
        <5>2. <<KEYBOARD_TBF>> \in Seq(0..255) /\ <<code>> \in Seq(0..255)
          BY <3>2
        <5>3. Append(s, KEYBOARD_TBF) = s \o <<KEYBOARD_TBF>> /\ Append(s, KEYBOARD_TBF) \in Seq(0..255)
          BY <3>2, AppendIsConcat, AppendProperties
        <5>4. Append(Append(s, KEYBOARD_TBF), code) = (s \o <<KEYBOARD_TBF>>) \o <<code>>
          BY <3>2, <5>3, AppendIsConcat
        <5>5. QED
          BY <5>1, <5>2, <5>4, ConcatAssociative, SMTT(30)
      <4> HIDE DEF p
      <4>3. UnderWay' = UnderWay \o p
        <5>1. wire' = wire \o p
          BY <3>1 DEF p
        <5>2. CASE obf = "key"
          <6>1. <<latch>> \in Seq(0..255)
            BY <1>2
          <6>2. (<<latch>> \o wire) \o p = <<latch>> \o (wire \o p)
            BY <1>2, <4>1, <6>1, ConcatAssociative
          <6>3. QED
            BY <1>1, <5>1, <5>2, <6>2 DEF UnderWay
        <5>3. CASE obf # "key"
          BY <1>1, <5>1, <5>3 DEF UnderWay
        <5>4. QED
          BY <5>2, <5>3
      <4>4. QED
        BY <2>1, <4>2, <4>3
    <3>6. Leads(UnderWay', Seen', Typed')
      BY <1>1, <3>3, <3>4, <3>5
    <3>7. QED
      BY <3>6 DEF TypingInv
  <2>7. QED
    BY <2>3, <2>4, <2>5, <2>6 DEF User
<1>5. QED
  BY <1>3, <1>4

LEMMA NextTypingInv == IInv /\ AnswerInv /\ TypingInv /\ [Next]_vars => TypingInv'
<1> SUFFICES ASSUME IInv, AnswerInv, TypingInv, [Next]_vars PROVE TypingInv'
  OBVIOUS
<1>1. CASE UNCHANGED vars
  <2>1. UNCHANGED <<UnderWay, Seen, Typed, Unannounced, lost, torn>>
    BY <1>1 DEF UnderWay, Seen, Typed, Unannounced, vars, ctrlVars, keybVars, userVars
  <2>2. QED
    BY <2>1, TypingKept
<1>2. CASE Next
  BY <1>1, <1>2, MainTyping, EntryTyping, IrqDataTyping, IrqSecondTyping, DeviceTyping, UserTyping
     DEF Next, Handler, Controller, Idle
<1>3. QED
  BY <1>1, <1>2

\* With nothing under way the states are equal.
LEMMA TypingInvFaithful == TypingInv => TypingFaithful
<1> SUFFICES ASSUME TypingInv, Quiet, lost = << >>, ~torn PROVE down = held /\ echo = text
  BY DEF TypingFaithful
<1>1. Leads(<< >>, <<down, echo, "first">>, <<held, text, "first">>)
  BY DEF TypingInv, Quiet, Unannounced, UnderWay, Seen, Typed
<1>2. <<down, echo, "first">> = <<held, text, "first">>
  BY <1>1, LeadsNowhere
<1>3. QED
  BY <1>2

-----------------------------------------------------------------------------
(* The theorems.                                                           *)

LEMMA IInvHolds == Spec => []IInv
BY InitIInv, NextIInv, PTL DEF Spec

\* Every variable keeps its type: a byte stays a byte through the bits the
\* controller sets and clears, loop counters stay in their bounds, and
\* keyboard.c prints only codes its tables have.
THEOREM TypeCorrect == Spec => []TypeOK
<1>1. IInv => TypeOK
  BY DEF IInv
<1>2. QED
  BY <1>1, IInvHolds, PTL

\* What i8042_init writes back is the configuration the controller has, even
\* if the handler took the controller's answer between wait_rx and inb.
THEOREM ConfigKeptHolds == Spec => []ConfigKept
BY IInvHolds, IInvConfigKept, PTL

\* However long i8042_init's loops and whatever interrupts them, its reads take
\* at most one byte of the keyboard's: the port is closed before the flush, and
\* nothing reopens it before the last read.
THEOREM OneByteLostHolds == Spec => []OneByteLost
<1>1. LossInv => OneByteLost
  BY DEF LossInv, OneByteLost
<1>2. QED
  BY <1>1, IInvHolds, InitLossInv, NextLossInv, PTL DEF Spec

\* Every early return of i8042_init leaves port A disabled, also when the
\* controller takes what main sent only after main has given up.
THEOREM FailedClosedHolds == Spec => []FailedClosed
<1>1. IInv => FailedClosed
  BY DEF IInv, MainInv, FailedClosed, Failed, PortOpen, Closed, Sent
<1>2. QED
  BY <1>1, IInvHolds, PTL

\* When every byte has been handled, keyboard.c believes held the modifiers
\* the user holds and has printed what the user typed, in order and in case,
\* however handler, i8042_init and controller interleave; the only ways to
\* spoil it are a byte i8042_init swallows and a second byte i8042_irq reads
\* too early.
THEOREM TypingFaithfulHolds == Spec => []TypingFaithful
<1>1. Init => AnswerInv /\ TypingInv
  BY InitAnswerInv, InitTypingInv
<1>2. IInv /\ AnswerInv /\ TypingInv /\ [Next]_vars => (AnswerInv /\ TypingInv)'
  BY NextAnswerInv, NextTypingInv
<1>3. QED
  BY <1>1, <1>2, IInvHolds, TypingInvFaithful, PTL DEF Spec

=============================================================================
