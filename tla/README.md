# TLA+ models of DuckyOS

DuckyOS is a small i686 kernel: it boots through GRUB, sets up paging, its
descriptor tables and the interrupt controllers, starts the keyboard, scans the
PCI buses and then spins while the keyboard's interrupt handler echoes what is
typed. Paths below are relative to `src/src/sys/`.

One processor runs everything. What is concurrent is the *main thread*
(`kernel_main`), the *handlers* that interrupt it, and the *hardware* that acts
between any two port accesses. There are no locks; the interrupt flag is the
only means of exclusion.

## Inventory

| Component | State | Operations | What makes it correct |
|---|---|---|---|
| Boot entry (`entry.s`, `kernel.ld`) | segments, stack | `_start`, `gdt_flush` | a kernel address means the same memory in every phase of the boot |
| `kernel.c`, `arch.c` | order of the boot | `kernel_main`, `arch_entry`, `arch_init`, the exception handlers | interrupts come on only when tables, controllers and handlers are ready |
| Interrupt stubs (`isr.s`) | the stack frame, the flag | `isr0`..`isr31`, `irq0`..`irq15` | `iret` finds the return address; no nesting |
| Dispatch (`irq.c`, `isr.h`) | `handlers[]` | `isr_set_handler`, `isr_handler`, `irq_handler_pic` | every acknowledge is ended, by exactly the right commands |
| PIC (`pic.c`), PIT (`pit.c`) | masks, vectors | `pic_init`, `pic_enable_line`, `pic_disable_line`, `pit_init` | remapped before interrupts are on; no edge lost |
| Terminal (`terminal.c`) | cursor, colour, page | `terminal_putchar` and the writers | the cursor stays on the page |
| i8042 driver (`drv/i8042.c`) | locals only | `i8042_init`, `i8042_irq` | init returns; the configuration byte survives; no key is lost after it |
| Keyboard (`keyboard.c`) | three modifier flags | `keyboard_handle` | the flags and the echo follow the user |
| Descriptor tables (`tables.c`) | GDT, IDT | `gdt_init`, `idt_init` | encodings decode to what was asked; the limits cover what is loaded |
| Paging (`paging.c`) | directory, two tables, `nMiscIndex` | `paging_init`, `paging_map` | kernel and low memory stay where they are; a mapping leads to what was asked for |
| PCI scan (`drv/pci/pci.c`) | loop counters | `pci_init` | what is listed is there; each device is listed, a single function once |
| Local APIC (`apic.c`, `apic.h`) | `apic`, the device | `apic_is_available`, `apic_init`, `apic_send_eoi` | stores take effect in their order; every interrupt is ended; the build also works without an APIC |
| CPU helpers (`util.h`) | none | `cpuid_test_feature`, `rdmsr`, `wrmsr`, port I/O | the right bit of the right register |

How they meet: `kernel_main` calls everything else; `isr.s` calls `irq.c`, which
calls the handler in `handlers[]`; `i8042_irq` calls `keyboard_handle`, which
calls `terminal_putchar`, which the main thread may be in the middle of. The
hard behaviours are therefore interleavings of the main thread with handlers
(terminal, driver initialisation), the order of the boot, the pairing of
acknowledge and end-of-interrupt, polling with bounded patience, and, before
any of that runs, addresses that go through segments and page tables which
change under the code. The list
with line numbers is under `hazards` in `PROJECT.json`.

## Modules

**`Interrupts`** - `kernel_main`'s boot order, the two 8259 controllers, the
frames of `isr.s`, the dispatch of `irq.c`. One action for each call of the boot
(`IdtInit` .. `ArchPostinit`), for the steps of installing a driver
(`SetHandler`, `EnableLine`, then `Drain` or the early return `GiveUp`), for
`pic_disable_line`/`pic_enable_line` on an installed line, for the entry of an
interrupt or exception (`Deliver`, `DeliverSpurious`, `Trap`) and for the steps
of a handler (`IrqHandlerPic`, `Dispatch`, `Sti`, `Iret`, or `Spin` for the
handlers that end in `while (1)`). `frames` is the stack of active stubs;
`above` counts the words between the saved registers and the return address.
`shadow` is the one instruction after `sti` during which the processor does not
look at the flag; `isr.s` relies on it. The controllers are external: requests
(`irr`) latch on the rising edge of a wire, an acknowledge puts a line (and the
cascade) in service, a non-specific end of interrupt takes out the first one,
and a request withdrawn at the wrong moment is answered with line 7 or 15.
The installation works for any set of driver lines; DuckyOS has the one of the
keyboard. Exceptions are raised by the main thread only, from `idt_init` on.
The build modelled is the shipped one, without `i686_USE_APIC`.

**`Terminal`**, **`TerminalAbs`** - `terminal.c`. The build sets no
optimisation, so `++terminal_column == VGA_WIDTH` is a load, a store and a
comparison of the register. The main thread's `terminal_putchar` is modelled at
that grain; a handler's runs with interrupts off and is one step (`Echo`).
`beyond` collects the indices of stores that miss the page. The writers
(`terminal_writestring`, `terminal_writehex`) fill `todo`, from which `Call`
takes one character at a time. `TerminalAbs` is the promise: one position, one
cell per character, start over when the page is full.

**`I8042`** - the driver and `keyboard.c`, with the controller and the user as
environment. `Program` is `i8042_init` as a list of its port accesses and loops;
`pc` walks it, `Failed` is an early return. `i8042_irq` is three steps, one for
each port access; `keyboard_handle` happens in the step that has read the code.
The controller has an output buffer (`obf`, `latch`: reading an empty buffer
returns the last byte), an input buffer of one entry that a second write
replaces, and a configuration byte. `kind` chooses among four controllers:
whether the next byte is there as soon as one is read (emulators) or later (the
wire), and whether answers to commands raise the keyboard's line. The self test
may pass or fail; it does not change the configuration byte. `lost` and `torn`
record the two ways in which the driver itself loses information: the bytes of
the keyboard's that `i8042_init` has read, and that a two-byte code was completed
from an empty buffer.

**`Paging`**, **`Boot`** - the way into the higher half; `Boot` extends
`Paging`. The kernel is linked 0xC0000000 above where it is loaded. At first the
bases of the segments make up the difference (0x40000000, the table in `.setup`
of `entry.s`), after `gdt_flush` the page tables do, and between `paging_init`
and `gdt_flush` both are on. `Boot` has one action for each instruction of
`_start` and `gdt_flush` that changes a register the address calculation uses,
one for each round of `paging_init`'s loop, one for each gate, then `IdtInit`
and the running kernel with interrupts (`Interrupt`, `Iret`) and `Map` for
`paging_map`. `Access` is what the processor does: add the segment base, walk the
tables. Descriptors are packed as `gdt_set_gate` and `idt_set_gate` do and
unpacked as the processor does. `paging_map` does not check its index; a store
behind the table hits one of the other tables or other memory, depending on the
linker, and the properties are stated for as long as that has not happened
(`Intact`), together with when exactly it does. In the shipped build nothing
calls `paging_map`; `apic_init` does in the other.

**`Pci`** - `pci_init` as three loops over `slots`, in which each slot of each bus
holds a card and a card says what each of its eight functions answers. Reading
the three registers of a function is one step: nothing else uses the ports. The
function number is cut to two bits as in the code.

**`Apic`** - the build with `i686_USE_APIC`, on processors with and without an
APIC (`ecx`, `edx` are what cpuid reports). `Layout` is `local_apic_t` field by
field, so that `BitOf` finds the bit address of a field by counting; the
processor's registers are given by their documented addresses, and a store takes
effect if the two agree, the APIC is on, and a mask is not being cleared while
the APIC is disabled. `apic_init` is the list of its stores, one a step, with
interrupts on. `Deliver...` are the three ways to be interrupted: the PIC, past
the APIC or through LINT0, its spurious line 7, and the APIC. A bit-field store
is one step, although the compiler reads, changes and writes the word: no
handler stores to the same register. The keyboard's driver is reduced to what
the PIC sees of it, as in `Interrupts`.

**`InterruptsProofs`**, **`TerminalProofs`**, **`I8042Proofs`**, **`PagingProofs`**,
**`BootProofs`**, **`PciProofs`**, **`ApicProofs`** - the theorems.
**`MCInterrupts`**, **`MCTerminal`**, **`MCI8042`**, **`MCBoot`**, **`MCPci`**,
**`MCApic`** - instances for TLC.

## Runs

| Run | Asks | Result |
|---|---|---|
| `interrupts` | the invariants of the interrupt path and that an open line is served | holds |
| `terminal_race` | cursor and stray stores with handlers printing inside `terminal_putchar` | holds |
| `terminal_atomic` | without them, does `terminal.c` implement `TerminalAbs` | holds |
| `terminal_newline` | the comment at `kernel.c:79` about newlines | violated |
| `i8042` | configuration byte, faithful typing, what the flush and an early return cost, init returns, keys served | holds |
| `i8042_writes` | "Must be clear before writing" (`i8042.c:12`) | violated |
| `i8042_reads` | "Must be set before reading" (`i8042.c:11`), handler | violated |
| `boot` | addresses at every instruction of the boot, gates, mappings | holds |
| `boot_gates` | "Sets our 5 gates and installs the real GDT" (`tables.c:60`) | violated |
| `pci` | what the scan lists, and that it ends | holds |
| `apic` | the APIC build, with and without an APIC | holds |
| `apic_periodic` | "Periodic" (`apic.c:71`) | violated |

What the properties say, beyond types:

* `InServiceClean`: whenever the main thread runs nothing is in service, so the
  end-of-interrupt commands match the acknowledges, spurious ones included.
* `IrqOnlyWhenReady`, `StackBounded`: although the stubs execute `sti` before
  `iret` even for an exception at boot, no interrupt comes in early or nests.
* `ReturnAddressOnTop`: stub lists and the processor's error codes agree for
  every vector ring 0 can raise. (Vector 17 is in the wrong list, but only
  ring 3 raises it.)
* `NoUnhandledIrq`, `NoLostInterrupt`, `KeyboardServed`: a line is opened after
  its handler is set; from the driver's flush on, no edge is lost.
* `NoNullEoi`: `timer_interrupt`, registered in the PIC build too, never runs.
* `CursorAtRest`: main's own register comparison repairs what handlers push off
  the page. It would not if the comparison reloaded the variable (the mutant).
* `StrayBounded`: until it is repaired, handlers may store below the page, at
  most `Burst` lines. A keystroke prints one character; the text page of 32 KiB
  has room for 204 lines and `VGA_HEIGHT` is 24, so stray text is visible or
  harmless for any realistic burst. Characters can still be lost.
* `ConfigKept`: the handler may take the controller's answer between `wait_rx`
  and `inb`; what main reads then is the same byte, still in the latch.
* `TypingFaithful`: when nothing is in flight, modifiers and echo are what the
  user did, unless the driver itself lost or tore a code. The next two say what
  the loss amounts to; what tearing does is shown by the run `i8042_reads`.
* `OneByteLost`: the flush reads 256 times without looking, and more reads
  follow, but the port is closed by then: of the keyboard's bytes it takes the
  one that was in the buffer, and no more.
* `StuckByLossOnly`: a shift that is stuck or missing afterwards is the key whose
  break or make that byte was; losing any other byte does not disturb the
  modifiers. The exception is the first half of a two-byte code, whose second
  half is then read as a key of its own.
* `FailedClosed`: after an early return, from whichever step, the port is closed
  or about to be, even if the controller takes the last command late. The
  keyboard is then dead, not half alive; nothing retries.
* `InitReturns`, `KeysServed`: liveness.
* `KernelInPlace`: at every instruction of the boot, code, stack, tables and text
  page are where the boot loader put them. Each of the three entries of the page
  directory is needed at some moment; without entry 0 the instruction after
  paging is switched on is gone.
* `StubReached`, `BootCompletes`: each vector decodes to its own stub, and no
  selector is loaded that the installed table does not have. `StubReached`
  speaks of intact page tables only: a call of `paging_map` too many can replace
  an entry that the descriptor tables are found through, depending on the
  linker's layout, and then the processor resets.
* `MapsFaithful`, `LowMemoryMapped`: the first 1024 addresses of `paging_map` are
  right and stay right, and the kernel is not disturbed by them; call 1025 is the
  first to store behind the table.
* `LinesSound`, `DevicesListed`, `SingleOnce`: the scan invents nothing. A device
  is listed with its first function below 4; all of those are listed if each has
  the multi-function bit; a single-function device is listed once.
* `LinesCounted`: what the mask 0x03 and the break cost, exactly. If all functions
  below 4 have the bit, each of them is listed twice and functions 4 to 7 never;
  otherwise the list ends at the first function without the bit, whichever
  function that is, and what is behind it is missing. No comment or document
  promises otherwise, so this is stated as what the code does. Bus 255 is not
  scanned.
* `ScanEnds`: `busid < 0xFF` in eight bits ends, `<=` would not.
* `ServiceClean`, `EoiMapped`: although `irq_handler_apic` ends nothing itself,
  nothing stays in service in the APIC, and `timer_interrupt` never stores
  through the null pointer. In the PIC a key that came in before LINT0 was
  masked does stay in service; `ServiceClean` says that this happens only on a
  processor with an APIC and only behind a PIC that is shut out for good. (On
  such a processor this build therefore has no keyboard.)
* `TimerConfigured`, `TimerServed`: for every state of the firmware, the APIC is
  on and the timer's entry is as stored, and a tick that is latched, or that a
  running count will latch, reaches `timer_interrupt`.
* `ShotKept`: the count is started while the entry is masked. The one shot is
  forgotten only if it ends between these two last stores of `apic_init`.
* `FallbackServed`: the same image on a processor without an APIC.

The five violations: the comment on newlines is outdated; `ENABLE_B` can
overwrite `ENABLE_A`, after which initialisation has succeeded and the keyboard
is dead; the second byte of a two-byte code is read without looking, so a slow
keyboard's `E0 2A` ends up as a shift key; the limit of the GDT leaves out the
two user segments (nothing uses them yet); the timer of the APIC is set to one
shot under a comment that says periodic.

### Bounds

* `Drivers = {1, 8}`: the keyboard's line and one of the second controller, so
  that priorities, the cascade and both forms of end of interrupt occur;
  `Faults` has a vector for each kind (returns, hangs, with and without error
  code); `MaxFaults = 1` because a second exception finds the same state.
* Page of 3 x 2 and `Burst = 2` for the race: columns and rows differ, both
  wraps and both overshoots occur, two handlers' characters meet one putchar. The
  theorems remove these bounds. 2 x 2 for the refinement, with a string of eight
  hexadecimal digits that goes round the page twice.
* `Polls = 2`, `Flush = 2`, `MaxKeys = 3`: polls can fail and succeed at either
  round; three events make a shifted letter, or a false shift around one. The
  code polls 0x2000 times and flushes 256 times; the loops have no other state.

* `Boot` scales the machine: 8 entries for 1024, pages of 1024 bytes, a nibble
  of 4 values, so that the address space is still `Entries * Entries * Page` and
  a double word, and every field of a descriptor keeps its share of it. The
  tables are small enough to walk for every page and to fill: `MaxMaps = 9` is
  one more than there are entries. Two requests, one with an offset in the page;
  four vectors, the first and the last gate among them.
* `Pci`: three values of the bus counter (two buses scanned, the last one not),
  two slots, five cards: none, one that ignores the function number, several
  functions, one of them above 3, with the bit everywhere or only in the first,
  one without function 0.
  All assignments of cards to slots are initial states.
* `Apic`: bit 9 in either feature register, a task priority of 0 or one that
  blocks, every combination of APIC off or on, enabled or not, LINT0 open or
  not. One spurious request at a time.

### Fairness

`Interrupts`: weak fairness of the main thread, of interrupt entry and of the
handler: the processor always executes and looks for interrupts at every
instruction boundary. Devices, exceptions and closing a line are not fair.
`I8042`: the same for the main thread, the handler and the interrupt. The
controller is fair only as an assumption of `KeysServed`; `InitReturns` holds
with one that never answers. `Terminal` states safety only. `Boot`, `Pci`: the
main thread. `Apic`: the main thread, the handlers, interrupt entry, and the
timer's count, which the bus clock drives; keys and ticks of the PIT are not
fair.

## Proofs

Checked by TLAPS for every value of the constants: the invariants of the passing
runs but one (`StuckByLossOnly`), the action property `ShotKept`, and the
refinement. None of the invariants below is inductive alone; each module
states the strengthening it needs, and TLC has checked those on the instances of
the runs.

* `InterruptsProofs`: `TypeOK`, `InServiceClean`, `IrqOnlyWhenReady`,
  `StackBounded`, `ReturnAddressOnTop`, `NoUnhandledIrq`, `NoLostInterrupt` and
  `NoNullEoi`, from the assumptions that drivers use lines other than the timer's
  and the cascade, and that ring 0 does not raise vector 17. `IInv` adds what a
  frame at each stage implies (`FrameInv`: before the
  end of interrupt at most the frame's line and the cascade are in service,
  afterwards nothing; the flag is off until `iret`, which is in the shadow; two
  words are above the return address until `sti`), that during the boot the main
  thread runs with the flag off, and that unmasked lines belong to installed
  drivers (`MainInv`, `HandlerInv`). One lemma for each group of actions;
  `EoiClears` is the fact about the end-of-interrupt commands.
* `TerminalProofs`: `TypeOK`, `CursorAtRest` and `StrayBounded` for every page
  size and every `Burst`. `CursorInv` says at which points the cursor may be off
  the page, in which coordinate and how far; `StoreBound` turns that into a bound
  on the index. `AtomicTerminalHolds` is the refinement of `TerminalAbs`, for
  `Burst = 0` and every page size: the store to the page is the abstract `Put` of
  a character, the store of the row that of a newline, a handler's putchar at
  rest is one `Put`, and every other step stutters. `CopyInv` adds that what the
  main thread has loaded is still current and that a full line has reset the
  column before it reaches the row's increment. `Burst = 0` is needed: with a
  handler in between the copies are stale, and the refinement fails.
* `I8042Proofs`: `TypeOK`, `ConfigKept`, `TypingFaithful`, `OneByteLost` and
  `FailedClosed` for every `Polls`, `Flush`, `MaxKeys` and set of configuration
  bytes. `MainInv` says, for each
  step of `i8042_init`, what it has sent, whether the controller has taken it,
  and where the answer is: in the latch while main waits for it, whoever reads the
  buffer, then in `in`. `BufferInv` says that the port is closed while an answer
  is due, so that no key can replace it. `LossInv` adds that once
  the flush has read a byte of the keyboard's, none is in the buffer again before
  main's last read. `TypingInv` relates the three places of a
  keystroke: the bytes under way lead from what `keyboard.c` has made of the
  earlier ones to what the user typed (`Leads`, stated by the sequence of states
  in between, so that bytes can be taken off the front and put on the end).
  `TypingFaithful` rests on one more assumption, `TranslationAssumption`: the
  firmware left scan code translation on. The driver requires it, since its key
  tables are those of set 1 and the line that would change the bit is commented
  out (`i8042.c:108`). Without it the property is false: a configuration byte that
  the handler takes in main's place may be the code of a letter, and is echoed.
  `ConfigKept` does not use it.
* `PagingProofs`: `PagingTypeOK`, `MapsFaithful` and `LowMemoryMapped` under
  `PagingSpec`, for every number of entries that is a multiple of four, every even
  page size, every place of the tables and every request. `LoopInv` is the state
  of `paging_init`'s loop, `DirectoryInv` what the three entries hold, `MapsInv`
  that entry `k` of the table belongs to the `k`-th call. The lemmas are about the
  arithmetic: an address is taken apart into two indices and an offset in one way
  only, and flags do not reach into the frame.
* `BootProofs`: the same two in the composed boot, `TypeOK`, `KernelInPlace` and
  `StubReached`, for every layout the linker may choose. Assumed are the sizes
  above, an even nibble (the base of the `.setup` segments is a quarter of the
  address space, put together from bytes), and that the kernel with its 48 stubs lies in the first `Span`, which
  is all that `paging_init` maps. `TableInv` says which tables are loaded and how
  far they are filled at each instruction, `SegmentInv` which bases the segments
  have; what a descriptor decodes to is a lemma about `gdt_set_gate` and
  `idt_set_gate`.
* `PciProofs`: `TypeOK`, `LinesSound`, `DevicesListed`, `LinesCounted` and
  `SingleOnce` for any number of buses and devices and any set of cards. `SingleOnce` needs to know
  where the lines so far can come from: `ScanInv` says from slots the scan has
  left, or from the current one if it is past function 0, which it never is in a
  slot whose function 0 is a single one. `DevicesListed` needs `HereListed`: in the
  current slot, what is behind the scan is listed and has the multi-function bit.
  `LinesCounted` needs `CountInv`: the current slot has one line for each number
  tried with success; `Twice` is the fact that numbers 0 to 7 cut to two bits meet
  each function below 4 twice.
  `Advance` is the fact that the counters only move on: the eight-bit bus counter
  does not wrap, because the loop stops one bus early.
* `ApicProofs`: `TypeOK`, `ServiceClean`, `EoiMapped`, `TimerConfigured` and
  `ShotKept` for every processor and every state of the firmware. The first third computes where the
  fields of `local_apic_t` lie: `BitsBefore` sums 63 widths, and the table
  `Offsets` is shown to be that sum by a least counterexample. `Passed(k)` is "the
  k-th store of `apic_init` is done"; `RegInv` says from which store on each
  register has its value, and that the timer can neither count nor be latched
  before its entry is configured; `FrameInv` that only the timer's handler, before
  it has acknowledged, runs with something in service.

Only model-checked: the liveness properties `KeyboardServed`, `InitReturns`,
`KeysServed`, `BootCompletes`, `ScanEnds`, `TimerServed` and `FallbackServed`
(the prover does not handle fairness), and `StuckByLossOnly`: it compares what the
bytes under way do to two different states, with the lost byte and without it,
which takes an induction over the sequence. The five violations are counterexamples
and need no proof.

## Plan

The modules are written and their invariants proved. What is left:

1. The safety half of the liveness properties, which can be proved: a measure
   that every step of `pci_init` decreases (`ScanEnds`), and one that every step
   of `i8042_init` decreases whatever the controller does (`InitReturns`), so that
   only the fairness of the main thread remains with TLC.
2. A composition of the driver with the terminal, so that `Burst` follows from
   what a handler prints.

## Not modelled

* `drv/pci/identifiers.h`, 9283 of the repository's 10919 lines. It is a table of
  vendor and device names generated from a web page. No file includes it and no
  code reads it, and it does not compile: some 180 rows have malformed numbers
  (`0x6O57` in line 1630, `0x 27B8` in line 2160). It has no behaviour, and a
  transcription into TLA+ would say nothing. Of the remaining, hand-written lines
  the map covers about five sixths; what it leaves out there is include lines,
  unused constants, and the helpers below.
* `write_pci_config`, `cpuid_get_signature`, `mdelay`, `inw`, `outw` (never
  called), `cpuid_vendor` (prints), `udelay` (waits), the prototypes in `pci.h`
  that have no definition.
* The translation buffer: `paging_map` only fills entries that were not present,
  and invalidates them.
* The wording of messages; exceptions inside handlers; the overflow of the
  keyboard's own buffer; reading a PCI bridge's bus numbers (the value is unused).
* `test.cpp` and `video/vga.h` (not built), build files.
