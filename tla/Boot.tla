-------------------------------- MODULE Boot --------------------------------
(***************************************************************************)
(* The way into the higher half: _start of entry.s, arch_entry's           *)
(* paging_init, gdt_init and idt_init, terminal_initialize, and exceptions *)
(* from there on.  The kernel is linked at KernelBase and loaded at the    *)
(* bottom of memory; first the bases of the segments, then the page tables *)
(* make up the difference.                                                 *)
(*                                                                         *)
(* The machine is scaled: a byte holds Nib * Nib values, a double word as  *)
(* many as there are addresses.                                            *)
(***************************************************************************)
EXTENDS Paging

CONSTANTS
  Nib,              \* values of half a byte, 16 on the i686
  Setup,            \* address of the boot GDT in .setup, linked where it is loaded
  Text, Stack,      \* addresses of _start and of stack_top
  Gdt, Idt,         \* addresses of gdt and idts
  Vga,              \* the text page, 0xB8000
  Vectors           \* interrupt vectors that may be raised

Byte == Nib * Nib
Word == Byte * Byte

ASSUME NibAssumption == Nib \in Nat /\ Nib >= 2 /\ Nib % 2 = 0 /\ Word * Word = Space
\* The kernel fits into its first Span, the 48 stubs behind _start included.
ASSUME LayoutAssumption ==
  /\ \A a \in {Text, Stack, Gdt, Idt} :
       a \in Nat /\ a > KernelBase /\ a < KernelBase + Span
  /\ Text + 48 < KernelBase + Span
  /\ Setup \in 0..Span - 1 /\ Vga \in 0..Span - 1 /\ Setup # LoadAddress(Gdt)
ASSUME VectorsAssumption == Vectors \subseteq 0..47

VARIABLES
  pc,               \* the next instruction or call of the boot
  cs, ds, ss,       \* bases of the segments as the processor caches them
  eip, esp,
  gdtr, idtr,       \* [base, limit]; idtr is [0, 0] before lidt
  gdt, idts,        \* the tables of tables.c
  num,              \* the next gate gdt_init sets
  vector            \* the vector whose stub runs

bootVars == <<pc, cs, ds, ss, eip, esp, gdtr, idtr, gdt, idts, num, vector>>
vars     == <<pagingVars, bootVars>>

-----------------------------------------------------------------------------
(* Descriptors, as tables.c packs them and the processor unpacks them.     *)

Descriptor == [base_low : 0..Word - 1, base_middle : 0..Byte - 1, base_high : 0..Byte - 1,
               limit_low : 0..Word - 1, granularity : 0..Byte - 1,
               access : {"null", "code", "data", "user_code", "user_data"}]
Gate       == [base_low : 0..Word - 1, base_high : 0..Word - 1,
               selector : {0, 8}, flags : {"absent", "interrupt"}]

HighHalf(b) == b - (b % Nib)

gdt_set_gate(base, limit, access, gran) ==
  [base_low    |-> base % Word,
   base_middle |-> (base \div Word) % Byte,
   base_high   |-> (base \div (Word * Byte)) % Byte,
   limit_low   |-> limit % Word,
   granularity |-> ((limit \div Word) % Nib) + HighHalf(gran),
   access      |-> access]

\* Mutant of idt_set_gate: the upper part of the address is cut to a byte.
idt_set_gate_byte(base, selector, flags) ==
  [base_low |-> base % Word, base_high |-> (base \div Word) % Byte,
   selector |-> selector, flags |-> flags]

idt_set_gate(base, selector, flags) ==
  [base_low |-> base % Word, base_high |-> (base \div Word) % Word,
   selector |-> selector, flags |-> flags]

SegmentBase(d)  == d.base_low + d.base_middle * Word + d.base_high * Word * Byte
SegmentLimit(d) == d.limit_low + (d.granularity % Nib) * Word    \* in granules
GateAddress(g)  == g.base_low + g.base_high * Word

\* 0xCF: granules and 32-bit code.  0xFFFFFFFF is the last address.
Flat    == Byte - 1
NoLimit == Space - 1
NullDescriptor == gdt_set_gate(0, 0, "null", 0)
NoGate  == [base_low |-> 0, base_high |-> 0, selector |-> 0, flags |-> "absent"]

\* The table of .setup: base 0x40000000.
FakeDescriptor(access) ==
  [base_low |-> 0, base_middle |-> 0, base_high |-> Byte \div 4,
   limit_low |-> Word - 1, granularity |-> Flat, access |-> access]
FakeGdt == <<NullDescriptor, FakeDescriptor("code"), FakeDescriptor("data")>>

DescriptorSize == 8
TableLimit(n)  == DescriptorSize * n - 1

-----------------------------------------------------------------------------
(* Memory as the processor sees it.                                        *)

Access(segment, address) == Translate((segment + address) % Space)

\* Where an address the code uses is meant to be.
Physical(address) == IF address >= KernelBase THEN LoadAddress(address) ELSE address

\* The descriptor the processor finds for entry n of the loaded table, if it
\* is within the limit, covers all of memory and has the right type.
Loaded(n, access) ==
  LET where == Translate(gdtr.base)
      table == CASE where = Setup            -> FakeGdt
                 [] where = LoadAddress(Gdt) -> gdt
                 [] OTHER                    -> << >>
  IN {d \in {table[k] : k \in (DOMAIN table) \cap {n + 1}} :
        /\ DescriptorSize * n + (DescriptorSize - 1) <= gdtr.limit
        /\ d.access = access /\ SegmentLimit(d) = Word * Nib - 1}

-----------------------------------------------------------------------------
(* The boot.                                                               *)

\* GRUB: flat segments, no paging, at the load address of _start.
Init ==
  /\ PagingStart
  /\ pc = "lgdt_fake"
  /\ cs = 0 /\ ds = 0 /\ ss = 0
  /\ eip = LoadAddress(Text) /\ esp = 0
  /\ gdtr = [base |-> 0, limit |-> 0] /\ idtr = [base |-> 0, limit |-> 0]
  /\ gdt = [n \in 1..5 |-> NullDescriptor]
  /\ idts = [v \in 0..255 |-> NoGate]
  /\ num = 0 /\ vector = 0

\* lgdt fake_gdt
LgdtFake ==
  /\ pc = "lgdt_fake" /\ pc' = "segments"
  /\ gdtr' = [base |-> Setup, limit |-> TableLimit(3)]
  /\ UNCHANGED <<cs, ds, ss, eip, esp, idtr, gdt, idts, num, vector>>

\* movw $0x10 to the data segment registers, in _start and in gdt_flush.  A
\* selector the table does not have resets the machine.
Segments ==
  /\ pc \in {"segments", "flush_segments"}
  /\ IF Loaded(2, "data") = {} THEN pc' = "reset" /\ UNCHANGED <<ds, ss>>
     ELSE \E d \in Loaded(2, "data") :
            /\ ds' = SegmentBase(d) /\ ss' = SegmentBase(d)
            /\ pc' = IF pc = "segments" THEN "ljmp" ELSE "flush_ljmp"
  /\ UNCHANGED <<cs, eip, esp, gdtr, idtr, gdt, idts, num, vector>>

\* ljmp $0x08, to highsegment and to flush: eip is now a linked address.
Ljmp ==
  /\ pc \in {"ljmp", "flush_ljmp"}
  /\ IF Loaded(1, "code") = {} THEN pc' = "reset" /\ UNCHANGED <<cs, eip>>
     ELSE \E d \in Loaded(1, "code") :
            /\ cs' = SegmentBase(d) /\ eip' = Text
            /\ pc' = IF pc = "ljmp" THEN "stack" ELSE "idt_init"
  /\ UNCHANGED <<ds, ss, esp, gdtr, idtr, gdt, idts, num, vector>>

\* movl $stack_top, %esp; call kernel_main
SetStack ==
  /\ pc = "stack" /\ pc' = "paging_init"
  /\ esp' = Stack
  /\ UNCHANGED <<cs, ds, ss, eip, gdtr, idtr, gdt, idts, num, vector>>

\* The five calls of gdt_set_gate.
Gates == <<NullDescriptor,
           gdt_set_gate(0, NoLimit, "code", Flat), gdt_set_gate(0, NoLimit, "data", Flat),
           gdt_set_gate(0, NoLimit, "user_code", Flat), gdt_set_gate(0, NoLimit, "user_data", Flat)>>

SetGate ==
  /\ pc = "gdt_init" /\ num < 5
  /\ gdt' = [gdt EXCEPT ![num + 1] = Gates[num + 1]]
  /\ num' = num + 1
  /\ UNCHANGED <<pc, cs, ds, ss, eip, esp, gdtr, idtr, idts, vector>>

\* Mutant of GdtLimit: the null descriptor is not counted.
GdtLimitTwo == TableLimit(2)

\* p_gdt.limit
GdtLimit == TableLimit(3)

\* lgdt p_gdt in gdt_flush: the base is the linked address of the table.
GdtFlush ==
  /\ pc = "gdt_init" /\ num = 5 /\ pc' = "flush_segments"
  /\ gdtr' = [base |-> Gdt, limit |-> GdtLimit]
  /\ UNCHANGED <<cs, ds, ss, eip, esp, idtr, gdt, idts, num, vector>>

\* The stub of a vector; stubs are apart.
Stub(v) == Text + 1 + v

\* idt_init: everything cleared, 48 gates set, lidt.
IdtInit ==
  /\ pc = "idt_init" /\ pc' = "terminal_initialize"
  /\ idts' = [v \in 0..255 |-> IF v < 48 THEN idt_set_gate(Stub(v), 8, "interrupt") ELSE NoGate]
  /\ idtr' = [base |-> Idt, limit |-> TableLimit(256)]
  /\ UNCHANGED <<cs, ds, ss, eip, esp, gdtr, gdt, num, vector>>

\* The rest of the boot: from here on only the text page is new.
TerminalInitialize ==
  /\ pc = "terminal_initialize" /\ pc' = "run"
  /\ UNCHANGED <<cs, ds, ss, eip, esp, gdtr, idtr, gdt, idts, num, vector>>

Main ==
  \/ /\ LgdtFake \/ Segments \/ Ljmp \/ SetStack \/ SetGate \/ GdtFlush
        \/ IdtInit \/ TerminalInitialize
     /\ UNCHANGED pagingVars
  \/ /\ pc = "paging_init" /\ PagingInit
     /\ pc' = IF phase' = "ready" THEN "gdt_init" ELSE pc
     /\ UNCHANGED <<cs, ds, ss, eip, esp, gdtr, idtr, gdt, idts, num, vector>>

\* paging_map is the drivers' to call once the kernel runs.
Map(r) == pc = "run" /\ PagingMap(r) /\ UNCHANGED bootVars

\* The gate the processor finds for a vector, if it is one it can enter.
Entered(v) ==
  {g \in {idts[v]} :
     /\ Translate(idtr.base) = LoadAddress(Idt)
     /\ DescriptorSize * v + (DescriptorSize - 1) <= idtr.limit
     /\ g.flags = "interrupt" /\ g.selector = DescriptorSize
     /\ Loaded(1, "code") # {}}

\* An interrupt or exception goes through its gate, or resets the machine.
Interrupt(v) ==
  /\ pc = "run" /\ vector' = v
  /\ IF Entered(v) = {} THEN pc' = "reset" /\ UNCHANGED <<cs, eip>>
     ELSE \E g \in Entered(v), d \in Loaded(1, "code") :
            pc' = "stub" /\ cs' = SegmentBase(d) /\ eip' = GateAddress(g)
  /\ UNCHANGED <<pagingVars, ds, ss, esp, gdtr, idtr, gdt, idts, num>>

\* The stub reloads the data segments; iret resumes the main thread.
Iret ==
  /\ pc = "stub" /\ pc' = "run" /\ eip' = Text
  /\ \E d \in Loaded(2, "data") : ds' = SegmentBase(d)
  /\ UNCHANGED <<pagingVars, cs, ss, esp, gdtr, idtr, gdt, idts, num, vector>>

\* while (1), or a machine that has reset.
Idle == pc \in {"run", "reset"} /\ UNCHANGED vars

Next ==
  \/ Main \/ Idle \/ Iret
  \/ \E r \in Requests : Map(r)
  \/ \E v \in Vectors : Interrupt(v)

Spec == Init /\ [][Next]_vars /\ WF_vars(Main)

-----------------------------------------------------------------------------
(* Properties.                                                             *)

Running == {"terminal_initialize", "run", "stub"}
InC     == {"paging_init", "gdt_init", "flush_segments", "flush_ljmp", "idt_init"} \cup Running

TypeOK ==
  /\ PagingTypeOK
  /\ pc \in {"lgdt_fake", "segments", "ljmp", "stack", "reset"} \cup InC
  /\ {cs, ds, ss, eip, esp} \subseteq 0..Space - 1
  /\ gdtr \in [base : Nat, limit : Nat] /\ idtr \in [base : Nat, limit : Nat]
  /\ gdt \in [1..5 -> Descriptor] /\ idts \in [0..255 -> Gate]
  /\ num \in 0..5 /\ vector \in 0..255

\* At every instruction of the boot, whatever the segments and the page
\* tables are at that moment, code, stack, tables and (once it is used) the
\* text page are found in memory where the boot loader put them, as long as
\* paging_map stays within its table.
KernelInPlace ==
  Intact =>
    /\ Access(cs, eip) = Physical(eip)
    /\ pc \in InC => Access(ss, esp) = Physical(esp)
    /\ pc \in InC => \A a \in {Dir, Low, Misc, Gdt, Idt} : Access(ds, a) = Physical(a)
    /\ pc \in Running => Access(ds, Vga) = Vga

\* A vector leads to its own stub, with flat segments, and never to a reset,
\* unless paging_map has stored behind its table: then the processor may find
\* no descriptor, or those of .setup.
StubReached ==
  Intact => pc # "reset" /\ (pc = "stub" => eip = Stub(vector) /\ cs = 0)

\* The boot never stops at a selector or an address that is not there.
BootCompletes == <>(pc = "run")

\* tables.c: "Sets our 5 gates and installs the real GDT".
FiveGates ==
  pc \in Running => \A n \in 1..4 : \E a \in {"code", "data", "user_code", "user_data"} :
                      Loaded(n, a) # {}

=============================================================================
