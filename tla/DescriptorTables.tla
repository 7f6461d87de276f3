-------------------------- MODULE DescriptorTables --------------------------
(***************************************************************************)
(* The tables through which the processor finds its handlers, its          *)
(* interrupt stack and its per-core data: setup_gdt writes one task state  *)
(* segment and one descriptor per core, every core loads its own (through  *)
(* install_gdt or in the context the hypervisor starts it with), and       *)
(* setup_idt_generic fills the interrupt table, which all cores share.     *)
(* Addresses and field widths are scaled down, distances are kept.         *)
(***************************************************************************)
EXTENDS Integers, FiniteSets

CONSTANTS
  Cores,      \* PerCoreData::get_num_cores()
  MaxCores,   \* MAX_CORE_COUNT
  StackSize,  \* INTERRUPT_STACK_SIZE
  Heap,       \* where early_alloc_zero places the stacks
  TssBase,    \* address of per_core_tss
  LowBits, MidBits  \* widths of base_low and of base_high (24 and 8)

TableAssumption ==
  /\ MaxCores \in Nat \ {0} /\ Cores \in 1..MaxCores /\ StackSize \in Nat \ {0}
  /\ Heap \in Nat /\ TssBase \in Nat /\ LowBits \in Nat /\ MidBits \in Nat

VARIABLES
  pc,     \* the primary core: "gdt", then through setup_idt_generic to "done"
  i,      \* loop counter of setup_gdt
  ist1,   \* the interrupt stack pointer in each task state segment, 0 if none
  tss,    \* base fields of each descriptor of the GDT: [low, mid, high]
  tr,     \* task register of each core: [selector, base], once it is loaded
  ecx,    \* counter of the loop of setup_idt_generic, in bytes
  idt     \* gates of the vectors that have one: [handler, status, trap, dpl]

vars == <<pc, i, ist1, tss, tr, ecx, idt>>

Vectors == 0..255
CoreIds == 0..Cores - 1
TssSize == 104
NoTr == [selector |-> 0, base |-> 0]

Init ==
  /\ pc = "gdt" /\ i = 0
  /\ ist1 = [c \in 0..MaxCores - 1 |-> 0]
  /\ tss = [c \in 0..MaxCores - 1 |-> [low |-> 0, mid |-> 0, high |-> 0]]
  /\ tr = [c \in CoreIds |-> NoTr]
  /\ ecx = 256 * 16 /\ idt = <<>>

-----------------------------------------------------------------------------
(* The GDT *)

\* Descriptors follow the null segment and five code and data segments.
TssOffset == 6 * 8

fill_tss ==
  [c \in 0..MaxCores - 1 |->
     LET p == TssBase + TssSize * c
     IN [low |-> p % 2^LowBits, mid |-> (p \div 2^LowBits) % 2^MidBits,
         high |-> p \div 2^(LowBits + MidBits)]]

StackTop(c) == Heap + (c + 1) * StackSize

\* The processor (and SegmentRegister) puts the base together again.
Base(c) == tss[c].low + tss[c].mid * 2^LowBits + tss[c].high * 2^(LowBits + MidBits)

TSS_SEG(c) == TssOffset + 16 * c + 3
LoadTr(c) == tr' = [tr EXCEPT ![c] = [selector |-> TSS_SEG(c), base |-> Base(c)]]

setup_gdt ==
  /\ pc = "gdt"
  /\ IF i = 0 THEN tss' = fill_tss ELSE UNCHANGED tss
  /\ IF i < Cores
     THEN ist1' = [ist1 EXCEPT ![i] = StackTop(i)] /\ i' = i + 1 /\ UNCHANGED <<pc, tr>>
     ELSE pc' = "exceptions" /\ LoadTr(0) /\ UNCHANGED <<ist1, i>>
  /\ UNCHANGED <<ecx, idt>>

\* Any other core, once the tables are there.
install_gdt(c) ==
  /\ pc = "done" /\ c # 0 /\ tr[c] = NoTr
  /\ LoadTr(c)
  /\ UNCHANGED <<pc, i, ist1, tss, ecx, idt>>

\* reset_per_core_pointer: the index into per_core_data that str leads to.
reset_per_core_pointer(selector) == (selector - 51) \div 16

-----------------------------------------------------------------------------
(* The IDT *)

Exception(handler, status) == [handler |-> handler, status |-> status, trap |-> TRUE, dpl |-> 0]
Interrupt(handler) == [handler |-> handler, status |-> FALSE, trap |-> FALSE, dpl |-> 0]

Reserved == {15, 29, 31} \cup 21..27
\* Gates of print_and_halt, against those of print_and_halt_no_status.
WithStatus == {8, 10, 11, 12, 13, 17, 30}
ExceptionGate(v) ==
  CASE v = 3 -> [Exception("breakpoint", FALSE) EXCEPT !.dpl = 3]
    [] v = 14 -> Exception("pagefault", TRUE)
    [] v \in Reserved -> Exception("reserved", FALSE)
    [] OTHER -> Exception("print_and_halt", v \in WithStatus)

WithGate(vector, gate) ==
  [v \in DOMAIN idt \cup {vector} |-> IF v = vector THEN gate ELSE idt[v]]

install_exceptions ==
  /\ pc = "exceptions"
  /\ idt' = [v \in 0..31 |-> ExceptionGate(v)]
  /\ pc' = "loop"
  /\ UNCHANGED <<i, ist1, tss, tr, ecx>>

\* The test follows the store, so that the loop ends one vector below 32 and
\* replaces the gate of vector 31.
LastInLoop == ecx - 16 < 32 * 16
install_interrupts ==
  /\ pc = "loop"
  /\ ecx' = ecx - 16
  /\ idt' = WithGate((ecx - 16) \div 16, Interrupt("nop"))
  /\ pc' = IF LastInLoop THEN "wakeup" ELSE "loop"
  /\ UNCHANGED <<i, ist1, tss, tr>>

\* The handler of the wakeup IPI, lidt and sti.
install_wakeup ==
  /\ pc = "wakeup"
  /\ idt' = WithGate(128, Interrupt("wakeup"))
  /\ pc' = "done"
  /\ UNCHANGED <<i, ist1, tss, tr, ecx>>

Finished == pc = "done" /\ (\A c \in CoreIds : tr[c] # NoTr) /\ UNCHANGED vars

Next ==
  \/ setup_gdt \/ install_exceptions \/ install_interrupts \/ install_wakeup
  \/ (\E c \in CoreIds : install_gdt(c)) \/ Finished

Spec == Init /\ [][Next]_vars

-----------------------------------------------------------------------------

\* Exceptions for which the processor pushes an error code.
PushesErrorCode == {8, 10, 11, 12, 13, 14, 17, 21, 29, 30}

\* Once interrupts are enabled every vector has a gate, and no exception that
\* the processor can raise outside confidential guests is taken by the empty
\* interrupt handler: its gate takes an error code off the stack exactly when
\* the processor has pushed one.
ExceptionsAreHandled ==
  pc = "done" =>
    /\ DOMAIN idt = Vectors
    /\ \A v \in 0..30 : idt[v].handler # "nop"
    /\ \A v \in (0..30) \ Reserved : idt[v].status <=> v \in PushesErrorCode

\* A core that has loaded its task register finds its own task state segment,
\* with the address in three pieces put together again, and
\* reset_per_core_pointer computes its own per-core data from it.
CoreFindsItself ==
  \A c \in CoreIds : tr[c] # NoTr => /\ tr[c].base = TssBase + TssSize * c
                                     /\ reset_per_core_pointer(tr[c].selector) = c

\* A core that has loaded its task register has an interrupt stack that lies
\* in the allocation, StackSize below its pointer, and that no other core uses.
StacksAreApart ==
  \A c \in CoreIds : tr[c] # NoTr =>
    /\ ist1[c] - StackSize >= Heap /\ ist1[c] <= Heap + Cores * StackSize
    /\ \A d \in CoreIds \ {c} : ist1[d] >= ist1[c] + StackSize \/ ist1[d] <= ist1[c] - StackSize
=============================================================================
