------------------------------- MODULE MCCores -------------------------------
(***************************************************************************)
(* Instances of the modules about booting and running the cores.  The      *)
(* value of part says which of them a behaviour is about; the variables of *)
(* the others keep an initial value.                                       *)
(***************************************************************************)
EXTENDS CoreDispatch, BringUp, Sequences

VARIABLES
    part,
    \* AcpiTables
    firmware, acpi_pc, position, root, acpi_index, table, offset, cores, per_core,
    local_apic_mapping,
    \* Boot
    machine, boot_pc, stage, fn, data, io_lock, bss_clear, have,
    \* DescriptorTables
    gdt_pc, gdt_i, ist1, tss, tr, ecx, idt

\* Root pointers: both revisions and a damaged one.
Pointers ==
    {[signature |-> TRUE, revision |-> 0, sum |-> TRUE],
     [signature |-> TRUE, revision |-> 2, sum |-> TRUE],
     [signature |-> TRUE, revision |-> 2, sum |-> FALSE]}

\* Root tables with one MADT, two and none, among null and other tables
\* (entry 0 is the null pointer, 3 another table).
Roots ==
    {[signature |-> "RSDT", sum |-> TRUE, entries |-> <<0, 3, 1>>],
     [signature |-> "XSDT", sum |-> TRUE, entries |-> <<1, 3, 2>>],
     [signature |-> "XSDT", sum |-> FALSE, entries |-> <<1>>]}

Processor(id) == [type |-> 0, length |-> 8, data |-> <<id + 4, id, 1, 0, 0, 0>>]
LongProcessor(id) == [type |-> 0, length |-> 10, data |-> <<id + 4, id, 1, 0, 0, 0, 0, 8>>]
ShortProcessor == [type |-> 0, length |-> 4, data |-> <<0, 8>>]
IoApic == [type |-> 1, length |-> 12, data |-> <<0, 8, 0, 8, 0, 8, 0, 8, 0, 8>>]
EmptyEntry == [type |-> 0, length |-> 0, data |-> <<>>]

\* MADTs with two cores among other entries, with none, with too many, with a
\* last entry that the table cuts off, with an entry of length 0, and damaged.
Table(s, e, c) == [sum |-> s, local_apic_address |-> Len(e), entries |-> e, cut |-> c]
Madts ==
    {Table(TRUE, <<IoApic, Processor(0), LongProcessor(3), ShortProcessor>>, 0),
     Table(TRUE, <<ShortProcessor, IoApic>>, 0),
     Table(TRUE, <<Processor(0), Processor(1), Processor(2)>>, 0),
     Table(TRUE, <<IoApic, Processor(5)>>, 6),
     Table(TRUE, <<Processor(0), EmptyEntry, Processor(1)>>, 0),
     Table(FALSE, <<Processor(0)>>, 0)}

Acpi == INSTANCE AcpiTables WITH MaxCoreCount <- 2, pc <- acpi_pc, index <- acpi_index

Booting == INSTANCE Boot WITH BssContents <- {0, 1}, pc <- boot_pc

\* LowBits is such that the segments of five cores cross both field boundaries.
Gdt == INSTANCE DescriptorTables WITH
    Cores <- 5, MaxCores <- 6, StackSize <- 16, Heap <- 64, TssBase <- 200,
    LowBits <- 7, MidBits <- 2, pc <- gdt_pc, i <- gdt_i

ASSUME MCCoresAssumption == Gdt!TableAssumption

start_vars == <<platform, start_pc, start_i, context, current, finished_with_current,
                destination, ipi, input, ap, regs, input_page, reported>>
ping_vars == <<ping_pc, target, generation, notification_generation, irr, flushes, handled>>
acpi_vars == <<firmware, acpi_pc, position, root, acpi_index, table, offset, cores, per_core,
               local_apic_mapping>>
boot_vars == <<machine, boot_pc, stage, fn, data, io_lock, bss_clear, have>>
gdt_vars == <<gdt_pc, gdt_i, ist1, tss, tr, ecx, idt>>
trap_vars == <<cpu, frame, saved, was, overlapped>>
mc_vars == <<part, vars, start_vars, ping_vars, acpi_vars, boot_vars, gdt_vars, trap_vars>>

\* Of the components that a behaviour is not about, one initial state is enough.
MCInit ==
    /\ part \in {"dispatch", "start", "ping", "acpi", "boot", "gdt", "trap"}
    /\ Init /\ Ping!Init /\ Gdt!Init /\ Trap!Init
    /\ Start!Init /\ (part # "start" => platform = "generic")
    /\ Acpi!Init
    /\ part # "acpi" => firmware = CHOOSE f \in [pointers : {<<>>}, rsdt : Roots, xsdt : Roots,
                                                 madt : [{1, 2} -> Madts]] : TRUE
    /\ Booting!Init
    /\ part # "boot" => io_lock = 0 /\ machine = [sev |-> FALSE, features |-> TRUE, hypervisor |-> FALSE,
           signature |-> "other", maxleaf |-> "low", hypercalls |-> FALSE, memory |-> TRUE,
           acpi |-> TRUE, debug |-> FALSE]

DispatchNext ==
    /\ part = "dispatch" /\ Next
    /\ UNCHANGED <<part, start_vars, ping_vars, acpi_vars, boot_vars, gdt_vars, trap_vars>>
StartNext ==
    /\ part = "start" /\ Start!Next
    /\ UNCHANGED <<part, vars, ping_vars, acpi_vars, boot_vars, gdt_vars, trap_vars>>
PingNext ==
    /\ part = "ping" /\ Ping!Next
    /\ UNCHANGED <<part, vars, start_vars, acpi_vars, boot_vars, gdt_vars, trap_vars>>
AcpiNext ==
    /\ part = "acpi" /\ Acpi!Next
    /\ UNCHANGED <<part, vars, start_vars, ping_vars, boot_vars, gdt_vars, trap_vars>>
BootNext ==
    /\ part = "boot" /\ Booting!Next
    /\ UNCHANGED <<part, vars, start_vars, ping_vars, acpi_vars, gdt_vars, trap_vars>>
GdtNext ==
    /\ part = "gdt" /\ Gdt!Next
    /\ UNCHANGED <<part, vars, start_vars, ping_vars, acpi_vars, boot_vars, trap_vars>>
TrapNext ==
    /\ part = "trap" /\ Trap!Next
    /\ UNCHANGED <<part, vars, start_vars, ping_vars, acpi_vars, boot_vars, gdt_vars>>

\* A machine that is shut down, or whose cores are all started or idle, stops.
Stopped == part \in {"dispatch", "start", "ping"} /\ UNCHANGED mc_vars

MCNext ==
    \/ DispatchNext \/ StartNext \/ PingNext \/ AcpiNext \/ BootNext \/ GdtNext \/ TrapNext
    \/ Stopped

\* The fairness of each component, in the behaviours about it.
MCFairness ==
    /\ WF_vars(part = "dispatch" /\ MainStep)
    /\ \A c \in Aps : /\ WF_vars(part = "dispatch" /\ ApStep(c))
                      /\ SF_vars(part = "dispatch" /\ JobReturns(c))
    /\ \A t \in Cores : WF_vars(part = "dispatch" /\ CallStep(t))
    /\ WF_start_vars(part = "start" /\ Start!PrimaryNext)
    /\ \A c \in Start!Cores : WF_start_vars(part = "start" /\ Start!ApNext(c))
    /\ \A c \in Ping!Cores : /\ WF_ping_vars(part = "ping" /\ Ping!Step(c))
                             /\ WF_ping_vars(part = "ping" /\ Ping!wakeup_handler(c))
    /\ WF_acpi_vars(part = "acpi" /\ Acpi!Next)

MCSpec == MCInit /\ [][MCNext]_mc_vars /\ MCFairness

-----------------------------------------------------------------------------
(* Properties of the other instances, as stated in their modules.            *)

\* parse_acpi finds the cores that the MADT of the firmware lists, and aborts
\* the boot only for damaged tables that are used.
FirmwareIsRead == Acpi!CoresMatchFirmware /\ Acpi!AbortsOnlyOnDamage

\* Every stage of startcc finds what it reads set up by earlier stages, and what
\* setup_hypervisor found out survives the clearing of the BSS; every vector has
\* a gate that fits what the processor pushes, and every core finds its own task
\* state segment, per-core data and interrupt stack.
BootIsSound ==
    /\ Booting!BootOrder /\ Booting!SettingsSurvive
    /\ Gdt!ExceptionsAreHandled /\ Gdt!CoreFindsItself /\ Gdt!StacksAreApart

\* Starting the cores comes to an end: parse_acpi does, exactly when it gets to
\* no MADT entry of length 0, on which its traversal stays for ever; so does
\* initialize_threads, whose handshake loses neither the IPI nor the answer for
\* any order of the two cores, unless a hypercall failed, which is only logged
\* and leaves it waiting; and so does every flush, with any number of cores
\* flushing at the same time.
BringUpEnds ==
    /\ part = "acpi" /\ ~Acpi!Endless ~> acpi_pc \in {"done", "abort"}
    /\ part = "acpi" /\ Acpi!Endless ~> [](acpi_pc = "count")
    /\ part = "start" ~> (start_pc = "ready" \/ reported)
    /\ Ping!FlushEnds

=============================================================================
