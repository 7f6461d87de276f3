------------------------------ MODULE MCRuntime ------------------------------
(***************************************************************************)
(* Instances of the modules about the runtime library.  The value of part  *)
(* says which of them a behaviour is about; the variables of the others    *)
(* keep an initial value.                                                  *)
(***************************************************************************)
EXTENDS Once, Sequences

CONSTANTS
    None, Null, Compartments,
    \* TlsSlots
    SlotThreads,    \* the threads that use slots
    GLOBAL_DYNAMIC_TLS_SIZE, COMPARTMENT_DYNAMIC_TLS_SIZE, UINT16_MAX, Values, MaxStored,
    \* StaticTls
    BlockThreads,   \* the threads that have a block
    TBSS_ALIGNMENT, TdataAlignment, MaxTdata, MaxTbss, TcbSize, Addresses

VARIABLES
    part,
    \* TlsSlots
    current_dynamic_tls_slot, compartment_dynamic_tls_slot, dynamic_tls, slot_pc, loaded,
    core_keys, keys, overlapped,
    \* StaticTls
    tdata_start, tdata_size, tbss_size, memory, tls_base, fresh,
    \* Ticks
    machine, tsc_freq, start, elapsed, booted, ticks_at_boot, time_at_boot, boot,
    \* Console
    log_pc, log_position, left, writing, aborts, io_lock, uart, writes,
    \* LogNumber
    number_pc, kind, number, value, base, num_digits, temp_value, current_digit, position, text

Slots == INSTANCE TlsSlots WITH Threads <- SlotThreads, pc <- slot_pc

Static == INSTANCE StaticTls WITH Threads <- BlockThreads, base <- tls_base

\* A counter of a few bits: it wraps around within a behaviour that starts at
\* 230, and the largest products just fit.  The product of init_kvm fits at 14
\* and is truncated at 18 and 26.  main.cc passes whole seconds; init_timing
\* takes any time.
Machines ==
    [platform : {"hyperv"}, freq : {3, 7, 26}] \cup [platform : {"sev"}, freq : {8, 24}]
      \cup [platform : {"kvm"}, freq : {2, 14, 18, 26}] \cup [platform : {"none"}, freq : {3, 5, 12}]
Time == INSTANCE Ticks WITH
    Width <- 8, FreqWidth <- 4, DefaultFreq <- 5, NS_IN_S <- 10, Kilo <- 2, Mega <- 4,
    Starts <- {0, 230}, MaxElapsed <- 34,
    BootTimes <- {[sec |-> 3, ns |-> 0], [sec |-> 3, ns |-> 7]}

\* Strings that fit, that fit the rest of a buffer and that do not.
Log == INSTANCE Console WITH
    Cores <- {CHOOSE t \in Threads : TRUE, CHOOSE t \in Threads : t # CHOOSE u \in Threads : TRUE},
    BufferSize <- 4, Lengths <- {1, 3}, NumberLength <- 2, Digits <- {1, 2}, MaxWrites <- 3,
    pc <- log_pc, position <- log_position

\* Every number of eight bits, with every amount of space.
Numbers == INSTANCE LogNumber WITH
    Width <- 8, Buffer <- 6, UnsignedLength <- 3, SignedLength <- 4, HexLength <- 4,
    pc <- number_pc

ASSUME MCRuntimeAssumptions ==
    /\ Slots!SlotsAssumption /\ Static!TlsAssumption /\ Time!TicksAssumption
    /\ Log!ConsoleAssumption

slot_vars == <<current_dynamic_tls_slot, compartment_dynamic_tls_slot, dynamic_tls, slot_pc, loaded,
               core_keys, keys, overlapped>>
static_vars == <<tdata_start, tdata_size, tbss_size, memory, tls_base, fresh>>
time_vars == <<machine, tsc_freq, start, elapsed, booted, ticks_at_boot, time_at_boot, boot>>
log_vars == <<log_pc, log_position, left, writing, aborts, io_lock, uart, writes>>
number_vars == <<number_pc, kind, number, value, base, num_digits, temp_value, current_digit,
                 position, text>>
mc_vars == <<part, vars, slot_vars, static_vars, time_vars, log_vars, number_vars>>

MCInit ==
    /\ part \in {"once", "slots", "static", "time", "log", "number"}
    /\ Init /\ Slots!Init /\ Log!Init
    /\ Static!Init /\ (part # "static" => tdata_start = 0 /\ tdata_size = 0 /\ tbss_size = 0)
    /\ Time!Init /\ (part # "time" => machine = [platform |-> "none", freq |-> 5] /\ start = 0)
    /\ Numbers!Init
    /\ part # "number" => kind = "unsigned" /\ number.magnitude = 0 /\ position = 0

OnceNext ==
    part = "once" /\ Next /\ UNCHANGED <<part, slot_vars, static_vars, time_vars, log_vars, number_vars>>
SlotsNext ==
    part = "slots" /\ Slots!Next /\ UNCHANGED <<part, vars, static_vars, time_vars, log_vars, number_vars>>
StaticNext ==
    part = "static" /\ Static!Next /\ UNCHANGED <<part, vars, slot_vars, time_vars, log_vars, number_vars>>
TimeNext ==
    part = "time" /\ Time!Next /\ UNCHANGED <<part, vars, slot_vars, static_vars, log_vars, number_vars>>
LogNext ==
    part = "log" /\ Log!Next /\ UNCHANGED <<part, vars, slot_vars, static_vars, time_vars, number_vars>>
NumberNext ==
    part = "number" /\ Numbers!Next /\ UNCHANGED <<part, vars, slot_vars, static_vars, time_vars, log_vars>>

\* Slots and blocks may all be in use, writes reach their bound, and a number is
\* logged.
Stopped == part \in {"slots", "static", "log", "number"} /\ UNCHANGED mc_vars

MCNext == OnceNext \/ SlotsNext \/ StaticNext \/ TimeNext \/ LogNext \/ NumberNext \/ Stopped

MCSpec == MCInit /\ [][MCNext]_mc_vars

-----------------------------------------------------------------------------
(* Properties of the instances, as stated in their modules.                  *)

\* Keys of the core and of compartments stay in their half of the array, no key
\* is given twice, and is_slot_valid accepts exactly the keys that
\* allocate_tls_slot has returned: in compartments always, for the threads of
\* the core until two of their unsynchronised calls overlap.  No context writes
\* to the control block of another, and each finds its thread-local variables
\* with their initial values.
TlsIsKept ==
    /\ Slots!KeysStayInRange /\ Slots!ValidKeysAreGiven /\ Slots!KeysAreNew
    /\ Static!ControlBlocksAreKept /\ Static!VariablesStartInitialized

\* A reading of a clock is behind the real time by less than a tick and a
\* nanosecond; where tsc_freq is not the frequency of the machine, behind the
\* time that passes with tsc_freq ticks a second.
ClockIsExact == Time!ClockIsExact

\* The characters of a write appear together and in order, io_lock is held only
\* by a core that is writing, a log entry never outgrows the buffer of its
\* stream, and what log_u64 has written reads as the number.
OutputIsWhole ==
    /\ Log!WritesAreWhole /\ Log!LockIsNotLost /\ Log!EntriesFitTheBuffer
    /\ Numbers!TextIsTheNumber

=============================================================================
