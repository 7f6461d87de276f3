------------------------------ MODULE Console ------------------------------
(***************************************************************************)
(* Log messages and output of compartments on their way to the serial      *)
(* port.  Each core collects an entry in the buffer of its own stream and  *)
(* writes it out under a lock.  A character is abstracted to the write it  *)
(* belongs to and its place in it.                                         *)
(***************************************************************************)
EXTENDS Naturals, Sequences

CONSTANTS
    Cores,
    BufferSize,     \* CURRENT_LOG_BUFFER_SIZE
    Lengths,        \* of the strings that are logged
    NumberLength,   \* space that must be left for a number to be logged
    Digits,         \* lengths of the numbers that are logged
    None,
    MaxWrites       \* bound: entries and compartment writes, of all cores

ConsoleAssumption ==
    /\ BufferSize \in Nat /\ NumberLength \in Nat /\ MaxWrites \in Nat
    /\ Lengths \subseteq Nat /\ Digits \subseteq 1..NumberLength

VARIABLES
    pc,
    position,   \* of each core: characters in the buffer of its stream
    left,       \* of each core: characters that remain to be written
    writing,    \* of each core: the number of its current write
    aborts,     \* of each core: the callback is aborted after this entry
    io_lock,
    uart,       \* what has been written to the port
    writes      \* history: writes started

vars == <<pc, position, left, writing, aborts, io_lock, uart, writes>>

Init ==
    /\ pc = [c \in Cores |-> "run"] /\ position = [c \in Cores |-> 0]
    /\ left = [c \in Cores |-> 0] /\ writing = [c \in Cores |-> 0]
    /\ aborts = [c \in Cores |-> FALSE]
    /\ io_lock = None /\ uart = <<>> /\ writes = 0

Remaining(c) == BufferSize - position[c]
Smaller(a, b) == IF a < b THEN a ELSE b

-----------------------------------------------------------------------------
(* LoggerStream *)

LogString(c, length) ==
    /\ pc[c] = "run" /\ writes < MaxWrites
    /\ position' = [position EXCEPT ![c] = @ + Smaller(length, Remaining(c))]
    /\ UNCHANGED <<pc, left, writing, aborts, io_lock, uart, writes>>

\* A number, or a pointer with its prefix: all of it or nothing.
LogNumber(c, digits) ==
    /\ pc[c] = "run" /\ writes < MaxWrites
    /\ Remaining(c) >= NumberLength
    /\ position' = [position EXCEPT ![c] = @ + digits]
    /\ UNCHANGED <<pc, left, writing, aborts, io_lock, uart, writes>>

\* The buffer and a new line are passed to kwritev_stdout.
output_log_entry(c) == left' = [left EXCEPT ![c] = position[c] + 1]

\* flush
Endl(c) ==
    /\ pc[c] = "run" /\ writes < MaxWrites
    /\ output_log_entry(c)
    /\ writing' = [writing EXCEPT ![c] = writes + 1] /\ writes' = writes + 1
    /\ pc' = [pc EXCEPT ![c] = "acquire"]
    /\ UNCHANGED <<position, aborts, io_lock, uart>>

-----------------------------------------------------------------------------
(* kwritev_stdout and kwritev_stdout_protected *)

\* Output of a compartment: buffers it may not read are reported and the
\* callback is aborted, before the lock is taken.
kwritev_stdout_protected(c, length, owned) ==
    /\ pc[c] = "run" /\ position[c] = 0 /\ writes < MaxWrites
    /\ writing' = [writing EXCEPT ![c] = writes + 1] /\ writes' = writes + 1
    /\ IF owned
         THEN left' = [left EXCEPT ![c] = length] /\ UNCHANGED <<position, aborts>>
         ELSE /\ position' = [position EXCEPT ![c] = BufferSize]
              /\ left' = [left EXCEPT ![c] = BufferSize + 1]
              /\ aborts' = [aborts EXCEPT ![c] = TRUE]
    /\ pc' = [pc EXCEPT ![c] = "acquire"]
    /\ UNCHANGED <<io_lock, uart>>

\* Mutant: the lock is taken whoever holds it.
Acquire_Always(c) ==
    /\ pc[c] = "acquire" /\ io_lock' = c
    /\ pc' = [pc EXCEPT ![c] = "put"]
    /\ UNCHANGED <<position, left, writing, aborts, uart, writes>>

Acquire(c) ==
    /\ pc[c] = "acquire" /\ io_lock = None /\ io_lock' = c
    /\ pc' = [pc EXCEPT ![c] = "put"]
    /\ UNCHANGED <<position, left, writing, aborts, uart, writes>>

uartputc(c) ==
    /\ pc[c] = "put" /\ left[c] > 0
    /\ uart' = Append(uart, [write |-> writing[c], left |-> left[c]])
    /\ left' = [left EXCEPT ![c] = @ - 1]
    /\ UNCHANGED <<pc, position, writing, aborts, io_lock, writes>>

Unlocked(c) == None

\* The lock goes out of scope, the stream is reset, and a callback that is to be
\* aborted is.
Release(c) ==
    /\ pc[c] = "put" /\ left[c] = 0
    /\ io_lock' = Unlocked(c)
    /\ position' = [position EXCEPT ![c] = 0]
    /\ aborts' = [aborts EXCEPT ![c] = FALSE]
    /\ pc' = [pc EXCEPT ![c] = "run"]
    /\ UNCHANGED <<left, writing, uart, writes>>

Next ==
    \E c \in Cores :
        \/ \E n \in Lengths : LogString(c, n)
        \/ \E n \in Lengths, owned \in BOOLEAN : kwritev_stdout_protected(c, n, owned)
        \/ \E n \in Digits : LogNumber(c, n)
        \/ Endl(c) \/ Acquire(c) \/ uartputc(c) \/ Release(c)

Spec == Init /\ [][Next]_vars

-----------------------------------------------------------------------------
(* Properties. *)

\* The characters of a write appear together, in order and to the last one,
\* whatever other cores write at the time.
WritesAreWhole ==
    \A i \in 1..Len(uart) - 1 :
        \/ uart[i + 1].write = uart[i].write /\ uart[i + 1].left = uart[i].left - 1
        \/ uart[i + 1].write # uart[i].write /\ uart[i].left = 1

\* An entry never outgrows the buffer of its stream, and an entry that is being
\* written is not changed.
EntriesFitTheBuffer == \A c \in Cores : position[c] <= BufferSize

\* The lock is held only by a core that is writing: it is not lost, also when
\* the callback of a compartment is aborted.
LockIsNotLost == io_lock # None => pc[io_lock] = "put"

=============================================================================
