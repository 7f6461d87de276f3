----------------------------- MODULE QemuEnclave -----------------------------
(***************************************************************************)
(* Guests that host processes run under QEMU (QemuEnclavePlatform): the    *)
(* QEMU process, its monitor socket and the file of the shared memory, by  *)
(* the names that instances give them.  Names end in an id drawn from a    *)
(* generator with the default seed, so that the n-th instances of all      *)
(* processes have the same names.  Processes run at the same time or one   *)
(* after the other, and are killed at any time; their QEMU lives on.       *)
(***************************************************************************)
EXTENDS Naturals

CONSTANTS
    Runs,       \* bound: host processes
    PerHost,    \* bound: instances of each of them
    None

Instances == (1..Runs) \X (1..PerHost)

QemuAssumption == Runs \in Nat /\ PerHost \in Nat /\ None \notin Instances

Host(i) == i[1]
instance_id(i) == i[2]

VARIABLES
    pc,         \* of each instance: what the host is doing with it
    qemu,       \* of each instance: the state of its QEMU process
    terminated, \* instances whose QEMU was sent SIGTERM
    monitor,    \* of each id: the QEMU that made the socket of that name
    shmem,      \* ids whose shared memory file exists
    joined,
    ended,      \* host processes that have ended
    ran,        \* history: async_run was called
    alone       \* history: no other process has used the name since construction

vars == <<pc, qemu, terminated, monitor, shmem, joined, ended, ran, alone>>
history == <<ran, alone>>

Init ==
    /\ pc = [i \in Instances |-> "none"] /\ qemu = [i \in Instances |-> "none"]
    /\ terminated = {} /\ monitor = [n \in 1..PerHost |-> None] /\ shmem = {}
    /\ joined = [i \in Instances |-> FALSE] /\ ended = {}
    /\ ran = [i \in Instances |-> FALSE] /\ alone = [i \in Instances |-> FALSE]

Alive(i) == Host(i) \notin ended

\* The instance is used by a process that runs.
Going(i) == Alive(i) /\ pc[i] \notin {"none", "failed", "destroyed"}
Rivals(i) == {j \in Instances : j # i /\ instance_id(j) = instance_id(i)}

At(i, p) == Alive(i) /\ pc[i] = p
Goto(i, p) == pc' = [pc EXCEPT ![i] = p]

-----------------------------------------------------------------------------
(* The constructor. *)

\* Only the socket is removed, not the file of the shared memory.  The instance
\* is alone from here on if no other instance of its name is in use, no QEMU of
\* its name is still being started, and none comes to be used.
RemoveStale(i) ==
    /\ At(i, "none") /\ Goto(i, "spawn")
    /\ monitor' = [monitor EXCEPT ![instance_id(i)] = None]
    /\ alone' = [j \in Instances |->
                    IF j = i THEN \A r \in Rivals(i) : ~Going(r) /\ qemu[r] # "starting"
                             ELSE alone[j] /\ ~(j \in Rivals(i) /\ Going(j))]
    /\ UNCHANGED <<qemu, terminated, shmem, joined, ended, ran>>

posix_spawn(i) ==
    /\ At(i, "spawn") /\ Goto(i, "wait")
    /\ qemu' = [qemu EXCEPT ![i] = "starting"]
    /\ UNCHANGED <<terminated, monitor, shmem, joined, ended, history>>

\* A failure is not noticed: qemu_pid stays 0.
SpawnFails(i) ==
    /\ At(i, "spawn") /\ Goto(i, "wait")
    /\ UNCHANGED <<qemu, terminated, monitor, shmem, joined, ended, history>>

WaitForMonitor(i) ==
    /\ At(i, "wait") /\ monitor[instance_id(i)] # None
    /\ Goto(i, "map") /\ UNCHANGED <<qemu, terminated, monitor, shmem, joined, ended, history>>

Map(i) ==
    /\ At(i, "map") /\ Goto(i, "ready")
    /\ UNCHANGED <<qemu, terminated, monitor, shmem, joined, ended, history>>

\* Mutant: QEMU is left running.
cleanup_NoKill(i) ==
    /\ monitor' = [monitor EXCEPT ![instance_id(i)] = None]
    /\ UNCHANGED terminated

\* SIGTERM is sent if there is a pid.
cleanup(i) ==
    /\ terminated' = IF qemu[i] = "none" THEN terminated ELSE terminated \cup {i}
    /\ monitor' = [monitor EXCEPT ![instance_id(i)] = None]

\* shm_open or mmap fails: the constructor cleans up and throws.
MapFails(i) ==
    /\ At(i, "map") /\ Goto(i, "failed") /\ cleanup(i)
    /\ UNCHANGED <<qemu, shmem, joined, ended, history>>

-----------------------------------------------------------------------------
(* Operations of an instance. *)

\* "cont" is sent to whichever QEMU listens.
async_run(i) ==
    LET listener == monitor[instance_id(i)] IN
    /\ At(i, "ready") /\ ran' = [ran EXCEPT ![i] = TRUE]
    /\ qemu' = [j \in Instances |->
                    IF j = listener /\ qemu[j] = "paused" THEN "running" ELSE qemu[j]]
    /\ UNCHANGED <<pc, terminated, monitor, shmem, joined, ended, alone>>

join(i) ==
    /\ At(i, "ready") /\ Goto(i, IF joined[i] THEN "ready" ELSE "joining")
    /\ UNCHANGED <<qemu, terminated, monitor, shmem, joined, ended, history>>

Destroy(i) ==
    /\ At(i, "ready") /\ Goto(i, IF joined[i] THEN "cleanup" ELSE "destroying")
    /\ UNCHANGED <<qemu, terminated, monitor, shmem, joined, ended, history>>

\* What waitpid may reap: without a pid, any child of the process.  It fails at
\* once when there is none.
Awaited(i) ==
    {j \in Instances : /\ qemu[j] \notin {"none", "reaped"}
                       /\ IF qemu[i] = "none" THEN Host(j) = Host(i) ELSE j = i}

waitpid(i) ==
    /\ Alive(i) /\ pc[i] \in {"joining", "destroying"}
    /\ \/ Awaited(i) = {} /\ UNCHANGED qemu
       \/ \E j \in Awaited(i) : qemu[j] = "exited" /\ qemu' = [qemu EXCEPT ![j] = "reaped"]
    /\ joined' = [joined EXCEPT ![i] = TRUE]
    /\ Goto(i, IF pc[i] = "joining" THEN "ready" ELSE "cleanup")
    /\ UNCHANGED <<terminated, monitor, shmem, ended, history>>

\* The end of the destructor.
Cleanup(i) ==
    /\ At(i, "cleanup") /\ Goto(i, "destroyed") /\ cleanup(i)
    /\ UNCHANGED <<qemu, shmem, joined, ended, history>>

-----------------------------------------------------------------------------
(* QEMU and the operating system. *)

\* QEMU creates its memory file unless there is one, and then the socket; with
\* -S the guest is not run yet.
QemuMemory(i) ==
    /\ qemu[i] = "starting" /\ instance_id(i) \notin shmem
    /\ shmem' = shmem \cup {instance_id(i)}
    /\ UNCHANGED <<pc, qemu, terminated, monitor, joined, ended, history>>

QemuMonitor(i) ==
    /\ qemu[i] = "starting" /\ instance_id(i) \in shmem
    /\ qemu' = [qemu EXCEPT ![i] = "paused"]
    /\ monitor' = [monitor EXCEPT ![instance_id(i)] = i]
    /\ UNCHANGED <<pc, terminated, shmem, joined, ended, history>>

\* The guest has shut down, or SIGTERM has arrived.
QemuExits(i) ==
    /\ qemu[i] = "running" \/ (i \in terminated /\ qemu[i] \in {"starting", "paused"})
    /\ qemu' = [qemu EXCEPT ![i] = "exited"]
    /\ UNCHANGED <<pc, terminated, monitor, shmem, joined, ended, history>>

\* A host process ends or is killed, at any point.
HostEnds(h) ==
    /\ h \notin ended /\ ended' = ended \cup {h}
    /\ UNCHANGED <<pc, qemu, terminated, monitor, shmem, joined, history>>

HostStep(i) ==
    \/ RemoveStale(i) \/ posix_spawn(i) \/ SpawnFails(i) \/ WaitForMonitor(i)
    \/ Map(i) \/ MapFails(i)
    \/ async_run(i) \/ join(i) \/ Destroy(i) \/ waitpid(i) \/ Cleanup(i)

QemuStep(i) == QemuMemory(i) \/ QemuMonitor(i) \/ QemuExits(i)

Next ==
    \/ \E i \in Instances : HostStep(i) \/ QemuStep(i)
    \/ \E h \in 1..Runs : HostEnds(h)

Spec == Init /\ [][Next]_vars

-----------------------------------------------------------------------------
(* Properties. *)

\* An instance that is destroyed, or whose constructor throws, leaves no QEMU
\* process behind that was not told to end, and not the socket that its QEMU has
\* made.  A constructor that took the socket of another instance for its own may
\* throw before its QEMU makes one.  The file in /dev/shm stays.
NothingLeftBehind ==
    \A i \in Instances : pc[i] \in {"failed", "destroyed"} =>
        /\ qemu[i] \in {"none", "exited", "reaped"} \/ i \in terminated
        /\ alone[i] \/ pc[i] = "destroyed" => monitor[instance_id(i)] # i

\* async_run resumes the guest of the instance itself, also when earlier host
\* processes were killed and their QEMU still listens, unless another process
\* uses an instance of the same name at the same time or a QEMU of that name,
\* left by a host that was killed, was still being started.
ResumesItsOwn == \A i \in Instances : ran[i] /\ alone[i] => qemu[i] \notin {"none", "starting", "paused"}

=============================================================================
