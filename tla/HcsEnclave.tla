----------------------------- MODULE HcsEnclave -----------------------------
(***************************************************************************)
(* A guest that a host process runs as a compute system of Windows         *)
(* (HcsEnclavePlatform, HCSEnclave): the resources that the constructor    *)
(* takes one by one, the thread that listens to the debug pipe, and the    *)
(* events that tell join that the guest has ended.                         *)
(***************************************************************************)
VARIABLES
    pc,             \* what the host is doing with the instance
    is_isolated,
    members,        \* members of HCSEnclave that own a resource
    handle,         \* the compute system: no handle, held locally or by the member
    granted, paths, \* access of the system to the image; paths to be revoked
    system,         \* state of the compute system
    pipe,           \* the debug pipe is open
    listener,       \* state of the listener thread
    joinable,       \* its std::thread can be joined
    pipe_closed, system_exit,   \* events
    callback,       \* HcsSetComputeSystemCallback was called
    started, joined,
    then            \* what follows the join

resources == <<members, handle, granted, paths>>
outside   == <<system, pipe>>
thread    == <<listener, joinable>>
events    == <<pipe_closed, system_exit, callback>>
flags     == <<started, joined, then>>
vars      == <<pc, is_isolated, resources, outside, thread, events, flags>>

Init ==
    /\ pc = "guid" /\ is_isolated \in BOOLEAN
    /\ members = {} /\ handle = "none" /\ granted = FALSE /\ paths = FALSE
    /\ system = "none" /\ pipe = FALSE /\ listener = "none" /\ joinable = FALSE
    /\ pipe_closed = FALSE /\ system_exit = FALSE /\ callback = FALSE
    /\ started = FALSE /\ joined = FALSE /\ then = "ready"

At(p, q) == pc = p /\ pc' = q

-----------------------------------------------------------------------------
(* The constructor. *)

\* With the last handle of a system the system is terminated.
Close == IF handle = "member" THEN "exited" ELSE system

\* Members are released in the reverse order, paths that were granted revoked.
Unwind ==
    /\ members' = {} /\ system' = Close
    /\ handle' = IF handle = "member" THEN "none" ELSE handle
    /\ granted' = (granted /\ ~paths) /\ paths' = FALSE

Throw(p) ==
    /\ At(p, "failed") /\ Unwind
    /\ UNCHANGED <<is_isolated, pipe, thread, events, flags>>

CoCreateGuid ==
    \/ /\ At("guid", "operation") /\ members' = {"access_granter"}
       /\ UNCHANGED <<is_isolated, handle, granted, paths, outside, thread, events, flags>>
    \/ Throw("guid")

HcsCreateOperation ==
    \/ /\ At("operation", "section")
       /\ UNCHANGED <<is_isolated, resources, outside, thread, events, flags>>
    \/ Throw("operation")

\* The result of MapViewOfFile is not checked.
CreateSection ==
    \/ /\ At("section", "config")
       /\ members' = members \cup {"shared_section", "shared_memory_mapping"}
       /\ UNCHANGED <<is_isolated, handle, granted, paths, outside, thread, events, flags>>
    \/ Throw("section")

add_path ==
    \/ /\ At("config", "create") /\ granted' = TRUE /\ paths' = TRUE
       /\ UNCHANGED <<is_isolated, members, handle, outside, thread, events, flags>>
    \/ Throw("config")

NotIsolated ==
    /\ At("config", "create")
    /\ UNCHANGED <<is_isolated, resources, outside, thread, events, flags>>

Grant == (is_isolated /\ add_path) \/ (~is_isolated /\ NotIsolated)

\* The handle of the new system is not yet that of the member.
HcsCreateComputeSystem ==
    \/ /\ At("create", "created") /\ handle' = "local"
       /\ system' = "created" /\ pipe' = TRUE
       /\ UNCHANGED <<is_isolated, members, granted, paths, thread, events, flags>>
    \/ Throw("create")

WaitForCreation ==
    \/ /\ At("created", "event") /\ handle' = "member"
       /\ members' = members \cup {"hcs_system"}
       /\ UNCHANGED <<is_isolated, granted, paths, outside, thread, events, flags>>
    \/ Throw("created")

StartListener ==
    \/ /\ At("event", "ready")
       /\ members' = members \cup {"pipe_closed", "pipe_listener"}
       /\ listener' = "open" /\ joinable' = TRUE
       /\ UNCHANGED <<is_isolated, handle, granted, paths, outside, events, flags>>
    \/ Throw("event")

-----------------------------------------------------------------------------
(* async_run, join and the destructors. *)

\* It throws when the system cannot be started, and also when the wait for the
\* start of a system that runs fails.
async_run ==
    /\ pc = "ready" /\ system = "created" /\ ~joined
    /\ \/ system' = "running" /\ started' = TRUE
       \/ system' \in {"created", "running"} /\ UNCHANGED started
    /\ UNCHANGED <<pc, is_isolated, resources, pipe, thread, events, joined, then>>

\* HcsEnclavePlatform::join, and its destructor, which joins first.
Join(next) ==
    /\ pc = "ready" /\ then' = next
    /\ pc' = IF joined THEN next ELSE IF started THEN "callback" ELSE "listener"
    /\ UNCHANGED <<is_isolated, resources, outside, thread, events, started, joined>>

\* An HCSEnclave without the platform around it is destroyed before a join.
Destroy ==
    /\ ~joined /\ At("ready", "deleter")
    /\ UNCHANGED <<is_isolated, resources, outside, thread, events, flags>>

\* CreateEventEx comes first and may fail; a destructor must not throw.  A
\* registration that fails is not noticed.
HcsSetComputeSystemCallback ==
    \/ /\ At("callback", "wait") /\ callback' \in {TRUE, callback}
       /\ UNCHANGED <<is_isolated, resources, outside, thread, pipe_closed, system_exit, flags>>
    \/ /\ At("callback", IF then = "ready" THEN "ready" ELSE "terminated")
       /\ UNCHANGED <<is_isolated, resources, outside, thread, events, flags>>

\* Mutant: join waits for the exit event only.
stopping_conditions_Exit == {"system_exit"}
stopping_conditions == {"system_exit", "pipe_closed"}

WaitForMultipleObjects ==
    /\ At("wait", "listener")
    /\ \/ /\ "system_exit" \in stopping_conditions /\ system_exit
          /\ system_exit' = FALSE /\ UNCHANGED <<pipe_closed, callback>>
       \/ /\ "pipe_closed" \in stopping_conditions /\ ~system_exit /\ pipe_closed
          /\ pipe_closed' = FALSE /\ UNCHANGED <<system_exit, callback>>
    /\ started' = FALSE
    /\ UNCHANGED <<is_isolated, resources, outside, thread, joined, then>>

JoinListener ==
    /\ At("listener", then)
    /\ listener = "ended" /\ joinable' = FALSE /\ joined' = TRUE /\ started' = FALSE
    /\ UNCHANGED <<is_isolated, resources, outside, listener, events, then>>

\* The deleter of pipe_listener joins the thread; a thread that was joined
\* throws, in a destructor.
Delete ==
    \/ /\ ~joinable /\ At("deleter", "terminated")
       /\ UNCHANGED <<is_isolated, resources, outside, thread, events, flags>>
    \/ /\ joinable /\ listener = "ended" /\ At("deleter", "destroyed") /\ Unwind
       /\ joinable' = FALSE
       /\ UNCHANGED <<is_isolated, pipe, listener, events, flags>>

-----------------------------------------------------------------------------
(* The listener thread. *)

InProcess == pc \notin {"terminated", "exited"}

\* CreateFileW; when it fails the process exits.
OpenPipe ==
    /\ InProcess /\ listener = "open"
    /\ \/ listener' = "reading" /\ UNCHANGED pc
       \/ listener' = "ended" /\ pc' = "exited"
    /\ UNCHANGED <<is_isolated, resources, outside, joinable, events, flags>>

ReadFails ==
    /\ InProcess /\ listener = "reading" /\ ~pipe
    /\ listener' = "ended" /\ pipe_closed' = TRUE
    /\ UNCHANGED <<pc, is_isolated, resources, outside, joinable, system_exit, callback, flags>>

-----------------------------------------------------------------------------
(* The compute service. *)

\* An event reaches a callback that is registered when it happens.
SystemExits ==
    /\ system = "running" /\ system' = "exited"
    /\ system_exit' = (system_exit \/ callback)
    /\ UNCHANGED <<pc, is_isolated, resources, pipe, thread, pipe_closed, callback, flags>>

ServiceDisconnects ==
    /\ callback /\ ~system_exit /\ system = "running" /\ system_exit' = TRUE
    /\ UNCHANGED <<pc, is_isolated, resources, outside, thread, pipe_closed, callback, flags>>

PipeCloses ==
    /\ system = "exited" /\ pipe /\ pipe' = FALSE
    /\ UNCHANGED <<pc, is_isolated, resources, system, thread, events, flags>>

JoinStep == HcsSetComputeSystemCallback \/ WaitForMultipleObjects \/ JoinListener

Construct ==
    \/ CoCreateGuid \/ HcsCreateOperation \/ CreateSection \/ Grant
    \/ HcsCreateComputeSystem \/ WaitForCreation \/ StartListener

Next ==
    \/ Construct \/ async_run \/ JoinStep \/ Delete \/ OpenPipe \/ ReadFails
    \/ \E next \in {"ready", "deleter"} : Join(next)
    \/ Destroy
    \/ SystemExits \/ ServiceDisconnects \/ PipeCloses

Spec == Init /\ [][Next]_vars

\* Threads run, guests end and the service closes the pipe of one that has.
Fairness ==
    /\ WF_vars(JoinStep) /\ WF_vars(Delete) /\ WF_vars(OpenPipe) /\ WF_vars(ReadFails)
    /\ WF_vars(SystemExits) /\ WF_vars(PipeCloses)

FairSpec == Spec /\ Fairness

-----------------------------------------------------------------------------
(* Properties. *)

\* join and the destructors of a guest that runs, or that has ended, come to an
\* end: also when the guest ends before the callback for its end is registered,
\* when that registration fails, and when async_run threw after the start.
JoinReturns ==
    (pc = "callback" \/ (pc \in {"listener", "deleter"} /\ system \in {"running", "exited"}))
    ~> pc \in {"ready", "terminated", "destroyed", "exited"}

=============================================================================
