-------------------------------- MODULE Once --------------------------------
(***************************************************************************)
(* CustomOnceImpl of the libc++ threading layer: one flag (control) and the *)
(* Threads that call __libcpp_execute_once on it, each as often as it likes.*)
(* init_routine is a sequence of steps of the thread that runs it; what     *)
(* matters of it is that it takes time.                                     *)
(***************************************************************************)
EXTENDS Integers, FiniteSets

CONSTANTS Threads, InitSteps  \* how many steps the routine has

ASSUME OnceAssumption == InitSteps \in Nat \ {0}

VARIABLES
    control,   \* IDLE, DOING or DONE
    pc,        \* program counter of each thread
    progress,  \* steps of the routine performed, by whichever thread
    returned   \* history: threads that have returned from a call

vars == <<control, pc, progress, returned>>

Init ==
    /\ control = "IDLE"
    /\ pc = [t \in Threads |-> "out"]
    /\ progress = 0
    /\ returned = {}

Goto(t, p, q) == pc[t] = p /\ pc' = [pc EXCEPT ![t] = q]

Returns(t) == returned' = returned \cup {t}

\* Mutant: the fast path takes any state but IDLE for done.
Execute_FastPathOnDoing(t) ==
    /\ IF control # "IDLE"
         THEN pc[t] = "out" /\ UNCHANGED pc /\ Returns(t)
         ELSE Goto(t, "out", "exchange") /\ UNCHANGED returned
    /\ UNCHANGED <<control, progress>>

\* The call, and the fast path of a flag that is already DONE.
Execute(t) ==
    /\ IF control = "DONE"
         THEN pc[t] = "out" /\ UNCHANGED pc /\ Returns(t)
         ELSE Goto(t, "out", "exchange") /\ UNCHANGED returned
    /\ UNCHANGED <<control, progress>>

\* compare_exchange_strong succeeds
ExchangeIdle(t) ==
    /\ Goto(t, "exchange", "init")
    /\ control = "IDLE"
    /\ control' = "DOING"
    /\ UNCHANGED <<progress, returned>>

\* compare_exchange_strong fails
ExchangeFails(t) ==
    /\ Goto(t, "exchange", "spin")
    /\ control # "IDLE"
    /\ UNCHANGED <<control, progress, returned>>

\* init(), one step at a time
InitRoutine(t) ==
    /\ pc[t] = "init"
    /\ progress' = progress + 1
    /\ pc' = [pc EXCEPT ![t] = IF progress' = InitSteps THEN "store" ELSE "init"]
    /\ UNCHANGED <<control, returned>>

\* control.store(DONE)
StoreDone(t) ==
    /\ Goto(t, "store", "out")
    /\ control' = "DONE"
    /\ Returns(t)
    /\ UNCHANGED progress

\* The loop of the threads that came second ends.
SpinEnds(t) ==
    /\ Goto(t, "spin", "out")
    /\ control = "DONE"
    /\ Returns(t)
    /\ UNCHANGED <<control, progress>>

Step(t) ==
    ExchangeIdle(t) \/ ExchangeFails(t) \/ InitRoutine(t) \/ StoreDone(t) \/ SpinEnds(t)

Next == \E t \in Threads : Execute(t) \/ Step(t)

Spec == Init /\ [][Next]_vars

-----------------------------------------------------------------------------
\* Types of the variables.
TypeOK ==
    /\ control \in {"IDLE", "DOING", "DONE"}
    /\ pc \in [Threads -> {"out", "exchange", "init", "store", "spin"}]
    /\ progress \in 0..InitSteps
    /\ returned \subseteq Threads

\* Every call that returns, on whichever path, finds the routine performed
\* from its first step to its last, and exactly once.
RoutineRanOnce == progress <= InitSteps /\ (returned # {} => progress = InitSteps)

=============================================================================
