----------------------------- MODULE Semaphore -----------------------------
(***************************************************************************)
(* monza::SingleWaiterSemaphore (crt/thread.cc) down to the instructions    *)
(* that make it work: the check-and-halt loop acquire_semaphore and the     *)
(* interrupt handlers that emulate its atomicity (cores.asm, macros.asm),   *)
(* and the synchronous inter-processor interrupt ping_core_sync (cores.cc). *)
(*                                                                         *)
(* One semaphore is shared by Threads; thread t runs on the core of the     *)
(* same name (core_to_thread is a bijection).  Any thread may acquire or    *)
(* release.  Every shared-memory access is a step of its own.  Locals are   *)
(* reset when they go out of scope.                                        *)
(*                                                                         *)
(* Program counters of a thread:                                           *)
(*   idle       outside the semaphore's code                               *)
(*   check      at .loop_suspend, before "mov rcx, [rdi]"                   *)
(*   test       rcx loaded, before the branch                              *)
(*   hlt        before the hlt instruction                                 *)
(*   halted     in hlt; an interrupt resumes at .loop_hlt, a jump to check  *)
(*   cas        at .end_suspend, before the cmpxchg                        *)
(*   clear      acquire_semaphore returned, before waiter.store(0)         *)
(*   load       release() past the fetch_add, before waiter.load()         *)
(*   ping       entry of ping_core_sync                                    *)
(*   trigger    before trigger_ipi                                         *)
(*   compare    before the generation test of the do-while loop            *)
(***************************************************************************)
EXTENDS Integers, FiniteSets

CONSTANTS
    Threads,       \* threads, and the cores they run on
    NoThread,      \* the thread id 0: no waiter
    DebugBuild,    \* TRUE when NDEBUG is not defined
    Platform,      \* which trigger_ipi the hypervisor set-up installed
    MaxReleases    \* bound on the number of calls of release()

ASSUME ThreadsAssumption == NoThread \notin Threads
ASSUME BuildAssumption == DebugBuild \in BOOLEAN /\ Platform \in {"generic", "sev"}
ASSUME BoundAssumption == MaxReleases \in Nat

VARIABLES
    value,         \* SingleWaiterSemaphore::value
    waiter,        \* SingleWaiterSemaphore::waiter
    pc,            \* program counter of each thread
    rcx,           \* the value a thread read at .loop_suspend
    last_value,    \* what fetch_add returned to a releasing thread
    target,        \* the core a releasing thread pings
    gen_before,    \* generation_after_update of ping_core_sync
    generation,    \* PerCoreData::notification_generation of each core
    ipi,           \* is a wakeup interrupt pending at the core's local APIC
    intr,          \* the interrupt handler a core is in
    handled,       \* history: the handler of the target ran since the ping began
    aborted,       \* kabort() was called
    released,      \* number of calls of release() so far
    acquired       \* history: number of tokens taken so far

semVars == <<value, waiter>>
acqVars == <<rcx, acquired>>
relVars == <<last_value, released>>
pingVars == <<target, gen_before, handled>>
coreVars == <<generation, ipi, intr>>
vars == <<value, waiter, pc, rcx, last_value, target, gen_before, generation,
          ipi, intr, handled, aborted, released, acquired>>

\* Program points inside acquire(), inside acquire_semaphore, and in a ping.
Inside  == {"check", "test", "hlt", "halted", "cas", "clear"}
Pinging == {"ping", "trigger", "compare"}
Points  == {"idle", "load"} \cup Inside \cup Pinging

\* A core executes its thread's code only outside its interrupt handlers.
Runs(t, point) == ~aborted /\ intr[t] = "none" /\ pc[t] = point

Goto(t, point) == pc' = [pc EXCEPT ![t] = point]

Init ==
    /\ value = 0
    /\ waiter = NoThread
    /\ pc = [t \in Threads |-> "idle"]
    /\ rcx = [t \in Threads |-> 0]
    /\ last_value = [t \in Threads |-> 0]
    /\ target = [t \in Threads |-> NoThread]
    /\ gen_before = [t \in Threads |-> 0]
    /\ generation = [t \in Threads |-> 0]
    /\ ipi = [t \in Threads |-> FALSE]
    /\ intr = [t \in Threads |-> "none"]
    /\ handled = [t \in Threads |-> FALSE]
    /\ aborted = FALSE
    /\ released = 0
    /\ acquired = 0

-----------------------------------------------------------------------------
(* SingleWaiterSemaphore::acquire                                          *)

\* Mutant: the result of the exchange is not looked at.
Acquire_IgnoresExchange(t) ==
    /\ Runs(t, "idle")
    /\ DebugBuild \/ \A u \in Threads : pc[u] \notin Inside
    /\ waiter' = t
    /\ Goto(t, "check")
    /\ UNCHANGED <<value, acqVars, relVars, pingVars, coreVars, aborted>>

\* The debug build exchanges the waiter and aborts when there was one.  The
\* release build stores it, and relies on its callers never to overlap.
Acquire(t) ==
    /\ Runs(t, "idle")
    /\ DebugBuild \/ \A u \in Threads : pc[u] \notin Inside
    /\ waiter' = t
    /\ IF DebugBuild /\ waiter # NoThread
         THEN aborted' = TRUE /\ UNCHANGED pc
         ELSE Goto(t, "check") /\ UNCHANGED aborted
    /\ UNCHANGED <<value, acqVars, relVars, pingVars, coreVars>>

\* mov rcx, [rdi]
LoadValue(t) ==
    /\ Runs(t, "check")
    /\ rcx' = [rcx EXCEPT ![t] = value]
    /\ Goto(t, "test")
    /\ UNCHANGED <<semVars, relVars, pingVars, coreVars, aborted, acquired>>

\* test rcx, rcx; jnz .end_suspend
TestValue(t) ==
    /\ Runs(t, "test")
    /\ Goto(t, IF rcx[t] = 0 THEN "hlt" ELSE "cas")
    /\ UNCHANGED <<semVars, acqVars, relVars, pingVars, coreVars, aborted>>

Hlt(t) ==
    /\ Runs(t, "hlt")
    /\ Goto(t, "halted")
    /\ UNCHANGED <<semVars, acqVars, relVars, pingVars, coreVars, aborted>>

\* Mutant: a plain store of the decremented value.
CompareExchange_PlainStore(t) ==
    /\ Runs(t, "cas")
    /\ value' = rcx[t] - 1
    /\ acquired' = acquired + 1
    /\ Goto(t, "clear")
    /\ rcx' = [rcx EXCEPT ![t] = 0]
    /\ UNCHANGED <<waiter, relVars, pingVars, coreVars, aborted>>

\* Mutant: the value is decremented before it is copied to the register that
\* cmpxchg compares.
CompareExchange_Decremented(t) ==
    /\ Runs(t, "cas")
    /\ IF value = rcx[t] - 1
         THEN value' = rcx[t] - 1 /\ acquired' = acquired + 1 /\ Goto(t, "clear")
         ELSE Goto(t, "check") /\ UNCHANGED <<value, acquired>>
    /\ rcx' = [rcx EXCEPT ![t] = 0]
    /\ UNCHANGED <<waiter, relVars, pingVars, coreVars, aborted>>

\* lock cmpxchg [rdi], rcx; jnz .loop_suspend
CompareExchange(t) ==
    /\ Runs(t, "cas")
    /\ IF value = rcx[t]
         THEN value' = rcx[t] - 1 /\ acquired' = acquired + 1 /\ Goto(t, "clear")
         ELSE Goto(t, "check") /\ UNCHANGED <<value, acquired>>
    /\ rcx' = [rcx EXCEPT ![t] = 0]
    /\ UNCHANGED <<waiter, relVars, pingVars, coreVars, aborted>>

\* waiter.store(0)
ClearWaiter(t) ==
    /\ Runs(t, "clear")
    /\ waiter' = NoThread
    /\ Goto(t, "idle")
    /\ UNCHANGED <<value, acqVars, relVars, pingVars, coreVars, aborted>>

-----------------------------------------------------------------------------
(* SingleWaiterSemaphore::release                                          *)

\* value.fetch_add(1)
Release(t) ==
    /\ Runs(t, "idle")
    /\ released < MaxReleases
    /\ last_value' = [last_value EXCEPT ![t] = value]
    /\ value' = value + 1
    /\ released' = released + 1
    /\ Goto(t, "load")
    /\ UNCHANGED <<waiter, acqVars, pingVars, coreVars, aborted>>

\* The condition on which release() pings the core of the waiter it loaded.
MustPing(t, last, current_waiter) ==
    last = 0 /\ current_waiter # NoThread /\ current_waiter # t

\* waiter.load() and the branch on what it returned
LoadWaiter(t) ==
    /\ Runs(t, "load")
    /\ IF MustPing(t, last_value[t], waiter)
         THEN target' = [target EXCEPT ![t] = waiter] /\ Goto(t, "ping")
         ELSE Goto(t, "idle") /\ UNCHANGED target
    /\ last_value' = [last_value EXCEPT ![t] = 0]
    /\ UNCHANGED <<semVars, acqVars, released, gen_before, handled, coreVars, aborted>>

\* ping_core_sync: load the generation counter of the target
PingCoreSync(t) ==
    /\ Runs(t, "ping")
    /\ gen_before' = [gen_before EXCEPT ![t] = generation[target[t]]]
    /\ handled' = [handled EXCEPT ![t] = FALSE]
    /\ Goto(t, "trigger")
    /\ UNCHANGED <<semVars, acqVars, relVars, target, coreVars, aborted>>

\* The write of the interrupt command register: the interrupt becomes pending
\* at the target.
TriggerIpiGeneric(core) ==
    ipi' = [ipi EXCEPT ![core] = TRUE] /\ UNCHANGED generation

\* On SEV the caller counts on behalf of the target.
TriggerIpiSev(core) ==
    generation' = [generation EXCEPT ![core] = @ + 1] /\ UNCHANGED ipi

TriggerIpi(t) ==
    /\ Runs(t, "trigger")
    /\ IF Platform = "generic" THEN TriggerIpiGeneric(target[t]) ELSE TriggerIpiSev(target[t])
    /\ Goto(t, "compare")
    /\ UNCHANGED <<semVars, acqVars, relVars, pingVars, intr, aborted>>

\* Mutant: one interrupt is sent, and nothing waits for it.
CompareGeneration_Once(t) ==
    /\ Runs(t, "compare")
    /\ Goto(t, "idle")
    /\ target' = [target EXCEPT ![t] = NoThread]
    /\ gen_before' = [gen_before EXCEPT ![t] = 0]
    /\ handled' = [handled EXCEPT ![t] = FALSE]
    /\ UNCHANGED <<semVars, acqVars, relVars, coreVars, aborted>>

\* while (generation_after_update == ...notification_generation.load())
CompareGeneration(t) ==
    /\ Runs(t, "compare")
    /\ IF gen_before[t] = generation[target[t]]
         THEN Goto(t, "trigger") /\ UNCHANGED pingVars
         ELSE /\ Goto(t, "idle")
              /\ target' = [target EXCEPT ![t] = NoThread]
              /\ gen_before' = [gen_before EXCEPT ![t] = 0]
              /\ handled' = [handled EXCEPT ![t] = FALSE]
    /\ UNCHANGED <<semVars, acqVars, relVars, coreVars, aborted>>

-----------------------------------------------------------------------------
(* Interrupts.  A handler runs with interrupts disabled, so a second one    *)
(* stays pending until the first returns.                                  *)

\* Mutant: the handler does not count its executions.
WakeupHandler_NoCount(c) ==
    /\ ~aborted /\ intr[c] = "none" /\ ipi[c]
    /\ ipi' = [ipi EXCEPT ![c] = FALSE]
    /\ intr' = [intr EXCEPT ![c] = "wakeup"]
    /\ handled' = [r \in Threads |-> handled[r] \/ target[r] = c]
    /\ UNCHANGED <<semVars, pc, acqVars, relVars, target, gen_before, generation, aborted>>

\* Delivery of the wakeup interrupt and the increment of the generation.
WakeupHandler(c) ==
    /\ ~aborted /\ intr[c] = "none" /\ ipi[c]
    /\ ipi' = [ipi EXCEPT ![c] = FALSE]
    /\ generation' = [generation EXCEPT ![c] = @ + 1]
    /\ intr' = [intr EXCEPT ![c] = "wakeup"]
    /\ handled' = [r \in Threads |-> handled[r] \/ target[r] = c]
    /\ UNCHANGED <<semVars, pc, acqVars, relVars, target, gen_before, aborted>>

\* Any other interrupt whose handler releases the semaphore its own core is
\* waiting for.  A handler that pinged its own core would spin for ever: the
\* interrupt it waits for is not delivered before it returns.
InterruptRelease(c) ==
    /\ ~aborted /\ intr[c] = "none" /\ waiter = c
    /\ released < MaxReleases
    /\ value' = value + 1
    /\ released' = released + 1
    /\ intr' = [intr EXCEPT ![c] = IF MustPing(c, value, waiter) THEN "stuck" ELSE "other"]
    /\ UNCHANGED <<waiter, pc, acqVars, last_value, pingVars, generation, ipi, aborted>>

\* Mutant: the handlers return to where they interrupted.
ResetSuspendCheck_Absent(point) == IF point = "halted" THEN "check" ELSE point

\* reset_suspend_check: a saved instruction pointer from .loop_suspend up to,
\* and not including, .loop_hlt goes back to .loop_suspend.  A core that was
\* in hlt has .loop_hlt saved, and jumps to .loop_suspend by itself.
ResetSuspendCheck(point) ==
    IF point \in {"check", "test", "hlt", "halted"} THEN "check" ELSE point

\* The end of wakeup_handler and of interrupt_conclusion, up to the iretq.
InterruptReturn(c) ==
    /\ ~aborted /\ intr[c] \in {"wakeup", "other"}
    /\ Goto(c, ResetSuspendCheck(pc[c]))
    /\ intr' = [intr EXCEPT ![c] = "none"]
    /\ UNCHANGED <<semVars, acqVars, relVars, pingVars, generation, ipi, aborted>>

-----------------------------------------------------------------------------
AcquireStep(t) ==
    \/ LoadValue(t) \/ TestValue(t) \/ Hlt(t) \/ CompareExchange(t) \/ ClearWaiter(t)

ReleaseStep(t) ==
    \/ LoadWaiter(t) \/ PingCoreSync(t) \/ TriggerIpi(t) \/ CompareGeneration(t)

Interrupt(t) == WakeupHandler(t) \/ InterruptReturn(t)

Next ==
    \E t \in Threads :
        \/ Acquire(t) \/ AcquireStep(t)
        \/ Release(t) \/ ReleaseStep(t)
        \/ Interrupt(t) \/ InterruptRelease(t)

\* A core that is not halted keeps executing, and the local APIC delivers what
\* is pending.  Nobody has to call acquire() or release(), and nothing else
\* has to interrupt.
Fairness ==
    \A t \in Threads :
        WF_vars(AcquireStep(t)) /\ WF_vars(ReleaseStep(t)) /\ WF_vars(Interrupt(t))

Spec == Init /\ [][Next]_vars
FairSpec == Spec /\ Fairness

-----------------------------------------------------------------------------
(* Properties                                                              *)

\* The shape of the state; the counters are bounded by the calls of release().
TypeOK ==
    /\ value \in 0..MaxReleases
    /\ waiter \in Threads \cup {NoThread}
    /\ pc \in [Threads -> Points]
    /\ rcx \in [Threads -> 0..MaxReleases]
    /\ last_value \in [Threads -> 0..MaxReleases]
    /\ target \in [Threads -> Threads \cup {NoThread}]
    /\ \A t \in Threads : pc[t] \in Pinging => target[t] \in Threads
    /\ gen_before \in [Threads -> Nat]
    /\ generation \in [Threads -> Nat]
    /\ ipi \in [Threads -> BOOLEAN]
    /\ intr \in [Threads -> {"none", "wakeup", "other"}]
    /\ handled \in [Threads -> BOOLEAN]
    /\ aborted \in BOOLEAN
    /\ released \in 0..MaxReleases
    /\ acquired \in Nat

\* Every call of release() puts exactly one token into the semaphore and every
\* acquire() that gets past acquire_semaphore takes exactly one, whatever
\* releases fall between the load and the cmpxchg.
TokensConserved == value + acquired = released

\* Between setting and clearing the waiter there is one thread in acquire(),
\* and it is the registered one.  The debug build's exchange enforces this
\* against callers that overlap: it overwrites the waiter and then aborts.
WaiterIsRegistered ==
    ~aborted => \A t \in Threads : pc[t] \in Inside => waiter = t

\* A thread that acts on having read 0: it is about to halt, or has halted,
\* and no interrupt handler that would send it back to the check is running.
Committed(t) ==
    /\ intr[t] = "none"
    /\ pc[t] \in {"hlt", "halted"} \/ (pc[t] = "test" /\ rcx[t] = 0)

\* Thread r has yet to make the core of t execute an interrupt handler.
WillNotify(r, t) ==
    \/ pc[r] = "load" /\ last_value[r] = 0
    \/ pc[r] \in Pinging /\ target[r] = t /\ (pc[r] = "ping" \/ ~handled[r])

\* No notification is lost: when a thread is committed to halting while there
\* is a token for it, some release() is still on its way to interrupting it.
\* This is what reset_suspend_check and the "last_value == 0" rule are for.
NoLostWakeup ==
    \A t \in Threads :
        Committed(t) /\ value > 0 => \E r \in Threads : WillNotify(r, t)

\* "Returns after the target core has executed the IPI handler at least once"
\* (ping_core_sync): a ping ends only when the handler of its target has
\* started since the ping began.
PingRunsHandler ==
    [][\A t \in Threads : pc[t] = "compare" /\ pc'[t] = "idle" => handled[t]]_vars

\* ping_core_sync returns: its loop ends, even when the target takes other
\* interrupts or leaves the semaphore meanwhile.
PingReturns ==
    \A t \in Threads : pc[t] \in Pinging ~> pc[t] \notin Pinging \/ aborted

-----------------------------------------------------------------------------
(* What the semaphore promises: see CountingSemaphore.                     *)

Place(t) == CASE pc[t] = "clear" -> "passed"
              [] pc[t] \in Inside \ {"clear"} -> "waiting"
              [] OTHER -> "out"

Counting == INSTANCE CountingSemaphore
              WITH permits <- value, posts <- released, MaxPosts <- MaxReleases,
                   place <- [t \in Threads |-> Place(t)]

\* acquire() and release() behave like the operations of a counting semaphore
\* with one waiter: each step of the code is one of its steps or none.
CountsTokens == Counting!Spec

\* The same with its promise of progress: the loads, the halt, the pings and
\* the interrupt handlers together never keep a waiter from a token, unless
\* calls of acquire() overlap and the debug build stops the machine.
ImplementsCounting == Counting!Spec /\ (Counting!Fairness \/ <>aborted)

=============================================================================
