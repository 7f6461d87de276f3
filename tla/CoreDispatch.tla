---------------------------- MODULE CoreDispatch ----------------------------
(***************************************************************************)
(* How functions get onto cores: monza_main, initialize_threads, add_thread *)
(* and join_thread on the calling side (crt/monza_main.cc, crt/thread.cc),  *)
(* and the loop ap_reset of every other core (cores.asm).  A core's mailbox *)
(* is its ThreadExecutionContext: code_ptr, arg and done.                   *)
(*                                                                         *)
(* Core 0 runs main().  A job is a function with its argument; the two      *)
(* words are stored and loaded separately.  Any running function may call   *)
(* add_thread, and join_thread on what it added.  ping_core_sync inside the *)
(* spin of add_thread has no effect here: the ap_reset loop polls.          *)
(***************************************************************************)
EXTENDS Integers, FiniteSets

CONSTANTS
    NumCores,    \* get_core_count()
    Jobs,        \* function and argument pairs; each is posted at most once
    Null,        \* nullptr
    Initializer, \* the function core_initializer
    SerialAdds   \* TRUE when no two calls of add_thread overlap

ASSUME CoresAssumption == NumCores \in Nat \ {0}
ASSUME JobsAssumption == Null \notin Jobs \cup {Initializer} /\ Initializer \notin Jobs
ASSUME SerialAssumption == SerialAdds \in BOOLEAN

Cores == 0..(NumCores - 1)
Aps == 1..(NumCores - 1)

VARIABLES
    code_ptr, arg, done, \* ThreadExecutionContext of each other core
    apc, rax, rdi,       \* where a core is in ap_reset, and its registers
    executing_cores,     \* the global counter that holds up the shutdown
    thread_id,           \* the thread_local thread_id of each core
    mpc, scan,           \* where core 0 is in monza_main, and its loop index
    num_usable_cores,
    call, job, index,    \* the thread API call a running function is in
    handles,             \* what add_thread returned to each core: job, core
    posted,              \* history: jobs for which add_thread stored the code
    started,             \* history: number of calls of each job's function
    finished,            \* history: jobs whose function returned
    joined               \* history: jobs whose join_thread returned

ctxVars == <<code_ptr, arg, done>>
apVars == <<apc, rax, rdi>>
mainVars == <<mpc, scan, num_usable_cores>>
callVars == <<call, job, index, handles>>
histVars == <<posted, started, finished, joined>>
vars == <<code_ptr, arg, done, apc, rax, rdi, executing_cores, thread_id, mpc, scan,
          num_usable_cores, call, job, index, handles, posted, started, finished, joined>>

\* Program points of ap_reset between its increment and its decrement of
\* executing_cores, and those of core 0 before its own decrement.
Counted == {"clear_done", "clear_code", "run", "set_done", "dec"}
MainCounted == {"start", "wait", "main"}
ApPoints == {"off", "reset", "loop", "arg", "inc"} \cup Counted
MainPoints == {"boot", "spin", "off"} \cup MainCounted

\* A function of the application runs on core t.
Running(t) == IF t = 0 THEN mpc = "main" ELSE apc[t] = "run" /\ rax[t] \in Jobs

Up == mpc # "off"

Init ==
    /\ code_ptr = [c \in Aps |-> Null]
    /\ arg = [c \in Aps |-> Null]
    /\ done = [c \in Aps |-> 0]
    /\ apc = [c \in Aps |-> "off"]
    /\ rax = [c \in Aps |-> Null]
    /\ rdi = [c \in Aps |-> Null]
    /\ executing_cores = 0
    /\ thread_id = [c \in Cores |-> 1]
    /\ mpc = "boot"
    /\ scan = 1
    /\ num_usable_cores = 1
    /\ call = [t \in Cores |-> "none"]
    /\ job = [t \in Cores |-> Null]
    /\ index = [t \in Cores |-> 0]
    /\ handles = [t \in Cores |-> {}]
    /\ posted = {}
    /\ started = [j \in Jobs |-> 0]
    /\ finished = {}
    /\ joined = {}

-----------------------------------------------------------------------------
(* Core 0: monza_main and initialize_threads                               *)

\* executing_cores.store(1), then main() is called.
MonzaMain ==
    /\ mpc = "boot"
    /\ executing_cores' = 1
    /\ mpc' = "main"
    /\ UNCHANGED <<ctxVars, apVars, thread_id, scan, num_usable_cores, callVars, histVars>>

\* An application may never call initialize_threads; it calls it once.
InitializeThreads ==
    /\ mpc = "main" /\ call[0] = "none"
    /\ num_usable_cores = 1 /\ NumCores > 1
    /\ num_usable_cores' = NumCores
    /\ mpc' = "start"
    /\ scan' = 1
    /\ UNCHANGED <<ctxVars, apVars, executing_cores, thread_id, callVars, histVars>>

\* One iteration of the first loop: the mailbox is filled before reset_core
\* lets the core run.
StartCore ==
    /\ mpc = "start"
    /\ IF scan < num_usable_cores
         THEN /\ arg' = [arg EXCEPT ![scan] = scan]
              /\ code_ptr' = [code_ptr EXCEPT ![scan] = Initializer]
              /\ apc' = [apc EXCEPT ![scan] = "reset"]
              /\ scan' = scan + 1
              /\ UNCHANGED mpc
         ELSE /\ mpc' = "wait"
              /\ scan' = 1
              /\ UNCHANGED <<arg, code_ptr, apc>>
    /\ UNCHANGED <<done, rax, rdi, executing_cores, thread_id, num_usable_cores,
                   callVars, histVars>>

\* One iteration of the second loop.
WaitCore ==
    /\ mpc = "wait"
    /\ IF scan < num_usable_cores
         THEN done[scan] # 0 /\ scan' = scan + 1 /\ UNCHANGED mpc
         ELSE mpc' = "main" /\ UNCHANGED scan
    /\ UNCHANGED <<ctxVars, apVars, executing_cores, thread_id, num_usable_cores,
                   callVars, histVars>>

\* main() returns: executing_cores.fetch_add(-1)
MainReturns ==
    /\ mpc = "main" /\ call[0] = "none"
    /\ executing_cores' = executing_cores - 1
    /\ mpc' = "spin"
    /\ UNCHANGED <<ctxVars, apVars, thread_id, scan, num_usable_cores, callVars, histVars>>

\* Mutant: the last executing core is not waited for.
Shutdown_OffByOne ==
    /\ mpc = "spin"
    /\ executing_cores <= 1
    /\ mpc' = "off"
    /\ UNCHANGED <<ctxVars, apVars, executing_cores, thread_id, scan, num_usable_cores,
                   callVars, histVars>>

\* while (executing_cores.load() > 0); monza_exit
Shutdown ==
    /\ mpc = "spin"
    /\ executing_cores = 0
    /\ mpc' = "off"
    /\ UNCHANGED <<ctxVars, apVars, executing_cores, thread_id, scan, num_usable_cores,
                   callVars, histVars>>

-----------------------------------------------------------------------------
(* Every other core: ap_reset                                              *)

\* At(c, p) and Step(c, p, q): core c is at p, and goes from p to q.
At(c, p) == Up /\ apc[c] = p
Step(c, p, q) == At(c, p) /\ apc' = [apc EXCEPT ![c] = q]

\* call [ap_init]
ApInit(c) ==
    /\ Step(c, "reset", "loop")
    /\ UNCHANGED <<ctxVars, rax, rdi, executing_cores, thread_id, mainVars, callVars, histVars>>

\* mov rax, [code_ptr]; test rax, rax; jnz .execute
PollCode(c) ==
    /\ code_ptr[c] # Null
    /\ Step(c, "loop", "arg")
    /\ rax' = [rax EXCEPT ![c] = code_ptr[c]]
    /\ UNCHANGED <<ctxVars, rdi, executing_cores, thread_id, mainVars, callVars, histVars>>

LoadArg(c) ==
    /\ Step(c, "arg", "inc")
    /\ rdi' = [rdi EXCEPT ![c] = arg[c]]
    /\ UNCHANGED <<ctxVars, rax, executing_cores, thread_id, mainVars, callVars, histVars>>

\* lock inc qword [executing_cores]
IncExecuting(c) ==
    /\ Step(c, "inc", "clear_done")
    /\ executing_cores' = executing_cores + 1
    /\ UNCHANGED <<ctxVars, rax, rdi, thread_id, mainVars, callVars, histVars>>

\* Mutant: the done flag of the previous job stays set.
ClearDone_Missing(c) ==
    /\ Step(c, "clear_done", "clear_code")
    /\ UNCHANGED <<ctxVars, rax, rdi, executing_cores, thread_id, mainVars, callVars, histVars>>

ClearDone(c) ==
    /\ Step(c, "clear_done", "clear_code")
    /\ done' = [done EXCEPT ![c] = 0]
    /\ UNCHANGED <<code_ptr, arg, rax, rdi, executing_cores, thread_id, mainVars, callVars,
                   histVars>>

\* The code pointer is cleared, then the function is called.
ClearCode(c) ==
    /\ Step(c, "clear_code", "run")
    /\ code_ptr' = [code_ptr EXCEPT ![c] = Null]
    /\ started' = IF rax[c] \in Jobs THEN [started EXCEPT ![rax[c]] = @ + 1] ELSE started
    /\ UNCHANGED <<arg, done, rax, rdi, executing_cores, thread_id, mainVars, callVars,
                   posted, finished, joined>>

\* core_initializer sets the thread id from its argument and returns.
CoreInitializer(c) ==
    /\ rax[c] = Initializer
    /\ Step(c, "run", "set_done")
    /\ thread_id' = [thread_id EXCEPT ![c] = rdi[c] + 1]
    /\ UNCHANGED <<ctxVars, rax, rdi, executing_cores, mainVars, callVars, histVars>>

\* Mutant: the return misses the store of the flag.
JobReturns_NotDone(c) ==
    /\ Running(c) /\ call[c] = "none"
    /\ Step(c, "run", "dec")
    /\ finished' = finished \cup {rax[c]}
    /\ handles' = [handles EXCEPT ![c] = {}]
    /\ UNCHANGED <<ctxVars, rax, rdi, executing_cores, thread_id, mainVars, call, job, index,
                   posted, started, joined>>

\* The function of a job returns.
JobReturns(c) ==
    /\ Running(c) /\ call[c] = "none"
    /\ Step(c, "run", "set_done")
    /\ finished' = finished \cup {rax[c]}
    /\ handles' = [handles EXCEPT ![c] = {}]
    /\ UNCHANGED <<ctxVars, rax, rdi, executing_cores, thread_id, mainVars, call, job, index,
                   posted, started, joined>>

SetDone(c) ==
    /\ Step(c, "set_done", "dec")
    /\ done' = [done EXCEPT ![c] = 1]
    /\ UNCHANGED <<code_ptr, arg, rax, rdi, executing_cores, thread_id, mainVars, callVars,
                   histVars>>

\* lock dec qword [executing_cores]; jmp .loop
DecExecuting(c) ==
    /\ Step(c, "dec", "loop")
    /\ executing_cores' = executing_cores - 1
    /\ rax' = [rax EXCEPT ![c] = Null]
    /\ rdi' = [rdi EXCEPT ![c] = Null]
    /\ UNCHANGED <<ctxVars, thread_id, mainVars, callVars, histVars>>

-----------------------------------------------------------------------------
(* add_thread and join_thread, called by the function that runs on core t   *)

\* Calling(t, p) and Proceed(t, p, q): the call made on core t is at p, and
\* goes from p to q.
Calling(t, p) == Up /\ Running(t) /\ call[t] = p
Proceed(t, p, q) == Calling(t, p) /\ call' = [call EXCEPT ![t] = q]

Adding(t) == call[t] \in {"check", "store_arg", "store_code", "spin"}

AddThread(t) ==
    /\ Proceed(t, "none", "check")
    /\ SerialAdds => \A u \in Cores : ~Adding(u)
    /\ \E j \in Jobs \ (posted \cup {job[u] : u \in Cores}) : job' = [job EXCEPT ![t] = j]
    /\ index' = [index EXCEPT ![t] = 1]
    /\ UNCHANGED <<ctxVars, apVars, executing_cores, thread_id, mainVars, handles, histVars>>

\* One iteration of the search for a core that is done; 0 when there is none.
CheckCore(t) ==
    /\ Calling(t, "check")
    /\ \/ /\ index[t] >= num_usable_cores
          /\ call' = [call EXCEPT ![t] = "none"]
          /\ job' = [job EXCEPT ![t] = Null]
          /\ index' = [index EXCEPT ![t] = 0]
       \/ /\ index[t] < num_usable_cores /\ done[index[t]] = 1
          /\ call' = [call EXCEPT ![t] = "store_arg"]
          /\ UNCHANGED <<job, index>>
       \/ /\ index[t] < num_usable_cores /\ done[index[t]] # 1
          /\ index' = [index EXCEPT ![t] = @ + 1]
          /\ UNCHANGED <<call, job>>
    /\ UNCHANGED <<ctxVars, apVars, executing_cores, thread_id, mainVars, handles, histVars>>

\* Mutant: the argument of the core's previous function stays in the mailbox.
StoreArg_Missing(t) ==
    /\ Proceed(t, "store_arg", "store_code")
    /\ UNCHANGED <<ctxVars, apVars, executing_cores, thread_id, mainVars, job, index, handles,
                   histVars>>

StoreArg(t) ==
    /\ Proceed(t, "store_arg", "store_code")
    /\ arg' = [arg EXCEPT ![index[t]] = job[t]]
    /\ UNCHANGED <<code_ptr, done, apVars, executing_cores, thread_id, mainVars, job, index,
                   handles, histVars>>

StoreCode(t) ==
    /\ Proceed(t, "store_code", "spin")
    /\ code_ptr' = [code_ptr EXCEPT ![index[t]] = job[t]]
    /\ posted' = posted \cup {job[t]}
    /\ UNCHANGED <<arg, done, apVars, executing_cores, thread_id, mainVars, job, index, handles,
                   started, finished, joined>>

\* while (code_ptr.load() != nullptr) ping_core_sync(i); return core_to_thread(i)
SpinUntilTaken(t) ==
    /\ Proceed(t, "spin", "none")
    /\ code_ptr[index[t]] = Null
    /\ handles' = [handles EXCEPT ![t] = @ \cup {<<job[t], index[t]>>}]
    /\ job' = [job EXCEPT ![t] = Null]
    /\ index' = [index EXCEPT ![t] = 0]
    /\ UNCHANGED <<ctxVars, apVars, executing_cores, thread_id, mainVars, histVars>>

JoinThread(t) ==
    /\ Proceed(t, "none", "join")
    /\ \E h \in handles[t] :
         /\ job' = [job EXCEPT ![t] = h[1]]
         /\ index' = [index EXCEPT ![t] = h[2]]
         /\ handles' = [handles EXCEPT ![t] = @ \ {h}]
    /\ UNCHANGED <<ctxVars, apVars, executing_cores, thread_id, mainVars, histVars>>

\* while (!is_thread_done(id)) pause
JoinSpin(t) ==
    /\ Proceed(t, "join", "none")
    /\ done[index[t]] = 1
    /\ joined' = joined \cup {job[t]}
    /\ job' = [job EXCEPT ![t] = Null]
    /\ index' = [index EXCEPT ![t] = 0]
    /\ UNCHANGED <<ctxVars, apVars, executing_cores, thread_id, mainVars, handles,
                   posted, started, finished>>

-----------------------------------------------------------------------------
MainStep == MonzaMain \/ StartCore \/ WaitCore \/ Shutdown

ApStep(c) ==
    \/ ApInit(c) \/ PollCode(c) \/ LoadArg(c) \/ IncExecuting(c) \/ ClearDone(c)
    \/ ClearCode(c) \/ CoreInitializer(c) \/ SetDone(c) \/ DecExecuting(c)

CallStep(t) ==
    CheckCore(t) \/ StoreArg(t) \/ StoreCode(t) \/ SpinUntilTaken(t) \/ JoinSpin(t)

Next ==
    \/ MainStep \/ InitializeThreads \/ MainReturns
    \/ \E c \in Aps : ApStep(c) \/ JobReturns(c)
    \/ \E t \in Cores : AddThread(t) \/ JoinThread(t) \/ CallStep(t)

\* Cores keep executing.  The functions of the application return: a job does
\* not call add_thread for ever when no core is free.
Fairness ==
    /\ WF_vars(MainStep)
    /\ \A c \in Aps : WF_vars(ApStep(c)) /\ SF_vars(JobReturns(c))
    /\ \A t \in Cores : WF_vars(CallStep(t))

Spec == Init /\ [][Next]_vars
FairSpec == Spec /\ Fairness

-----------------------------------------------------------------------------
(* Properties                                                              *)

\* The machine is shut down only when no core executes a function and no
\* function is waiting in a mailbox, although a core counts itself only after
\* it has picked its function up, and whoever calls add_thread.
ShutdownIsQuiescent ==
    mpc = "off" => \A c \in Aps : code_ptr[c] = Null /\ apc[c] \in {"off", "loop"}

\* When calls of add_thread do not overlap, a function is called with the
\* argument it was posted with, and once; what add_thread accepted is in a
\* mailbox until it is called, so everything accepted is finished at shutdown.
EveryJobRunsOnce ==
    SerialAdds =>
        /\ \A j \in Jobs : started[j] <= 1
        /\ \A c \in Aps : apc[c] = "run" /\ rax[c] \in Jobs => rdi[c] = rax[c]
        /\ \A j \in posted : started[j] > 0 \/ \E c \in Aps : code_ptr[c] = j
        /\ mpc = "off" => posted \subseteq finished

\* join_thread returns only after the function it waits for has returned: the
\* done flag of the core's previous job is never taken for this one's.
JoinWaitsForTheJob == SerialAdds => joined \subseteq finished

\* Every call of add_thread returns, with a core or with 0; so does every call
\* of join_thread, even when the core it watches is given to other jobs, which
\* may be joining others in turn; and once main() has returned the machine
\* shuts down.
DispatchEnds ==
    /\ \A t \in Cores : Adding(t) ~> ~Adding(t)
    /\ \A t \in Cores : call[t] = "join" ~> call[t] # "join"
    /\ mpc = "spin" ~> mpc = "off"

=============================================================================
