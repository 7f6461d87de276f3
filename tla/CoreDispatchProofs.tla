------------------------- MODULE CoreDispatchProofs -------------------------
(***************************************************************************)
(* What holds of the thread dispatch of the cores, for any number of cores *)
(* and jobs.                                                               *)
(*                                                                         *)
(* The machine is never shut down under a running or a posted function,    *)
(* whether calls of add_thread overlap or not (ShutdownWaitsForAllWork).   *)
(* The argument: executing_cores is the number of cores between their      *)
(* increment and their decrement (CountIsExact), and a function that no    *)
(* core has counted yet keeps its poster, which is counted, inside         *)
(* add_thread or initialize_threads (PosterWaits).                         *)
(*                                                                         *)
(* Where calls of add_thread do not overlap, every job runs once, with its *)
(* own argument (JobsRunOnce), and a join returns only after its job has   *)
(* (JoinsWait).  The argument: the one adder that may be about finds every *)
(* mailbox empty while it searches, so the flag it sees set belongs to a   *)
(* core that has nothing to do; it stays until its function is taken, so   *)
(* that a function is in one mailbox only, with its own argument; and a    *)
(* core clears the flag before it empties the mailbox, so that whoever     *)
(* holds a handle finds the flag set only after the function has returned. *)
(***************************************************************************)
EXTENDS CoreDispatch, FiniteSetTheorems, TLAPS

\* The variables of a call in progress.
TypedCalls ==
    /\ job \in [Cores -> Jobs \cup {Null}]
    /\ index \in [Cores -> 0..NumCores]
    /\ handles \in [Cores -> SUBSET (Jobs \X Aps)]

\* The part of the type invariant the argument uses.
Typed ==
    /\ code_ptr \in [Aps -> Jobs \cup {Initializer, Null}]
    /\ done \in [Aps -> {0, 1}]
    /\ apc \in [Aps -> ApPoints]
    /\ rax \in [Aps -> Jobs \cup {Initializer, Null}]
    /\ mpc \in MainPoints
    /\ scan \in 1..NumCores
    /\ num_usable_cores \in {1, NumCores}
    /\ call \in [Cores -> {"none", "check", "store_arg", "store_code", "spin", "join"}]
    /\ TypedCalls

\* The cores that have incremented executing_cores and not decremented it.
CountedCores ==
    {c \in Cores : IF c = 0 THEN mpc \in MainCounted ELSE apc[c] \in Counted}

CountIsExact == executing_cores = Cardinality(CountedCores)

\* A call of add_thread is made by a running function, for a job, and looks at
\* the mailbox of another core.
CallsAreMadeByRunning ==
    \A t \in Cores :
        /\ call[t] # "none" => Running(t)
        /\ Adding(t) => job[t] \in Jobs /\ index[t] \in 1..NumCores
        /\ call[t] \in {"store_arg", "store_code", "spin"} => index[t] \in 1..(num_usable_cores - 1)

\* Before initialize_threads nothing runs and no mailbox is filled.
AllOff ==
    \A c \in Aps : apc[c] = "off" /\ code_ptr[c] = Null /\ rax[c] = Null /\ done[c] = 0

\* While initialize_threads runs there are only initializers about, and a core
\* that is done has an empty mailbox.
Initializing ==
    /\ \A t \in Cores : call[t] = "none"
    /\ \A c \in Aps :
         /\ code_ptr[c] \notin Jobs /\ rax[c] \notin Jobs
         /\ apc[c] \in {"run", "set_done", "dec"} \/ done[c] = 1 =>
              code_ptr[c] = Null /\ apc[c] \in {"run", "set_done", "dec", "loop"}

StartInv ==
    /\ mpc = "boot" \/ num_usable_cores = 1 => AllOff
    /\ mpc = "boot" => num_usable_cores = 1 /\ \A t \in Cores : call[t] = "none"
    /\ mpc \in {"start", "wait"} => num_usable_cores = NumCores /\ Initializing
    /\ mpc = "start" => \A c \in Aps : c >= scan => apc[c] = "off"
    /\ mpc = "wait" => \A c \in Aps : c < scan => done[c] = 1

\* A core that is about to take a function finds it in its mailbox.
UntakenIsPosted ==
    \A c \in Aps :
        apc[c] \in {"reset", "arg", "inc", "clear_done", "clear_code"} => code_ptr[c] # Null

\* Whoever filled a mailbox stays until it is emptied.
PosterWaits ==
    \A c \in Aps :
        code_ptr[c] # Null =>
            \/ mpc \in {"start", "wait"}
            \/ \E t \in Cores : call[t] = "spin" /\ index[t] = c

\* Nothing is counted, and so nothing moves, after the shutdown.
OffIsZero == mpc = "off" => executing_cores = 0

Inv ==
    /\ Typed /\ CountIsExact /\ OffIsZero /\ CallsAreMadeByRunning /\ StartInv
    /\ UntakenIsPosted /\ PosterWaits

\* Core 0 and the others.
LEMMA CoresFacts == 0 \in Cores /\ Aps = Cores \ {0} /\ Cores \subseteq Nat
BY SMTT(40), CoresAssumption DEF Cores, Aps

USE CoresAssumption, JobsAssumption, SerialAssumption, CoresFacts
    DEF Counted, MainCounted, ApPoints, MainPoints, Up, At, Step, Calling, Proceed,
        ctxVars, apVars, mainVars, callVars, histVars

\* Every step keeps the types the argument needs.
LEMMA TypedStep == ASSUME Inv, [Next]_vars PROVE Typed'
<1> USE DEF Inv, Typed, TypedCalls, CallsAreMadeByRunning, Adding, StartInv
<1>1. CASE MonzaMain
  BY Zenon, <1>1 DEF MonzaMain
<1>2. CASE InitializeThreads
  BY <1>2 DEF InitializeThreads
<1>3. CASE StartCore
  <2>1. CASE scan < num_usable_cores
    <3>1. scan \in Aps
      BY <2>1 DEF Aps
    <3>2. code_ptr' \in [Aps -> Jobs \cup {Initializer, Null}] /\ apc' \in [Aps -> ApPoints]
      BY <1>3, <2>1, <3>1 DEF StartCore
    <3> QED
      BY <1>3, <2>1, <3>1, <3>2 DEF StartCore
  <2>2. CASE ~(scan < num_usable_cores)
    BY <1>3, <2>2 DEF StartCore
  <2> QED
    BY Zenon, <2>1, <2>2
<1>4. CASE WaitCore
  BY <1>4 DEF WaitCore
<1>5. CASE MainReturns
  BY Zenon, <1>5 DEF MainReturns
<1>6. CASE Shutdown
  BY Zenon, <1>6 DEF Shutdown
<1>7. ASSUME NEW c \in Aps, ApInit(c) PROVE Typed'
  BY Zenon, <1>7 DEF ApInit
<1>8. ASSUME NEW c \in Aps, PollCode(c) PROVE Typed'
  BY Zenon, <1>8 DEF PollCode
<1>9. ASSUME NEW c \in Aps, LoadArg(c) PROVE Typed'
  BY Zenon, <1>9 DEF LoadArg
<1>10. ASSUME NEW c \in Aps, IncExecuting(c) PROVE Typed'
  BY Zenon, <1>10 DEF IncExecuting
<1>11. ASSUME NEW c \in Aps, ClearDone(c) PROVE Typed'
  BY Zenon, <1>11 DEF ClearDone
<1>12. ASSUME NEW c \in Aps, ClearCode(c) PROVE Typed'
  BY Zenon, <1>12 DEF ClearCode
<1>13. ASSUME NEW c \in Aps, CoreInitializer(c) PROVE Typed'
  BY Zenon, <1>13 DEF CoreInitializer
<1>14. ASSUME NEW c \in Aps, JobReturns(c) PROVE Typed'
  BY Zenon, <1>14 DEF JobReturns
<1>15. ASSUME NEW c \in Aps, SetDone(c) PROVE Typed'
  BY Zenon, <1>15 DEF SetDone
<1>16. ASSUME NEW c \in Aps, DecExecuting(c) PROVE Typed'
  BY Zenon, <1>16 DEF DecExecuting
<1>17. ASSUME NEW t \in Cores, AddThread(t) PROVE Typed'
  BY <1>17 DEF AddThread
<1>18. ASSUME NEW t \in Cores, CheckCore(t) PROVE Typed'
  <2>1. index[t] \in 1..NumCores
    BY Zenon, <1>18 DEF CheckCore
  <2>2. CASE index[t] >= num_usable_cores
    BY <1>18, <2>1, <2>2 DEF CheckCore
  <2>3. CASE index[t] < num_usable_cores /\ done[index[t]] = 1
    BY <1>18, <2>1, <2>3 DEF CheckCore
  <2>4. CASE index[t] < num_usable_cores /\ done[index[t]] # 1
    <3>1. index[t] + 1 \in 0..NumCores
      BY <2>1, <2>4
    <3> QED
      BY <1>18, <2>4, <3>1 DEF CheckCore
  <2> QED
    BY <2>1, <2>2, <2>3, <2>4
<1>19. ASSUME NEW t \in Cores, StoreArg(t) PROVE Typed'
  BY Zenon, <1>19 DEF StoreArg
<1>20. ASSUME NEW t \in Cores, StoreCode(t) PROVE Typed'
  BY ZenonT(40), <1>20 DEF StoreCode
<1>21. ASSUME NEW t \in Cores, SpinUntilTaken(t) PROVE Typed'
  <2>1. <<job[t], index[t]>> \in Jobs \X Aps
    BY <1>21 DEF SpinUntilTaken, Aps
  <2> QED
    BY <1>21, <2>1 DEF SpinUntilTaken
<1>22. ASSUME NEW t \in Cores, JoinThread(t) PROVE Typed'
  <2>1. PICK h \in handles[t] :
          /\ job' = [job EXCEPT ![t] = h[1]]
          /\ index' = [index EXCEPT ![t] = h[2]]
          /\ handles' = [handles EXCEPT ![t] = @ \ {h}]
    BY ZenonT(40), <1>22 DEF JoinThread
  <2>2. h[1] \in Jobs /\ h[2] \in 0..NumCores
    BY <2>1 DEF Aps
  <2>3. handles' \in [Cores -> SUBSET (Jobs \X Aps)]
    BY Zenon, <2>1
  <2> QED
    BY Zenon, <1>22, <2>1, <2>2, <2>3 DEF JoinThread
<1>23. ASSUME NEW t \in Cores, JoinSpin(t) PROVE Typed'
  BY <1>23 DEF JoinSpin
<1>24. CASE UNCHANGED vars
  BY Zenon, <1>24 DEF vars
<1> QED
  BY ZenonT(40), <1>1, <1>2, <1>3, <1>4, <1>5, <1>6, <1>7, <1>8, <1>9, <1>10, <1>11, <1>12, <1>13,
     <1>14, <1>15, <1>16, <1>17, <1>18, <1>19, <1>20, <1>21, <1>22, <1>23, <1>24 DEF Next,
     MainStep, ApStep, CallStep

\* Only a running function is in a call of the thread API.
LEMMA CallsStep == ASSUME Inv, [Next]_vars PROVE CallsAreMadeByRunning'
<1> USE DEF Inv, Typed, TypedCalls, CallsAreMadeByRunning, Adding, StartInv, Initializing, Running
<1>1. CASE MonzaMain
  BY Zenon, <1>1 DEF MonzaMain
<1>2. CASE InitializeThreads
  BY <1>2 DEF InitializeThreads
<1>3. CASE StartCore
  <2>1. CASE scan < num_usable_cores
    BY Zenon, <1>3, <2>1 DEF StartCore
  <2>2. CASE ~(scan < num_usable_cores)
    BY Zenon, <1>3, <2>2 DEF StartCore
  <2> QED
    BY ZenonT(40), <2>1, <2>2
<1>4. CASE WaitCore
  BY Zenon, <1>4 DEF WaitCore
<1>5. CASE MainReturns
  BY Zenon, <1>5 DEF MainReturns
<1>6. CASE Shutdown
  BY Zenon, <1>6 DEF Shutdown
<1>7. ASSUME NEW c \in Aps, ApInit(c) PROVE CallsAreMadeByRunning'
  BY Zenon, <1>7 DEF ApInit
<1>8. ASSUME NEW c \in Aps, PollCode(c) PROVE CallsAreMadeByRunning'
  BY Zenon, <1>8 DEF PollCode
<1>9. ASSUME NEW c \in Aps, LoadArg(c) PROVE CallsAreMadeByRunning'
  BY Zenon, <1>9 DEF LoadArg
<1>10. ASSUME NEW c \in Aps, IncExecuting(c) PROVE CallsAreMadeByRunning'
  BY Zenon, <1>10 DEF IncExecuting
<1>11. ASSUME NEW c \in Aps, ClearDone(c) PROVE CallsAreMadeByRunning'
  BY Zenon, <1>11 DEF ClearDone
<1>12. ASSUME NEW c \in Aps, ClearCode(c) PROVE CallsAreMadeByRunning'
  BY Zenon, <1>12 DEF ClearCode
<1>13. ASSUME NEW c \in Aps, CoreInitializer(c) PROVE CallsAreMadeByRunning'
  BY Zenon, <1>13 DEF CoreInitializer
<1>14. ASSUME NEW c \in Aps, JobReturns(c) PROVE CallsAreMadeByRunning'
  BY Zenon, <1>14 DEF JobReturns
<1>15. ASSUME NEW c \in Aps, SetDone(c) PROVE CallsAreMadeByRunning'
  BY ZenonT(40), <1>15 DEF SetDone
<1>16. ASSUME NEW c \in Aps, DecExecuting(c) PROVE CallsAreMadeByRunning'
  BY Zenon, <1>16 DEF DecExecuting
<1>17. ASSUME NEW t \in Cores, AddThread(t) PROVE CallsAreMadeByRunning'
  BY <1>17 DEF AddThread
<1>18. ASSUME NEW t \in Cores, CheckCore(t) PROVE CallsAreMadeByRunning'
  BY <1>18 DEF CheckCore
<1>19. ASSUME NEW t \in Cores, StoreArg(t) PROVE CallsAreMadeByRunning'
  BY Zenon, <1>19 DEF StoreArg
<1>20. ASSUME NEW t \in Cores, StoreCode(t) PROVE CallsAreMadeByRunning'
  BY Zenon, <1>20 DEF StoreCode
<1>21. ASSUME NEW t \in Cores, SpinUntilTaken(t) PROVE CallsAreMadeByRunning'
  BY Zenon, <1>21 DEF SpinUntilTaken
<1>22. ASSUME NEW t \in Cores, JoinThread(t) PROVE CallsAreMadeByRunning'
  <2>1. PICK h \in handles[t] : job' = [job EXCEPT ![t] = h[1]] /\ index' = [index EXCEPT ![t] = h[2]]
    BY Zenon, <1>22 DEF JoinThread
  <2>2. /\ Running(t) /\ call' = [call EXCEPT ![t] = "join"]
        /\ UNCHANGED <<apc, rax, mpc, num_usable_cores>>
    BY Zenon, <1>22 DEF JoinThread
  <2>3. ASSUME NEW u \in Cores, u # t
        PROVE  call'[u] = call[u] /\ job'[u] = job[u] /\ index'[u] = index[u]
    BY <2>1, <2>2, <2>3
  <2>4. call'[t] = "join"
    BY <2>2
  <2> QED
    BY <2>2, <2>3, <2>4
<1>23. ASSUME NEW t \in Cores, JoinSpin(t) PROVE CallsAreMadeByRunning'
  BY Zenon, <1>23 DEF JoinSpin
<1>24. CASE UNCHANGED vars
  BY SMTT(40), <1>24 DEF vars
<1> QED
  BY ZenonT(40), <1>1, <1>2, <1>3, <1>4, <1>5, <1>6, <1>7, <1>8, <1>9, <1>10, <1>11, <1>12, <1>13,
     <1>14, <1>15, <1>16, <1>17, <1>18, <1>19, <1>20, <1>21, <1>22, <1>23, <1>24 DEF Next,
     MainStep, ApStep, CallStep

\* A function a core has read stays in its mailbox until the core clears it.
LEMMA UntakenStep == ASSUME Inv, [Next]_vars PROVE UntakenIsPosted'
<1> USE DEF Inv, Typed, TypedCalls, CallsAreMadeByRunning, Adding, StartInv, UntakenIsPosted
<1>1. CASE MonzaMain
  BY Zenon, <1>1 DEF MonzaMain
<1>2. CASE InitializeThreads
  BY Zenon, <1>2 DEF InitializeThreads
<1>3. CASE StartCore
  <2>1. CASE scan < num_usable_cores
    BY <1>3, <2>1 DEF StartCore
  <2>2. CASE ~(scan < num_usable_cores)
    BY <1>3, <2>2 DEF StartCore
  <2> QED
    BY Zenon, <2>1, <2>2
<1>4. CASE WaitCore
  BY Zenon, <1>4 DEF WaitCore
<1>5. CASE MainReturns
  BY Zenon, <1>5 DEF MainReturns
<1>6. CASE Shutdown
  BY Zenon, <1>6 DEF Shutdown
<1>7. ASSUME NEW c \in Aps, ApInit(c) PROVE UntakenIsPosted'
  BY Zenon, <1>7 DEF ApInit
<1>8. ASSUME NEW c \in Aps, PollCode(c) PROVE UntakenIsPosted'
  BY Zenon, <1>8 DEF PollCode
<1>9. ASSUME NEW c \in Aps, LoadArg(c) PROVE UntakenIsPosted'
  BY <1>9 DEF LoadArg
<1>10. ASSUME NEW c \in Aps, IncExecuting(c) PROVE UntakenIsPosted'
  BY <1>10 DEF IncExecuting
<1>11. ASSUME NEW c \in Aps, ClearDone(c) PROVE UntakenIsPosted'
  BY <1>11 DEF ClearDone
<1>12. ASSUME NEW c \in Aps, ClearCode(c) PROVE UntakenIsPosted'
  BY Zenon, <1>12 DEF ClearCode
<1>13. ASSUME NEW c \in Aps, CoreInitializer(c) PROVE UntakenIsPosted'
  BY Zenon, <1>13 DEF CoreInitializer
<1>14. ASSUME NEW c \in Aps, JobReturns(c) PROVE UntakenIsPosted'
  BY Zenon, <1>14 DEF JobReturns
<1>15. ASSUME NEW c \in Aps, SetDone(c) PROVE UntakenIsPosted'
  BY Zenon, <1>15 DEF SetDone
<1>16. ASSUME NEW c \in Aps, DecExecuting(c) PROVE UntakenIsPosted'
  BY Zenon, <1>16 DEF DecExecuting
<1>17. ASSUME NEW t \in Cores, AddThread(t) PROVE UntakenIsPosted'
  BY Zenon, <1>17 DEF AddThread
<1>18. ASSUME NEW t \in Cores, CheckCore(t) PROVE UntakenIsPosted'
  BY Zenon, <1>18 DEF CheckCore
<1>19. ASSUME NEW t \in Cores, StoreArg(t) PROVE UntakenIsPosted'
  BY Zenon, <1>19 DEF StoreArg
<1>20. ASSUME NEW t \in Cores, StoreCode(t) PROVE UntakenIsPosted'
  BY Zenon, <1>20 DEF StoreCode
<1>21. ASSUME NEW t \in Cores, SpinUntilTaken(t) PROVE UntakenIsPosted'
  BY Zenon, <1>21 DEF SpinUntilTaken
<1>22. ASSUME NEW t \in Cores, JoinThread(t) PROVE UntakenIsPosted'
  BY Zenon, <1>22 DEF JoinThread
<1>23. ASSUME NEW t \in Cores, JoinSpin(t) PROVE UntakenIsPosted'
  BY Zenon, <1>23 DEF JoinSpin
<1>24. CASE UNCHANGED vars
  BY Zenon, <1>24 DEF vars
<1> QED
  BY Zenon, <1>1, <1>2, <1>3, <1>4, <1>5, <1>6, <1>7, <1>8, <1>9, <1>10, <1>11, <1>12, <1>13,
     <1>14, <1>15, <1>16, <1>17, <1>18, <1>19, <1>20, <1>21, <1>22, <1>23, <1>24 DEF Next,
     MainStep, ApStep, CallStep

\* Whoever posted a function that no core has taken is still in add_thread.
LEMMA PosterStep == ASSUME Inv, [Next]_vars PROVE PosterWaits'
<1> USE DEF Inv, Typed, TypedCalls, CallsAreMadeByRunning, Adding, StartInv, Initializing, PosterWaits
<1>1. CASE MonzaMain
  BY Zenon, <1>1 DEF MonzaMain
<1>2. CASE InitializeThreads
  BY Zenon, <1>2 DEF InitializeThreads
<1>3. CASE StartCore
  <2>1. CASE scan < num_usable_cores
    BY Zenon, <1>3, <2>1 DEF StartCore
  <2>2. CASE ~(scan < num_usable_cores)
    BY Zenon, <1>3, <2>2 DEF StartCore
  <2> QED
    BY Zenon, <2>1, <2>2
<1>4. CASE WaitCore
  BY <1>4 DEF WaitCore, Aps
<1>5. CASE MainReturns
  BY Zenon, <1>5 DEF MainReturns
<1>6. CASE Shutdown
  BY Zenon, <1>6 DEF Shutdown
<1>7. ASSUME NEW c \in Aps, ApInit(c) PROVE PosterWaits'
  BY Zenon, <1>7 DEF ApInit
<1>8. ASSUME NEW c \in Aps, PollCode(c) PROVE PosterWaits'
  BY Zenon, <1>8 DEF PollCode
<1>9. ASSUME NEW c \in Aps, LoadArg(c) PROVE PosterWaits'
  BY Zenon, <1>9 DEF LoadArg
<1>10. ASSUME NEW c \in Aps, IncExecuting(c) PROVE PosterWaits'
  BY Zenon, <1>10 DEF IncExecuting
<1>11. ASSUME NEW c \in Aps, ClearDone(c) PROVE PosterWaits'
  BY Zenon, <1>11 DEF ClearDone
<1>12. ASSUME NEW c \in Aps, ClearCode(c) PROVE PosterWaits'
  BY Zenon, <1>12 DEF ClearCode
<1>13. ASSUME NEW c \in Aps, CoreInitializer(c) PROVE PosterWaits'
  BY Zenon, <1>13 DEF CoreInitializer
<1>14. ASSUME NEW c \in Aps, JobReturns(c) PROVE PosterWaits'
  BY Zenon, <1>14 DEF JobReturns
<1>15. ASSUME NEW c \in Aps, SetDone(c) PROVE PosterWaits'
  BY Zenon, <1>15 DEF SetDone
<1>16. ASSUME NEW c \in Aps, DecExecuting(c) PROVE PosterWaits'
  BY Zenon, <1>16 DEF DecExecuting
<1>17. ASSUME NEW t \in Cores, AddThread(t) PROVE PosterWaits'
  BY Zenon, <1>17 DEF AddThread
<1>18. ASSUME NEW t \in Cores, CheckCore(t) PROVE PosterWaits'
  <2>1. \A u \in Cores : call[u] = "spin" => call'[u] = "spin" /\ index'[u] = index[u]
    BY <1>18 DEF CheckCore
  <2> QED
    BY <1>18, <2>1 DEF CheckCore
<1>19. ASSUME NEW t \in Cores, StoreArg(t) PROVE PosterWaits'
  BY Zenon, <1>19 DEF StoreArg
<1>20. ASSUME NEW t \in Cores, StoreCode(t) PROVE PosterWaits'
  BY <1>20 DEF StoreCode
<1>21. ASSUME NEW t \in Cores, SpinUntilTaken(t) PROVE PosterWaits'
  BY Zenon, <1>21 DEF SpinUntilTaken
<1>22. ASSUME NEW t \in Cores, JoinThread(t) PROVE PosterWaits'
  BY <1>22 DEF JoinThread
<1>23. ASSUME NEW t \in Cores, JoinSpin(t) PROVE PosterWaits'
  BY Zenon, <1>23 DEF JoinSpin
<1>24. CASE UNCHANGED vars
  BY SMTT(40), <1>24 DEF vars
<1> QED
  BY Zenon, <1>1, <1>2, <1>3, <1>4, <1>5, <1>6, <1>7, <1>8, <1>9, <1>10, <1>11, <1>12, <1>13,
     <1>14, <1>15, <1>16, <1>17, <1>18, <1>19, <1>20, <1>21, <1>22, <1>23, <1>24 DEF Next,
     MainStep, ApStep, CallStep

\* initialize_threads does not return before every core it started is in its loop.
LEMMA StartStep == ASSUME Inv, [Next]_vars PROVE StartInv'
<1> USE DEF Inv, Typed, CallsAreMadeByRunning, Adding, StartInv, AllOff, Initializing,
            UntakenIsPosted, Running
<1>1. CASE MonzaMain
  BY <1>1 DEF MonzaMain
<1>2. CASE InitializeThreads
  BY <1>2 DEF InitializeThreads
<1>3. CASE StartCore
  <2>1. CASE scan < num_usable_cores
    <3>1. scan \in Aps /\ num_usable_cores # 1
      BY <1>3, <2>1 DEF StartCore, Aps
    <3>4. apc[scan] = "off" /\ done[scan] = 0
      BY <1>3, <3>1 DEF StartCore
    <3>2. Initializing'
      BY <1>3, <2>1, <3>1, <3>4 DEF StartCore
    <3>3. \A c \in Aps : c >= scan' => apc'[c] = "off"
      BY <1>3, <2>1, <3>1 DEF StartCore
    <3> QED
      BY Zenon, <1>3, <2>1, <3>1, <3>2, <3>3, <3>4 DEF StartCore
  <2>2. CASE ~(scan < num_usable_cores)
    BY <1>3, <2>2 DEF StartCore
  <2> QED
    BY Zenon, <2>1, <2>2
<1>4. CASE WaitCore
  BY <1>4 DEF WaitCore, Aps
<1>5. CASE MainReturns
  BY <1>5 DEF MainReturns
<1>6. CASE Shutdown
  BY <1>6 DEF Shutdown
<1>7. ASSUME NEW c \in Aps, ApInit(c) PROVE StartInv'
  BY Zenon, <1>7 DEF ApInit
<1>8. ASSUME NEW c \in Aps, PollCode(c) PROVE StartInv'
  BY <1>8 DEF PollCode
<1>9. ASSUME NEW c \in Aps, LoadArg(c) PROVE StartInv'
  BY Zenon, <1>9 DEF LoadArg
<1>10. ASSUME NEW c \in Aps, IncExecuting(c) PROVE StartInv'
  BY Zenon, <1>10 DEF IncExecuting
<1>11. ASSUME NEW c \in Aps, ClearDone(c) PROVE StartInv'
  BY <1>11 DEF ClearDone
<1>12. ASSUME NEW c \in Aps, ClearCode(c) PROVE StartInv'
  BY Zenon, <1>12 DEF ClearCode
<1>13. ASSUME NEW c \in Aps, CoreInitializer(c) PROVE StartInv'
  BY <1>13 DEF CoreInitializer
<1>14. ASSUME NEW c \in Aps, JobReturns(c) PROVE StartInv'
  BY Zenon, <1>14 DEF JobReturns
<1>15. ASSUME NEW c \in Aps, SetDone(c) PROVE StartInv'
  BY <1>15 DEF SetDone
<1>16. ASSUME NEW c \in Aps, DecExecuting(c) PROVE StartInv'
  BY Zenon, <1>16 DEF DecExecuting
<1>17. ASSUME NEW t \in Cores, AddThread(t) PROVE StartInv'
  BY <1>17 DEF AddThread
<1>18. ASSUME NEW t \in Cores, CheckCore(t) PROVE StartInv'
  BY Zenon, <1>18 DEF CheckCore
<1>19. ASSUME NEW t \in Cores, StoreArg(t) PROVE StartInv'
  BY Zenon, <1>19 DEF StoreArg
<1>20. ASSUME NEW t \in Cores, StoreCode(t) PROVE StartInv'
  BY <1>20 DEF StoreCode
<1>21. ASSUME NEW t \in Cores, SpinUntilTaken(t) PROVE StartInv'
  BY Zenon, <1>21 DEF SpinUntilTaken
<1>22. ASSUME NEW t \in Cores, JoinThread(t) PROVE StartInv'
  BY <1>22 DEF JoinThread
<1>23. ASSUME NEW t \in Cores, JoinSpin(t) PROVE StartInv'
  BY Zenon, <1>23 DEF JoinSpin
<1>24. CASE UNCHANGED vars
  <2>1. UNCHANGED <<code_ptr, done, apc, rax, mpc, scan, num_usable_cores, call>>
    BY Zenon, <1>24 DEF vars
  <2> QED
    BY <2>1
<1> QED
  BY ZenonT(40), <1>1, <1>2, <1>3, <1>4, <1>5, <1>6, <1>7, <1>8, <1>9, <1>10, <1>11, <1>12, <1>13,
     <1>14, <1>15, <1>16, <1>17, <1>18, <1>19, <1>20, <1>21, <1>22, <1>23, <1>24 DEF Next,
     MainStep, ApStep, CallStep

-----------------------------------------------------------------------------
(* Calls of add_thread that do not overlap: the invariant                   *)

\* The function j of core c runs or has returned.
RunsOrRan(j, c) == j \in finished \/ (apc[c] = "run" /\ rax[c] = j)

\* Types of the words and the histories that Inv does not mention.
Words ==
    /\ arg \in [Aps -> Jobs \cup Aps \cup {Null}]
    /\ rdi \in [Aps -> Jobs \cup Aps \cup {Null}]
    /\ posted \subseteq Jobs
    /\ started \in [Jobs -> Nat]

\* A mailbox and the core that reads it.
Mailbox(c) ==
    /\ apc[c] \in {"arg", "inc", "clear_done", "clear_code"} => rax[c] = code_ptr[c]
    /\ apc[c] \in {"inc", "clear_done", "clear_code"} => rdi[c] = arg[c]
    /\ apc[c] = "run" /\ rax[c] \in Jobs => rdi[c] = rax[c]
    /\ code_ptr[c] \in Jobs => arg[c] = code_ptr[c] /\ code_ptr[c] \in posted
    /\ apc[c] \in {"off", "reset", "clear_code", "run", "set_done"} => done[c] = 0

OneAdder == \A t, u \in Cores : Adding(t) /\ Adding(u) => t = u

\* The call of add_thread that core t is in: its job is not posted, the mailbox
\* it writes to is empty and idle, and what it has posted is there or taken.
AddCall(t) ==
    /\ call[t] \in {"check", "store_arg", "store_code"} => job[t] \notin posted
    /\ call[t] \in {"store_arg", "store_code"} => code_ptr[index[t]] = Null /\ done[index[t]] = 1
    /\ call[t] = "store_code" => arg[index[t]] = job[t]
    /\ call[t] = "spin" =>
         code_ptr[index[t]] = job[t] \/ (code_ptr[index[t]] = Null /\ RunsOrRan(job[t], index[t]))

\* What core t joins, and what it may join, was called.
JoinCall(t) == call[t] = "join" => job[t] \in Jobs /\ index[t] \in Aps /\ RunsOrRan(job[t], index[t])
HandlesRan(t) == \A h \in handles[t] : RunsOrRan(h[1], h[2])

\* What became of each job.
JobHistory(j) ==
    /\ started[j] \in {0, 1}
    /\ j \in posted <=> started[j] = 1 \/ \E c \in Aps : code_ptr[c] = j
    /\ \A c \in Aps : code_ptr[c] = j => started[j] = 0
    /\ started[j] = 1 => j \in finished \/ \E c \in Aps : apc[c] = "run" /\ rax[c] = j

SerialInv ==
    /\ Words /\ OneAdder
    /\ \A c \in Aps : Mailbox(c)
    /\ \A t \in Cores : AddCall(t) /\ JoinCall(t) /\ HandlesRan(t)
    /\ \A j \in Jobs : JobHistory(j)
    /\ joined \subseteq finished

\* A function that was called stays so.
Forward == \A j \in Jobs, d \in Aps : RunsOrRan(j, d) => RunsOrRan(j, d)'

\* A job's function runs where it ran.
SameRuns ==
    \A j \in Jobs, d \in Aps : apc'[d] = "run" /\ rax'[d] = j <=> apc[d] = "run" /\ rax[d] = j

USE DEF Up, At, Step, Calling, Proceed, ctxVars, apVars, mainVars, callVars, histVars

-----------------------------------------------------------------------------
(* What Inv and SerialInv say of a state                                   *)

LEMMA Types ==
    ASSUME Inv
    PROVE  /\ code_ptr \in [Aps -> Jobs \cup {Initializer, Null}] /\ done \in [Aps -> {0, 1}]
           /\ apc \in [Aps -> ApPoints] /\ rax \in [Aps -> Jobs \cup {Initializer, Null}]
           /\ DOMAIN call = Cores /\ DOMAIN job = Cores /\ DOMAIN index = Cores
           /\ DOMAIN handles = Cores
  BY Zenon DEF Inv, Typed, TypedCalls

LEMMA CallFacts ==
    ASSUME Inv, NEW t \in Cores
    PROVE  /\ Adding(t) => job[t] \in Jobs
           /\ call[t] \in {"store_arg", "store_code", "spin"} => index[t] \in Aps
           /\ \A h \in handles[t] : h[1] \in Jobs /\ h[2] \in Aps
<1>1. Adding(t) => job[t] \in Jobs
  BY Zenon DEF Inv, CallsAreMadeByRunning
<1>2. ASSUME call[t] \in {"store_arg", "store_code", "spin"} PROVE index[t] \in Aps
  <2>1. index[t] \in 1..(num_usable_cores - 1) /\ num_usable_cores \in {1, NumCores}
    BY Zenon, <1>2 DEF Inv, CallsAreMadeByRunning, Typed
  <2> QED
    BY <2>1, CoresAssumption DEF Aps
<1>3. handles[t] \in SUBSET (Jobs \X Aps)
  BY Zenon DEF Inv, Typed, TypedCalls
<1> QED
  BY Zenon, <1>1, <1>2, <1>3

\* The other cores are not in add_thread.
LEMMA OnlyAdder ==
    ASSUME Inv, SerialInv, NEW t \in Cores, Adding(t), NEW u \in Cores, u # t
    PROVE  call[u] \in {"none", "join"}
<1>1. ~Adding(u)
  BY Zenon DEF SerialInv, OneAdder
<1>2. call[u] \in {"none", "check", "store_arg", "store_code", "spin", "join"}
  BY Zenon DEF Inv, Typed
<1> QED
  BY Zenon, <1>1, <1>2 DEF Adding

\* A function waits in one mailbox only: its poster is the only one.
LEMMA OneMailbox ==
    ASSUME Inv, SerialInv, NEW c \in Aps, NEW d \in Aps,
           code_ptr[c] \in Jobs, code_ptr[d] = code_ptr[c]
    PROVE  c = d
<1>1. mpc \notin {"start", "wait"} /\ code_ptr[c] # Null /\ code_ptr[d] # Null
  BY Zenon, JobsAssumption DEF Inv, StartInv, Initializing
<1>2. PICK t \in Cores : call[t] = "spin" /\ index[t] = c
  BY Zenon, <1>1 DEF Inv, PosterWaits
<1>3. PICK u \in Cores : call[u] = "spin" /\ index[u] = d
  BY Zenon, <1>1 DEF Inv, PosterWaits
<1>4. t = u
  BY Zenon, <1>2, <1>3 DEF SerialInv, OneAdder, Adding
<1> QED
  BY Zenon, <1>2, <1>3, <1>4

\* While the only call of add_thread searches, every mailbox is empty.
LEMMA SearchMailboxes ==
    ASSUME Inv, SerialInv, NEW t \in Cores, call[t] \in {"check", "store_arg", "store_code"}, NEW c \in Aps
    PROVE  code_ptr[c] = Null
<1>1. mpc \notin {"start", "wait"}
  BY Zenon DEF Inv, StartInv, Initializing
<1>2. \A u \in Cores : call[u] # "spin"
  BY Zenon, OnlyAdder DEF Adding
<1> QED
  BY Zenon, <1>1, <1>2 DEF Inv, PosterWaits

-----------------------------------------------------------------------------
(* Parts of the invariant that a step leaves alone                         *)

LEMMA MailboxKept ==
    ASSUME SerialInv, NEW d \in Aps, apc'[d] = apc[d], rax'[d] = rax[d], rdi'[d] = rdi[d],
           code_ptr'[d] = code_ptr[d], arg'[d] = arg[d], done'[d] = done[d], posted \subseteq posted'
    PROVE  Mailbox(d)'
<1>1. Mailbox(d)
  BY Zenon DEF SerialInv
<1> QED
  BY Zenon, <1>1 DEF Mailbox

LEMMA OneAdderKept ==
    ASSUME SerialInv, \A u \in Cores : Adding(u)' => Adding(u)
    PROVE  OneAdder'
  BY Zenon DEF SerialInv, OneAdder

LEMMA RunsKept == ASSUME SameRuns, finished \subseteq finished' PROVE Forward
  BY Zenon DEF SameRuns, Forward, RunsOrRan

LEMMA HistoryKept ==
    ASSUME SerialInv, SameRuns, UNCHANGED <<posted, started, finished>>,
           \A k \in Jobs, d \in Aps : code_ptr'[d] = k <=> code_ptr[d] = k,
           NEW j \in Jobs
    PROVE  JobHistory(j)'
<1>1. JobHistory(j)
  BY Zenon DEF SerialInv
<1> QED
  BY Zenon, <1>1 DEF JobHistory, SameRuns

\* A call that has yet to search writes to no mailbox.
LEMMA IdleCall == ASSUME NEW u \in Cores, call'[u] \in {"none", "join"} PROVE AddCall(u)'
<1>1. call'[u] \notin {"check", "store_arg", "store_code", "spin"}
  BY Zenon
<1> QED
  BY Zenon, <1>1 DEF AddCall

LEMMA AddCallKept ==
    ASSUME Inv, SerialInv, Forward, NEW u \in Cores,
           call'[u] = call[u], job'[u] = job[u], index'[u] = index[u],
           UNCHANGED <<code_ptr, arg, done, posted>>
    PROVE  AddCall(u)'
<1>1. AddCall(u)
  BY Zenon DEF SerialInv
<1>2. call[u] = "spin" => job[u] \in Jobs /\ index[u] \in Aps
  BY Zenon, CallFacts DEF Adding
<1>3. call[u] = "spin" /\ RunsOrRan(job[u], index[u]) => RunsOrRan(job[u], index[u])'
  <2>1. SUFFICES ASSUME call[u] = "spin", RunsOrRan(job[u], index[u])
                 PROVE  RunsOrRan(job[u], index[u])'
    BY Zenon
  <2>2. PICK j \in Jobs, d \in Aps : j = job[u] /\ d = index[u]
    BY Zenon, <1>2, <2>1
  <2>3. RunsOrRan(j, d)'
    BY Zenon, <2>1, <2>2 DEF Forward
  <2> QED BY Zenon, <2>2, <2>3 DEF RunsOrRan
<1> QED
  BY Zenon, <1>1, <1>3 DEF AddCall, RunsOrRan

LEMMA JoinCallKept ==
    ASSUME Inv, SerialInv, Forward, NEW u \in Cores,
           call'[u] = call[u], job'[u] = job[u], index'[u] = index[u]
    PROVE  JoinCall(u)'
<1>1. JoinCall(u)
  BY Zenon DEF SerialInv
<1>2. SUFFICES ASSUME call[u] = "join"
               PROVE  job[u] \in Jobs /\ index[u] \in Aps /\ RunsOrRan(job[u], index[u])'
  BY Zenon DEF JoinCall
<1>3. PICK j \in Jobs, d \in Aps : j = job[u] /\ d = index[u] /\ RunsOrRan(j, d)
  BY Zenon, <1>1, <1>2 DEF JoinCall
<1>4. RunsOrRan(j, d)'
  BY Zenon, <1>3 DEF Forward
<1> QED BY Zenon, <1>3, <1>4 DEF RunsOrRan

LEMMA HandlesKept ==
    ASSUME Inv, SerialInv, Forward, NEW u \in Cores, handles'[u] \subseteq handles[u]
    PROVE  HandlesRan(u)'
<1>1. HandlesRan(u)
  BY Zenon DEF SerialInv
<1>2. \A h \in handles[u] : h[1] \in Jobs /\ h[2] \in Aps
  BY Zenon, CallFacts
<1> QED
  BY Zenon, <1>1, <1>2 DEF HandlesRan, Forward, RunsOrRan

\* A step of core c that is neither the call nor the return of a job, and
\* touches the registers of c only.
LEMMA RegisterStep ==
    ASSUME Inv, SerialInv, NEW c \in Aps, Mailbox(c)',
           UNCHANGED <<ctxVars, callVars, histVars>>,
           rdi' \in [Aps -> Jobs \cup Aps \cup {Null}],
           \A d \in Aps : d # c => apc'[d] = apc[d] /\ rax'[d] = rax[d] /\ rdi'[d] = rdi[d],
           apc[c] = "run" => rax[c] \notin Jobs, apc'[c] # "run"
    PROVE  SerialInv'
<1>1. Words' /\ joined' \subseteq finished'
  BY Zenon DEF SerialInv, Words
<1>2. OneAdder'
  BY Zenon, OneAdderKept DEF Adding
<1>3. ASSUME NEW d \in Aps PROVE Mailbox(d)'
  BY Zenon, MailboxKept
<1>4. SameRuns /\ Forward
  <2>1. SameRuns
    BY Zenon DEF SameRuns
  <2> QED
    BY Zenon, <2>1, RunsKept
<1>5. ASSUME NEW u \in Cores PROVE AddCall(u)' /\ JoinCall(u)' /\ HandlesRan(u)'
  BY Zenon, <1>4, AddCallKept, JoinCallKept, HandlesKept
<1>6. ASSUME NEW j \in Jobs PROVE JobHistory(j)'
  BY Zenon, <1>4, HistoryKept
<1> QED
  BY Zenon, <1>1, <1>2, <1>3, <1>5, <1>6 DEF SerialInv

\* The steps of ap_reset that only touch registers.
LEMMA RegisterSteps ==
    ASSUME Inv, SerialInv, NEW c \in Aps,
           \/ ApInit(c) \/ PollCode(c) \/ LoadArg(c) \/ IncExecuting(c) \/ CoreInitializer(c)
           \/ DecExecuting(c)
    PROVE  SerialInv'
<1>1. /\ DOMAIN apc = Aps /\ DOMAIN rax = Aps
      /\ rdi \in [Aps -> Jobs \cup Aps \cup {Null}] /\ arg \in [Aps -> Jobs \cup Aps \cup {Null}]
  BY Zenon, Types DEF SerialInv, Words
<1>2. UNCHANGED <<ctxVars, callVars, histVars>>
  BY Zenon DEF ApInit, PollCode, LoadArg, IncExecuting, CoreInitializer, DecExecuting
<1>3. Mailbox(c)
  BY Zenon DEF SerialInv
<1>4. CASE ApInit(c)
  <2>1. apc[c] = "reset" /\ apc' = [apc EXCEPT ![c] = "loop"] /\ UNCHANGED <<rax, rdi>>
    BY Zenon, <1>4 DEF ApInit
  <2>2. Mailbox(c)'
    BY Zenon, <1>1, <1>2, <1>3, <2>1 DEF Mailbox
  <2> QED
    BY Zenon, <1>1, <1>2, <2>1, <2>2, RegisterStep
<1>5. CASE PollCode(c)
  <2>1. /\ apc[c] = "loop" /\ apc' = [apc EXCEPT ![c] = "arg"]
        /\ rax' = [rax EXCEPT ![c] = code_ptr[c]] /\ UNCHANGED rdi
    BY Zenon, <1>5 DEF PollCode
  <2>2. Mailbox(c)'
    BY Zenon, <1>1, <1>2, <1>3, <2>1 DEF Mailbox
  <2> QED
    BY Zenon, <1>1, <1>2, <2>1, <2>2, RegisterStep
<1>6. CASE LoadArg(c)
  <2>1. /\ apc[c] = "arg" /\ apc' = [apc EXCEPT ![c] = "inc"]
        /\ rdi' = [rdi EXCEPT ![c] = arg[c]] /\ UNCHANGED rax
    BY Zenon, <1>6 DEF LoadArg
  <2>2. Mailbox(c)'
    BY Zenon, <1>1, <1>2, <1>3, <2>1 DEF Mailbox
  <2> QED
    BY Zenon, <1>1, <1>2, <2>1, <2>2, RegisterStep
<1>7. CASE IncExecuting(c)
  <2>1. apc[c] = "inc" /\ apc' = [apc EXCEPT ![c] = "clear_done"] /\ UNCHANGED <<rax, rdi>>
    BY Zenon, <1>7 DEF IncExecuting
  <2>2. Mailbox(c)'
    BY Zenon, <1>1, <1>2, <1>3, <2>1 DEF Mailbox
  <2> QED
    BY Zenon, <1>1, <1>2, <2>1, <2>2, RegisterStep
<1>8. CASE CoreInitializer(c)
  <2>1. /\ apc[c] = "run" /\ rax[c] \notin Jobs /\ apc' = [apc EXCEPT ![c] = "set_done"]
        /\ UNCHANGED <<rax, rdi>>
    BY Zenon, <1>8, JobsAssumption DEF CoreInitializer
  <2>2. Mailbox(c)'
    BY Zenon, <1>1, <1>2, <1>3, <2>1 DEF Mailbox
  <2> QED
    BY Zenon, <1>1, <1>2, <2>1, <2>2, RegisterStep
<1>9. CASE DecExecuting(c)
  <2>1. /\ apc[c] = "dec" /\ apc' = [apc EXCEPT ![c] = "loop"]
        /\ rax' = [rax EXCEPT ![c] = Null] /\ rdi' = [rdi EXCEPT ![c] = Null]
    BY Zenon, <1>9 DEF DecExecuting
  <2>2. Mailbox(c)'
    BY Zenon, <1>1, <1>2, <1>3, <2>1 DEF Mailbox
  <2> QED
    BY Zenon, <1>1, <1>2, <2>1, <2>2, RegisterStep
<1> QED
  BY Zenon, <1>4, <1>5, <1>6, <1>7, <1>8, <1>9

\* initialize_threads fills the mailbox of a core that is off.
LEMMA StartCoreStep ==
    ASSUME Inv, SerialInv, StartCore, scan < num_usable_cores
    PROVE  SerialInv'
<1>1. scan \in 1..NumCores /\ num_usable_cores \in {1, NumCores}
  BY Zenon DEF Inv, Typed
<1>2. PICK c \in Aps : c = scan
  BY <1>1, CoresAssumption DEF Aps
<1>3. mpc = "start" /\ c >= scan
  BY <1>1, <1>2 DEF StartCore
<1>4. /\ apc[c] = "off" /\ code_ptr[c] \notin Jobs
      /\ \A u \in Cores : call[u] = "none"
  BY Zenon, <1>3 DEF Inv, StartInv, Initializing
<1>5. /\ arg' = [arg EXCEPT ![c] = c] /\ code_ptr' = [code_ptr EXCEPT ![c] = Initializer]
      /\ apc' = [apc EXCEPT ![c] = "reset"] /\ UNCHANGED <<done, rax, rdi, callVars, histVars>>
  BY Zenon, <1>2 DEF StartCore
<1>6. Words'
  BY Zenon, <1>5 DEF SerialInv, Words
<1>7. /\ code_ptr'[c] = Initializer /\ apc'[c] = "reset"
      /\ \A d \in Aps : d # c => arg'[d] = arg[d] /\ code_ptr'[d] = code_ptr[d] /\ apc'[d] = apc[d]
  BY Zenon, <1>5, Types DEF SerialInv, Words
<1>8. ASSUME NEW d \in Aps PROVE Mailbox(d)'
  <2>1. CASE d # c
    BY Zenon, <1>5, <1>7, <2>1, MailboxKept
  <2>2. done[c] = 0
    BY Zenon, <1>4 DEF SerialInv, Mailbox
  <2>3. CASE d = c
    BY Zenon, <1>5, <1>7, <2>2, <2>3, JobsAssumption DEF Mailbox
  <2> QED
    BY Zenon, <2>1, <2>3
<1>9. OneAdder' /\ joined' \subseteq finished'
  BY Zenon, <1>5, OneAdderKept DEF Adding, SerialInv
<1>10. SameRuns /\ Forward
  <2>1. SameRuns
    BY Zenon, <1>4, <1>5, <1>7 DEF SameRuns
  <2> QED
    BY Zenon, <1>5, <2>1, RunsKept
<1>11. ASSUME NEW u \in Cores PROVE AddCall(u)' /\ JoinCall(u)' /\ HandlesRan(u)'
  BY Zenon, <1>4, <1>5, <1>10, IdleCall, JoinCallKept, HandlesKept
<1>12. ASSUME NEW j \in Jobs PROVE JobHistory(j)'
  <2>1. \A k \in Jobs, d \in Aps : code_ptr'[d] = k <=> code_ptr[d] = k
    BY Zenon, <1>4, <1>7, JobsAssumption
  <2> QED
    BY Zenon, <1>5, <1>10, <2>1, HistoryKept
<1> QED
  BY Zenon, <1>6, <1>8, <1>9, <1>11, <1>12 DEF SerialInv

\* The flag is cleared by a core that has yet to empty its mailbox, and set by
\* one that runs no function.
LEMMA DoneSteps ==
    ASSUME Inv, SerialInv, NEW c \in Aps, ClearDone(c) \/ SetDone(c)
    PROVE  SerialInv'
<1>1. /\ \/ apc[c] = "clear_done" /\ apc' = [apc EXCEPT ![c] = "clear_code"] /\ done' = [done EXCEPT ![c] = 0]
         \/ apc[c] = "set_done" /\ apc' = [apc EXCEPT ![c] = "dec"] /\ done' = [done EXCEPT ![c] = 1]
      /\ UNCHANGED <<code_ptr, arg, rax, rdi, callVars, histVars>>
  BY Zenon DEF ClearDone, SetDone
<1>2. /\ \A d \in Aps : d # c => apc'[d] = apc[d] /\ done'[d] = done[d]
      /\ \/ apc[c] = "clear_done" /\ apc'[c] = "clear_code" /\ done'[c] = 0
         \/ apc[c] = "set_done" /\ apc'[c] = "dec" /\ done'[c] = 1
  BY Zenon, <1>1, Types
<1>3. Words' /\ OneAdder' /\ joined' \subseteq finished'
  BY Zenon, <1>1, OneAdderKept DEF SerialInv, Words, Adding
<1>4. ASSUME NEW d \in Aps PROVE Mailbox(d)'
  <2>1. CASE d # c
    BY Zenon, <1>1, <1>2, <2>1, MailboxKept
  <2>2. Mailbox(c)
    BY Zenon DEF SerialInv
  <2>3. CASE d = c
    BY Zenon, <1>1, <1>2, <2>2, <2>3 DEF Mailbox
  <2> QED
    BY Zenon, <2>1, <2>3
<1>5. SameRuns /\ Forward
  <2>1. SameRuns
    BY Zenon, <1>1, <1>2 DEF SameRuns
  <2> QED
    BY Zenon, <1>1, <2>1, RunsKept
<1>6. ASSUME NEW u \in Cores PROVE AddCall(u)'
  <2>1. AddCall(u)
    BY Zenon DEF SerialInv
  <2>2. ASSUME call[u] = "spin" PROVE RunsOrRan(job[u], index[u]) => RunsOrRan(job[u], index[u])'
    <3>1. PICK j \in Jobs, d \in Aps : j = job[u] /\ d = index[u]
      BY Zenon, <2>2, CallFacts DEF Adding
    <3>2. RunsOrRan(j, d) => RunsOrRan(j, d)'
      BY Zenon, <1>5 DEF Forward
    <3>3. job' = job /\ index' = index
      BY Zenon, <1>1
    <3> QED
      BY Zenon, <3>1, <3>2, <3>3 DEF RunsOrRan
  <2>3. ASSUME call[u] \in {"store_arg", "store_code"} PROVE done'[index[u]] = 1
    <3>1. index[u] \in Aps /\ code_ptr[index[u]] = Null /\ done[index[u]] = 1
      BY Zenon, <2>1, <2>3, CallFacts DEF AddCall
    <3>2. code_ptr[c] = Null => apc[c] # "clear_done"
      BY Zenon DEF Inv, UntakenIsPosted
    <3> QED
      BY Zenon, <1>2, <3>1, <3>2
  <2> QED
    BY Zenon, <1>1, <2>1, <2>2, <2>3 DEF AddCall, RunsOrRan
<1>7. ASSUME NEW u \in Cores PROVE JoinCall(u)' /\ HandlesRan(u)'
  BY Zenon, <1>1, <1>5, JoinCallKept, HandlesKept
<1>8. ASSUME NEW j \in Jobs PROVE JobHistory(j)'
  BY Zenon, <1>1, <1>5, HistoryKept
<1> QED
  BY Zenon, <1>3, <1>4, <1>6, <1>7, <1>8 DEF SerialInv

\* The function returns, and its handles go with it.
LEMMA JobReturnsStep ==
    ASSUME Inv, SerialInv, NEW c \in Aps, c # 0, JobReturns(c)
    PROVE  SerialInv'
<1>1. /\ apc[c] = "run" /\ rax[c] \in Jobs /\ apc' = [apc EXCEPT ![c] = "set_done"]
      /\ finished' = finished \cup {rax[c]} /\ handles' = [handles EXCEPT ![c] = {}]
      /\ UNCHANGED <<ctxVars, rax, rdi, call, job, index, posted, started, joined>>
  BY Zenon DEF JobReturns, Running
<1>2. /\ apc'[c] = "set_done" /\ \A d \in Aps : d # c => apc'[d] = apc[d]
      /\ \A u \in Cores : handles'[u] \subseteq handles[u]
  BY Zenon, <1>1, Types
<1>3. Words' /\ OneAdder' /\ joined' \subseteq finished'
  BY Zenon, <1>1, OneAdderKept DEF SerialInv, Words, Adding
<1>4. ASSUME NEW d \in Aps PROVE Mailbox(d)'
  <2>1. CASE d # c
    BY Zenon, <1>1, <1>2, <2>1, MailboxKept
  <2>2. Mailbox(c)
    BY Zenon DEF SerialInv
  <2>3. CASE d = c
    BY Zenon, <1>1, <1>2, <2>2, <2>3 DEF Mailbox
  <2> QED
    BY Zenon, <2>1, <2>3
<1>5. Forward
  BY Zenon, <1>1, <1>2 DEF Forward, RunsOrRan
<1>6. ASSUME NEW u \in Cores PROVE AddCall(u)' /\ JoinCall(u)' /\ HandlesRan(u)'
  BY Zenon, <1>1, <1>2, <1>5, AddCallKept, JoinCallKept, HandlesKept
<1>7. ASSUME NEW j \in Jobs PROVE JobHistory(j)'
  <2>1. JobHistory(j)
    BY Zenon DEF SerialInv
  <2>2. started[j] = 1 => (j \in finished \/ \E d \in Aps : apc[d] = "run" /\ rax[d] = j)'
    BY Zenon, <1>1, <1>2, <2>1 DEF JobHistory
  <2> QED
    BY Zenon, <1>1, <2>1, <2>2 DEF JobHistory
<1> QED
  BY Zenon, <1>3, <1>4, <1>6, <1>7 DEF SerialInv

\* The core takes the function out of its mailbox and calls it.
LEMMA ClearCodeStep ==
    ASSUME Inv, SerialInv, NEW c \in Aps, ClearCode(c)
    PROVE  SerialInv'
<1>1. /\ apc[c] = "clear_code" /\ apc' = [apc EXCEPT ![c] = "run"]
      /\ code_ptr' = [code_ptr EXCEPT ![c] = Null]
      /\ started' = IF rax[c] \in Jobs THEN [started EXCEPT ![rax[c]] = @ + 1] ELSE started
      /\ UNCHANGED <<arg, done, rax, rdi, callVars, posted, finished, joined>>
  BY Zenon DEF ClearCode
<1>2. /\ apc'[c] = "run" /\ code_ptr'[c] = Null
      /\ \A d \in Aps : d # c => apc'[d] = apc[d] /\ code_ptr'[d] = code_ptr[d]
  BY Zenon, <1>1, Types
<1>3. /\ rax[c] = code_ptr[c] /\ rdi[c] = arg[c] /\ code_ptr[c] # Null /\ done[c] = 0
      /\ code_ptr[c] \in Jobs => arg[c] = code_ptr[c] /\ code_ptr[c] \in posted
  <2>1. Mailbox(c)
    BY Zenon DEF SerialInv
  <2> QED
    BY Zenon, <1>1, <2>1 DEF Mailbox, Inv, UntakenIsPosted
<1>4. Words' /\ OneAdder' /\ joined' \subseteq finished'
  BY <1>1, OneAdderKept DEF SerialInv, Words, Adding
<1>5. ASSUME NEW d \in Aps PROVE Mailbox(d)'
  <2>1. CASE d # c
    BY Zenon, <1>1, <1>2, <2>1, MailboxKept
  <2>2. CASE d = c
    BY Zenon, <1>1, <1>2, <1>3, <2>2, JobsAssumption DEF Mailbox
  <2> QED
    BY Zenon, <2>1, <2>2
<1>6. Forward
  BY Zenon, <1>1, <1>2 DEF Forward, RunsOrRan
<1>7. ASSUME NEW u \in Cores PROVE AddCall(u)'
  <2>1. AddCall(u)
    BY Zenon DEF SerialInv
  <2>2. ASSUME call[u] = "spin"
        PROVE  code_ptr'[index[u]] = job[u] \/ (code_ptr'[index[u]] = Null /\ RunsOrRan(job[u], index[u])')
    <3>1. PICK j \in Jobs, d \in Aps : j = job[u] /\ d = index[u]
      BY Zenon, <2>2, CallFacts DEF Adding
    <3>2. code_ptr[d] = j \/ (code_ptr[d] = Null /\ RunsOrRan(j, d))
      BY Zenon, <2>1, <2>2, <3>1 DEF AddCall
    <3>3. code_ptr'[d] = j \/ (code_ptr'[d] = Null /\ RunsOrRan(j, d)')
      <4>1. CASE d = c
        <5>1. code_ptr'[d] = Null /\ rax'[d] = j /\ apc'[d] = "run"
          BY Zenon, <1>1, <1>2, <1>3, <3>2, <4>1
        <5> QED BY Zenon, <5>1 DEF RunsOrRan
      <4>2. CASE d # c
        <5>1. code_ptr'[d] = code_ptr[d] /\ (RunsOrRan(j, d) => RunsOrRan(j, d)')
          BY Zenon, <1>2, <1>6, <4>2 DEF Forward
        <5> QED BY Zenon, <3>2, <5>1
      <4> QED BY Zenon, <4>1, <4>2
    <3> QED
      BY Zenon, <1>1, <3>1, <3>3 DEF RunsOrRan
  <2>3. ASSUME call[u] \in {"store_arg", "store_code"} PROVE code_ptr'[index[u]] = Null
    BY Zenon, <1>2, <2>1, <2>3, CallFacts DEF AddCall
  <2> QED
    BY Zenon, <1>1, <2>1, <2>2, <2>3 DEF AddCall, RunsOrRan
<1>8. ASSUME NEW u \in Cores PROVE JoinCall(u)' /\ HandlesRan(u)'
  BY Zenon, <1>1, <1>6, JoinCallKept, HandlesKept
<1>9. ASSUME NEW j \in Jobs PROVE JobHistory(j)'
  <2>1. JobHistory(j)
    BY Zenon DEF SerialInv
  <2>2. CASE rax[c] # j
    <3>1. started'[j] = started[j]
      BY Zenon, <1>1, <2>2 DEF SerialInv, Words
    <3>2. /\ \A d \in Aps : code_ptr'[d] = j <=> code_ptr[d] = j
          /\ \A d \in Aps : apc'[d] = "run" /\ rax'[d] = j <=> apc[d] = "run" /\ rax[d] = j
      BY Zenon, <1>1, <1>2, <1>3, <2>2, JobsAssumption
    <3> QED
      BY Zenon, <1>1, <2>1, <3>1, <3>2 DEF JobHistory
  <2>3. CASE rax[c] = j
    <3>1. started[j] = 0 /\ j \in posted
      BY Zenon, <1>3, <2>1, <2>3 DEF JobHistory
    <3>2. started'[j] = 1
      BY <1>1, <2>3, <3>1 DEF SerialInv, Words
    <3>3. \A d \in Aps : code_ptr'[d] # j
      BY Zenon, <1>2, <1>3, <2>3, OneMailbox, JobsAssumption
    <3> QED
      BY Zenon, <1>1, <1>2, <2>3, <3>1, <3>2, <3>3 DEF JobHistory
  <2> QED
    BY Zenon, <2>2, <2>3
<1> QED
  BY Zenon, <1>4, <1>5, <1>7, <1>8, <1>9 DEF SerialInv

\* A step that touches nothing but the variables of the call on core t.
LEMMA OwnStep ==
    ASSUME Inv, SerialInv, NEW t \in Cores,
           UNCHANGED <<ctxVars, apVars, posted, started, finished>>,
           \A u \in Cores : u # t => /\ call'[u] = call[u] /\ job'[u] = job[u]
                                     /\ index'[u] = index[u] /\ handles'[u] = handles[u],
           Adding(t)' => Adding(t) \/ \A u \in Cores : ~Adding(u),
           AddCall(t)', JoinCall(t)', HandlesRan(t)', joined' \subseteq finished'
    PROVE  SerialInv'
<1>1. Words'
  BY Zenon DEF SerialInv, Words
<1>2. ASSUME NEW d \in Aps PROVE Mailbox(d)'
  BY Zenon, MailboxKept
<1>3. OneAdder'
  <2>1. \A u \in Cores : u # t => (Adding(u)' <=> Adding(u))
    BY Zenon DEF Adding
  <2> QED
    BY Zenon, <2>1 DEF SerialInv, OneAdder
<1>4. SameRuns /\ Forward
  BY Zenon DEF SameRuns, Forward, RunsOrRan
<1>5. ASSUME NEW u \in Cores, u # t PROVE AddCall(u)' /\ JoinCall(u)' /\ HandlesRan(u)'
  BY Zenon, <1>4, <1>5, AddCallKept, JoinCallKept, HandlesKept
<1>6. ASSUME NEW j \in Jobs PROVE JobHistory(j)'
  BY Zenon, <1>4, HistoryKept
<1> QED
  BY Zenon, <1>1, <1>2, <1>3, <1>5, <1>6 DEF SerialInv

\* What a step that leaves the registers and the histories alone leaves alone.
LEMMA Standing ==
    ASSUME Inv, SerialInv, UNCHANGED <<apc, rax, finished>>, NEW t \in Cores, handles'[t] = handles[t]
    PROVE  Forward /\ HandlesRan(t)'
<1>1. Forward
  BY Zenon DEF Forward, RunsOrRan
<1> QED
  BY Zenon, <1>1, HandlesKept

LEMMA AddThreadStep ==
    ASSUME Inv, SerialAdds, SerialInv, NEW t \in Cores, AddThread(t)
    PROVE  SerialInv'
<1>1. /\ call[t] = "none" /\ call' = [call EXCEPT ![t] = "check"]
      /\ \A u \in Cores : ~Adding(u)
      /\ index' = [index EXCEPT ![t] = 1]
      /\ UNCHANGED <<ctxVars, apVars, handles, histVars>>
  BY Zenon DEF AddThread
<1>2. PICK j \in Jobs : j \notin posted /\ job' = [job EXCEPT ![t] = j]
  BY Zenon DEF AddThread
<1>3. /\ call'[t] = "check" /\ job'[t] = j
      /\ \A u \in Cores : u # t => /\ call'[u] = call[u] /\ job'[u] = job[u]
                                   /\ index'[u] = index[u] /\ handles'[u] = handles[u]
  BY Zenon, <1>1, <1>2, Types
<1>4. AddCall(t)' /\ JoinCall(t)'
  BY <1>1, <1>2, <1>3 DEF AddCall, JoinCall
<1>5. HandlesRan(t)' /\ joined' \subseteq finished'
  BY Zenon, <1>1, Standing DEF SerialInv
<1> QED
  BY Zenon, <1>1, <1>3, <1>4, <1>5, OwnStep

LEMMA CheckCoreStep ==
    ASSUME Inv, SerialInv, NEW t \in Cores, CheckCore(t)
    PROVE  SerialInv'
<1>1. /\ call[t] = "check" /\ Adding(t)
      /\ UNCHANGED <<ctxVars, apVars, handles, histVars>>
  BY Zenon DEF CheckCore, Adding
<1>2. \A u \in Cores : u # t => /\ call'[u] = call[u] /\ job'[u] = job[u]
                                /\ index'[u] = index[u] /\ handles'[u] = handles[u]
  BY Zenon, Types DEF CheckCore
<1>3. \/ call'[t] = "none"
      \/ call'[t] = "check" /\ job'[t] = job[t]
      \/ /\ call'[t] = "store_arg" /\ job'[t] = job[t] /\ index'[t] = index[t]
         /\ index[t] < num_usable_cores /\ done[index[t]] = 1
  BY Zenon, Types DEF CheckCore
<1>4. ASSUME call'[t] = "store_arg" PROVE code_ptr[index[t]] = Null
  <2>1. index[t] \in 1..NumCores /\ num_usable_cores \in {1, NumCores}
    BY Zenon, <1>1 DEF Inv, CallsAreMadeByRunning, Typed
  <2>2. index[t] \in Aps
    BY <1>3, <1>4, <2>1, CoresAssumption DEF Aps
  <2> QED
    BY Zenon, <1>1, <2>2, SearchMailboxes
<1>5. job[t] \notin posted
  BY Zenon, <1>1 DEF SerialInv, AddCall
<1>6. AddCall(t)' /\ JoinCall(t)'
  BY Zenon, <1>1, <1>3, <1>4, <1>5 DEF AddCall, JoinCall
<1>7. HandlesRan(t)' /\ joined' \subseteq finished'
  BY Zenon, <1>1, Standing DEF SerialInv
<1> QED
  BY Zenon, <1>1, <1>2, <1>6, <1>7, OwnStep

\* The adder stores the argument, and then the code, in an idle mailbox.
LEMMA StoreStep ==
    ASSUME Inv, SerialInv, NEW t \in Cores, Adding(t), call[t] \in {"store_arg", "store_code"},
           UNCHANGED <<done, apVars, job, index, handles, started, finished, joined>>,
           Words', AddCall(t)', JoinCall(t)', \A u \in Cores : u # t => call'[u] = call[u],
           NEW c \in Aps, \A d \in Aps : d # c => arg'[d] = arg[d] /\ code_ptr'[d] = code_ptr[d],
           Mailbox(c)', posted \subseteq posted', \A j \in Jobs : JobHistory(j)'
    PROVE  SerialInv'
<1>1. \A u \in Cores : Adding(u)' => Adding(u)
  BY Zenon DEF Adding
<1>2. OneAdder' /\ joined' \subseteq finished'
  BY Zenon, <1>1, OneAdderKept DEF SerialInv
<1>3. ASSUME NEW d \in Aps, d # c PROVE Mailbox(d)'
  BY Zenon, <1>3, MailboxKept
<1>4. ASSUME NEW u \in Cores PROVE Forward /\ HandlesRan(u)'
  BY Zenon, Standing
<1>5. ASSUME NEW u \in Cores, u # t PROVE AddCall(u)' /\ JoinCall(u)'
  <2>1. call[u] \in {"none", "join"}
    BY Zenon, <1>5, OnlyAdder
  <2> QED
    BY Zenon, <1>4, <1>5, <2>1, IdleCall, JoinCallKept
<1> QED
  BY Zenon, <1>2, <1>3, <1>4, <1>5 DEF SerialInv

LEMMA StoreArgStep ==
    ASSUME Inv, SerialInv, NEW t \in Cores, StoreArg(t)
    PROVE  SerialInv'
<1>1. /\ call[t] = "store_arg" /\ Adding(t) /\ call' = [call EXCEPT ![t] = "store_code"]
      /\ arg' = [arg EXCEPT ![index[t]] = job[t]]
      /\ UNCHANGED <<code_ptr, done, apVars, job, index, handles, histVars>>
  BY Zenon DEF StoreArg, Adding
<1>2. PICK j \in Jobs, c \in Aps : j = job[t] /\ c = index[t]
  BY Zenon, <1>1, CallFacts
<1>3. code_ptr[c] = Null /\ done[c] = 1 /\ j \notin posted
  BY Zenon, <1>1, <1>2 DEF SerialInv, AddCall
<1>4. /\ call'[t] = "store_code" /\ \A u \in Cores : u # t => call'[u] = call[u]
      /\ arg'[c] = j /\ \A d \in Aps : d # c => arg'[d] = arg[d]
  BY Zenon, <1>1, <1>2, Types DEF SerialInv, Words
<1>5. Words'
  BY Zenon, <1>1, <1>2 DEF SerialInv, Words
<1>6. Mailbox(c)'
  <2>1. Mailbox(c)
    BY Zenon DEF SerialInv
  <2>2. apc[c] \notin {"inc", "clear_done", "clear_code"}
    BY Zenon, <1>3 DEF Inv, UntakenIsPosted
  <2> QED
    BY Zenon, <1>1, <1>3, <2>1, <2>2, JobsAssumption DEF Mailbox
<1>7. AddCall(t)' /\ JoinCall(t)'
  BY Zenon, <1>1, <1>2, <1>3, <1>4 DEF AddCall, JoinCall
<1>8. ASSUME NEW k \in Jobs PROVE JobHistory(k)'
  <2>1. SameRuns
    BY Zenon, <1>1 DEF SameRuns
  <2> QED
    BY Zenon, <1>1, <2>1, HistoryKept
<1> QED
  BY Zenon, <1>1, <1>4, <1>5, <1>6, <1>7, <1>8, StoreStep

LEMMA StoreCodeStep ==
    ASSUME Inv, SerialInv, NEW t \in Cores, StoreCode(t)
    PROVE  SerialInv'
<1>1. /\ call[t] = "store_code" /\ Adding(t) /\ call' = [call EXCEPT ![t] = "spin"]
      /\ code_ptr' = [code_ptr EXCEPT ![index[t]] = job[t]] /\ posted' = posted \cup {job[t]}
      /\ UNCHANGED <<arg, done, apVars, job, index, handles, started, finished, joined>>
  BY Zenon DEF StoreCode, Adding
<1>2. PICK j \in Jobs, c \in Aps : j = job[t] /\ c = index[t]
  BY Zenon, <1>1, CallFacts
<1>3. code_ptr[c] = Null /\ done[c] = 1 /\ arg[c] = j /\ j \notin posted
  BY Zenon, <1>1, <1>2 DEF SerialInv, AddCall
<1>4. /\ call'[t] = "spin" /\ \A u \in Cores : u # t => call'[u] = call[u]
      /\ code_ptr'[c] = j /\ \A d \in Aps : d # c => code_ptr'[d] = code_ptr[d]
  BY Zenon, <1>1, <1>2, Types
<1>5. Words'
  BY Zenon, <1>1, <1>2 DEF SerialInv, Words
<1>6. Mailbox(c)'
  <2>1. Mailbox(c)
    BY Zenon DEF SerialInv
  <2>2. apc[c] \notin {"arg", "inc", "clear_done", "clear_code"}
    BY Zenon, <1>3 DEF Inv, UntakenIsPosted
  <2>3. /\ apc' = apc /\ rax' = rax /\ rdi' = rdi /\ arg' = arg /\ done' = done
        /\ j \in posted'
    BY Zenon, <1>1, <1>2 DEF apVars
  <2>4. /\ apc'[c] \in {"arg", "inc", "clear_done", "clear_code"} => rax'[c] = code_ptr'[c]
        /\ apc'[c] \in {"inc", "clear_done", "clear_code"} => rdi'[c] = arg'[c]
    BY Zenon, <2>2, <2>3
  <2>5. apc'[c] = "run" /\ rax'[c] \in Jobs => rdi'[c] = rax'[c]
    BY Zenon, <2>1, <2>3 DEF Mailbox
  <2>6. code_ptr'[c] \in Jobs => arg'[c] = code_ptr'[c] /\ code_ptr'[c] \in posted'
    BY Zenon, <1>3, <1>4, <2>3
  <2>7. apc'[c] \in {"off", "reset", "clear_code", "run", "set_done"} => done'[c] = 0
    BY Zenon, <2>1, <2>3 DEF Mailbox
  <2> QED
    BY Zenon, <2>4, <2>5, <2>6, <2>7 DEF Mailbox
<1>7. AddCall(t)' /\ JoinCall(t)'
  BY Zenon, <1>1, <1>2, <1>4 DEF AddCall, JoinCall
<1>8. ASSUME NEW k \in Jobs PROVE JobHistory(k)'
  <2>1. JobHistory(k)
    BY Zenon DEF SerialInv
  <2>2. CASE k = j
    <3>1. started[j] = 0
      BY Zenon, <1>3, <2>1, <2>2 DEF JobHistory
    <3> QED
      BY <1>1, <1>2, <1>4, <2>2, <3>1 DEF JobHistory
  <2>3. CASE k # j
    <3>1. \A d \in Aps : code_ptr'[d] = k <=> code_ptr[d] = k
      BY Zenon, <1>3, <1>4, <2>3, JobsAssumption
    <3> QED
      BY Zenon, <1>1, <1>2, <2>1, <2>3, <3>1 DEF JobHistory
  <2> QED
    BY Zenon, <2>2, <2>3
<1> QED
  BY Zenon, <1>1, <1>4, <1>5, <1>6, <1>7, <1>8, StoreStep

\* add_thread returns a handle whose function was called.
LEMMA SpinStep ==
    ASSUME Inv, SerialInv, NEW t \in Cores, SpinUntilTaken(t)
    PROVE  SerialInv'
<1>1. /\ call[t] = "spin" /\ code_ptr[index[t]] = Null
      /\ UNCHANGED <<ctxVars, apVars, histVars>>
  BY Zenon DEF SpinUntilTaken
<1>2. /\ call'[t] = "none" /\ handles'[t] = handles[t] \cup {<<job[t], index[t]>>}
      /\ \A u \in Cores : u # t => /\ call'[u] = call[u] /\ job'[u] = job[u]
                                   /\ index'[u] = index[u] /\ handles'[u] = handles[u]
  BY Zenon, Types DEF SpinUntilTaken
<1>3. PICK j \in Jobs, c \in Aps : j = job[t] /\ c = index[t]
  BY Zenon, <1>1, CallFacts DEF Adding
<1>4. RunsOrRan(j, c)
  BY Zenon, <1>1, <1>3, JobsAssumption DEF SerialInv, AddCall
<1>5. HandlesRan(t)
  BY Zenon DEF SerialInv
<1>6. HandlesRan(t)'
  BY <1>1, <1>2, <1>3, <1>4, <1>5 DEF HandlesRan, RunsOrRan
<1>7. AddCall(t)' /\ JoinCall(t)' /\ ~Adding(t)' /\ joined' \subseteq finished'
  BY Zenon, <1>1, <1>2, IdleCall DEF JoinCall, Adding, SerialInv
<1> QED
  BY Zenon, <1>1, <1>2, <1>6, <1>7, OwnStep

\* join_thread is called with a handle that add_thread returned.
LEMMA JoinThreadStep ==
    ASSUME Inv, SerialInv, NEW t \in Cores, JoinThread(t)
    PROVE  SerialInv'
<1>1. UNCHANGED <<ctxVars, apVars, histVars>>
  BY Zenon DEF JoinThread
<1>2. PICK h \in handles[t] :
           /\ job' = [job EXCEPT ![t] = h[1]] /\ index' = [index EXCEPT ![t] = h[2]]
           /\ handles' = [handles EXCEPT ![t] = @ \ {h}] /\ call' = [call EXCEPT ![t] = "join"]
  BY Zenon DEF JoinThread
<1>3. /\ call'[t] = "join" /\ job'[t] = h[1] /\ index'[t] = h[2] /\ handles'[t] \subseteq handles[t]
      /\ \A u \in Cores : u # t => /\ call'[u] = call[u] /\ job'[u] = job[u]
                                   /\ index'[u] = index[u] /\ handles'[u] = handles[u]
  BY Zenon, <1>2, Types
<1>4. h[1] \in Jobs /\ h[2] \in Aps /\ RunsOrRan(h[1], h[2])
  BY Zenon, CallFacts DEF SerialInv, HandlesRan
<1>5. JoinCall(t)'
  BY Zenon, <1>1, <1>3, <1>4 DEF JoinCall, RunsOrRan
<1>6. Forward
  BY Zenon, <1>1 DEF Forward, RunsOrRan
<1>7. AddCall(t)' /\ HandlesRan(t)' /\ ~Adding(t)' /\ joined' \subseteq finished'
  BY Zenon, <1>1, <1>3, <1>6, IdleCall, HandlesKept DEF Adding, SerialInv
<1> QED
  BY Zenon, <1>1, <1>3, <1>5, <1>7, OwnStep

\* join_thread returns when the flag is set, which the core clears before it
\* calls the function and sets after the function has returned.
LEMMA JoinSpinStep ==
    ASSUME Inv, SerialInv, NEW t \in Cores, JoinSpin(t)
    PROVE  SerialInv'
<1>1. /\ call[t] = "join" /\ done[index[t]] = 1 /\ joined' = joined \cup {job[t]}
      /\ UNCHANGED <<ctxVars, apVars, handles, posted, started, finished>>
  BY Zenon DEF JoinSpin
<1>2. /\ call'[t] = "none"
      /\ \A u \in Cores : u # t => /\ call'[u] = call[u] /\ job'[u] = job[u]
                                   /\ index'[u] = index[u] /\ handles'[u] = handles[u]
  BY Zenon, <1>1, Types DEF JoinSpin
<1>3. PICK c \in Aps : c = index[t] /\ RunsOrRan(job[t], c)
  BY Zenon, <1>1 DEF SerialInv, JoinCall
<1>4. Mailbox(c)
  BY Zenon DEF SerialInv
<1>5. apc[c] # "run"
  BY <1>1, <1>3, <1>4 DEF Mailbox
<1>6. joined' \subseteq finished'
  BY Zenon, <1>1, <1>3, <1>5 DEF SerialInv, RunsOrRan
<1>7. AddCall(t)' /\ JoinCall(t)' /\ HandlesRan(t)' /\ ~Adding(t)'
  BY Zenon, <1>1, <1>2, IdleCall, Standing DEF JoinCall, Adding
<1> QED
  BY Zenon, <1>1, <1>2, <1>6, <1>7, OwnStep

\* The steps of core 0 that touch no mailbox.
LEMMA QuietSteps ==
    ASSUME Inv, SerialInv, NEW t \in Cores,
           \/ MonzaMain \/ InitializeThreads \/ WaitCore \/ MainReturns \/ Shutdown
           \/ StartCore /\ ~(scan < num_usable_cores)
           \/ UNCHANGED vars
    PROVE  SerialInv'
<1>1. UNCHANGED <<ctxVars, apVars, callVars, histVars>>
  BY Zenon DEF MonzaMain, InitializeThreads, WaitCore, MainReturns, Shutdown, StartCore, vars
<1>2. Forward
  BY Zenon, <1>1 DEF Forward, RunsOrRan
<1>3. AddCall(t)' /\ JoinCall(t)' /\ HandlesRan(t)'
  BY Zenon, <1>1, <1>2, AddCallKept, JoinCallKept, HandlesKept
<1>4. (Adding(t)' => Adding(t)) /\ joined' \subseteq finished'
  BY Zenon, <1>1 DEF SerialInv, Adding
<1> QED
  BY Zenon, <1>1, <1>3, <1>4, OwnStep

-----------------------------------------------------------------------------
LEMMA SerialStep == ASSUME Inv, SerialInv, SerialAdds, [Next]_vars PROVE SerialInv'
<1>1. CASE \/ MonzaMain \/ InitializeThreads \/ WaitCore \/ MainReturns \/ Shutdown
           \/ StartCore /\ ~(scan < num_usable_cores)
           \/ UNCHANGED vars
  BY Zenon, <1>1, QuietSteps, CoresFacts
<1>2. CASE StartCore /\ scan < num_usable_cores
  BY Zenon, <1>2, StartCoreStep
<1>3. CASE \E c \in Aps : ApStep(c) \/ JobReturns(c)
  BY Zenon, <1>3, RegisterSteps, DoneSteps, ClearCodeStep, JobReturnsStep, CoresFacts DEF ApStep
<1>4. CASE \E t \in Cores : AddThread(t) \/ JoinThread(t) \/ CallStep(t)
  BY Zenon, <1>4, AddThreadStep, CheckCoreStep, StoreArgStep, StoreCodeStep, SpinStep, JoinThreadStep,
     JoinSpinStep DEF CallStep
<1> QED
  BY Zenon, <1>1, <1>2, <1>3, <1>4 DEF Next, MainStep

\* Nothing is posted at first.
LEMMA SerialInit == ASSUME Init PROVE SerialInv
<1>1. Words /\ OneAdder
  BY Zenon DEF Init, Words, OneAdder, Adding
<1>2. \A c \in Aps : Mailbox(c)
  BY Zenon, JobsAssumption DEF Init, Mailbox
<1>3. \A t \in Cores : AddCall(t) /\ JoinCall(t) /\ HandlesRan(t)
  BY Zenon DEF Init, AddCall, JoinCall, HandlesRan
<1>4. \A j \in Jobs : JobHistory(j)
  BY JobsAssumption DEF Init, JobHistory
<1> QED
  BY Zenon, <1>1, <1>2, <1>3, <1>4 DEF SerialInv, Init

\* SerialInv says of a reachable state all that the two properties do.
LEMMA SerialInvImplies ==
    ASSUME SerialAdds => SerialInv, ShutdownIsQuiescent
    PROVE  EveryJobRunsOnce /\ JoinWaitsForTheJob
<1>1. JoinWaitsForTheJob
  BY Zenon DEF JoinWaitsForTheJob, SerialInv
<1>2. ASSUME SerialAdds, NEW j \in Jobs PROVE started[j] <= 1
  BY <1>2 DEF SerialInv, JobHistory
<1>3. ASSUME SerialAdds, NEW j \in posted PROVE started[j] > 0 \/ \E c \in Aps : code_ptr[c] = j
  BY <1>3 DEF SerialInv, JobHistory, Words
<1>4. ASSUME SerialAdds, mpc = "off", NEW j \in posted PROVE j \in finished
  BY <1>4, JobsAssumption DEF SerialInv, JobHistory, Words, ShutdownIsQuiescent
<1>5. ASSUME SerialAdds, NEW c \in Aps, apc[c] = "run", rax[c] \in Jobs PROVE rdi[c] = rax[c]
  BY Zenon, <1>5 DEF SerialInv, Mailbox
<1> QED
  BY Zenon, <1>1, <1>2, <1>3, <1>4, <1>5 DEF EveryJobRunsOnce

-----------------------------------------------------------------------------
(* The counter of executing cores, and the theorems                        *)

USE CoresAssumption, JobsAssumption, SerialAssumption, CoresFacts
    DEF Counted, MainCounted, ApPoints, MainPoints, Up, At, Step, Calling, Proceed,
        ctxVars, apVars, mainVars, callVars, histVars

\* Sets of cores are finite and have at most NumCores members.
LEMMA CoreSets ==
    ASSUME NEW S, S \subseteq Cores
    PROVE  IsFiniteSet(S) /\ Cardinality(S) \in 0..NumCores
<1>1. IsFiniteSet(Cores) /\ Cardinality(Cores) = NumCores
  BY FS_Interval DEF Cores
<1>2. IsFiniteSet(S) /\ Cardinality(S) <= NumCores
  BY ZenonT(40), <1>1, FS_Subset
<1> QED
  BY <1>2, FS_CardinalityType

\* A step that moves no core across the counted region keeps the count.
LEMMA SameCount ==
    ASSUME CountIsExact, UNCHANGED executing_cores,
           mpc' \in MainCounted <=> mpc \in MainCounted,
           \A c \in Aps : apc'[c] \in Counted <=> apc[c] \in Counted
    PROVE  CountIsExact'
<1>1. CountedCores' = CountedCores
  BY ZenonT(40) DEF CountedCores
<1> QED
  BY Zenon, <1>1 DEF CountIsExact

\* The counter follows the set of counted cores.
LEMMA CountStep == ASSUME Inv, [Next]_vars PROVE CountIsExact'
<1> DEFINE S == CountedCores
<1> USE DEF Inv, Typed, CountIsExact
<1>0. S \subseteq Cores /\ IsFiniteSet(S) /\ Cardinality(S) \in Nat
  BY CoreSets DEF CountedCores
<1>1. CASE MonzaMain
  <2>1. \A c \in Aps : apc'[c] \notin Counted
    BY Zenon, <1>1 DEF MonzaMain, StartInv, AllOff
  <2>2. S' = {0}
    BY ZenonT(40), <1>1, <2>1 DEF MonzaMain, CountedCores
  <2> QED
    BY ZenonT(40), <1>1, <2>2, FS_Singleton DEF MonzaMain
<1>2. CASE MainReturns
  <2>1. 0 \in S /\ S' = S \ {0}
    BY Zenon, <1>2 DEF MainReturns, CountedCores
  <2> QED
    BY ZenonT(40), <1>0, <1>2, <2>1, FS_RemoveElement DEF MainReturns
<1>3. ASSUME NEW c \in Aps, IncExecuting(c) PROVE CountIsExact'
  <2>1. c \notin S /\ S' = S \cup {c}
    BY Zenon, <1>3 DEF IncExecuting, CountedCores
  <2> QED
    BY ZenonT(40), <1>0, <1>3, <2>1, FS_AddElement DEF IncExecuting
<1>4. ASSUME NEW c \in Aps, DecExecuting(c) PROVE CountIsExact'
  <2>1. c \in S /\ S' = S \ {c}
    BY Zenon, <1>4 DEF DecExecuting, CountedCores
  <2> QED
    BY ZenonT(40), <1>0, <1>4, <2>1, FS_RemoveElement DEF DecExecuting
<1>5. CASE InitializeThreads \/ WaitCore \/ Shutdown
  BY Zenon, <1>5, SameCount DEF InitializeThreads, WaitCore, Shutdown
<1>6. CASE StartCore
  <2>1. CASE scan < num_usable_cores
    <3>1. scan \in Aps /\ apc[scan] = "off"
      BY <1>6, <2>1 DEF StartCore, StartInv, Aps
    <3> QED
      BY <1>6, <2>1, <3>1, SameCount DEF StartCore
  <2>2. CASE ~(scan < num_usable_cores)
    BY Zenon, <1>6, <2>2, SameCount DEF StartCore
  <2> QED
    BY Zenon, <2>1, <2>2
<1>7. ASSUME NEW c \in Aps,
             ApInit(c) \/ PollCode(c) \/ LoadArg(c) \/ ClearDone(c) \/ ClearCode(c)
               \/ CoreInitializer(c) \/ JobReturns(c) \/ SetDone(c)
      PROVE  CountIsExact'
  <2>1. CASE ApInit(c) \/ PollCode(c) \/ LoadArg(c)
    <3>1. UNCHANGED <<mpc, executing_cores>>
      BY Zenon, <2>1 DEF ApInit, PollCode, LoadArg
    <3>2. Step(c, "reset", "loop") \/ Step(c, "loop", "arg") \/ Step(c, "arg", "inc")
      BY Zenon, <2>1 DEF ApInit, PollCode, LoadArg
    <3> QED
      BY Zenon, <3>1, <3>2, SameCount
  <2>2. CASE ClearDone(c) \/ ClearCode(c)
    <3>1. UNCHANGED <<mpc, executing_cores>>
      BY Zenon, <2>2 DEF ClearDone, ClearCode
    <3>2. Step(c, "clear_done", "clear_code") \/ Step(c, "clear_code", "run")
      BY Zenon, <2>2 DEF ClearDone, ClearCode
    <3> QED
      BY Zenon, <3>1, <3>2, SameCount
  <2>3. CASE CoreInitializer(c) \/ JobReturns(c) \/ SetDone(c)
    <3>1. UNCHANGED <<mpc, executing_cores>>
      BY Zenon, <2>3 DEF CoreInitializer, JobReturns, SetDone
    <3>2. Step(c, "run", "set_done") \/ Step(c, "set_done", "dec")
      BY Zenon, <2>3 DEF CoreInitializer, JobReturns, SetDone
    <3> QED
      BY Zenon, <3>1, <3>2, SameCount
  <2> QED
    BY Zenon, <1>7, <2>1, <2>2, <2>3
<1>8. ASSUME NEW t \in Cores, AddThread(t) \/ JoinThread(t) \/ CallStep(t)
      PROVE  CountIsExact'
  <2>1. UNCHANGED <<mpc, apc, executing_cores>>
    BY Zenon, <1>8 DEF AddThread, JoinThread, CallStep, CheckCore, StoreArg, StoreCode,
                SpinUntilTaken, JoinSpin
  <2> QED
    BY SMTT(40), <2>1, SameCount
<1>9. CASE UNCHANGED vars
  BY Zenon, <1>9, SameCount DEF vars
<1> QED
  BY Zenon, <1>1, <1>2, <1>3, <1>4, <1>5, <1>6, <1>7, <1>8, <1>9 DEF Next, MainStep, ApStep

\* The machine is off only with the counter at 0.
LEMMA OffStep == ASSUME Inv, [Next]_vars PROVE OffIsZero'
<1> USE DEF Inv, OffIsZero
<1>1. CASE MainStep \/ InitializeThreads \/ MainReturns
  BY SMTT(40), <1>1 DEF MainStep, MonzaMain, StartCore, WaitCore, Shutdown, InitializeThreads, MainReturns
<1>2. ASSUME NEW c \in Aps, ApStep(c) \/ JobReturns(c) PROVE OffIsZero'
  <2>1. CASE ApInit(c) \/ PollCode(c) \/ LoadArg(c) \/ IncExecuting(c) \/ ClearDone(c)
    BY ZenonT(40), <2>1 DEF ApInit, PollCode, LoadArg, IncExecuting, ClearDone
  <2>2. CASE ClearCode(c) \/ CoreInitializer(c) \/ JobReturns(c) \/ SetDone(c) \/ DecExecuting(c)
    BY Zenon, <2>2 DEF ClearCode, CoreInitializer, JobReturns, SetDone, DecExecuting
  <2> QED
    BY SMTT(40), <1>2, <2>1, <2>2 DEF ApStep
<1>3. ASSUME NEW t \in Cores, AddThread(t) \/ JoinThread(t) \/ CallStep(t) PROVE OffIsZero'
  BY ZenonT(40), <1>3 DEF AddThread, JoinThread, CallStep, CheckCore, StoreArg, StoreCode, SpinUntilTaken,
              JoinSpin
<1>4. CASE UNCHANGED vars
  BY Zenon, <1>4 DEF vars
<1> QED
  BY Zenon, <1>1, <1>2, <1>3, <1>4 DEF Next

-----------------------------------------------------------------------------
\* At boot nothing runs and nothing is posted.
LEMMA InvInit == Init => Inv
<1> SUFFICES ASSUME Init PROVE Inv
  BY Zenon
<1> USE DEF Init
<1>1. Typed
  BY DEF Typed, TypedCalls
<1>2. CountIsExact
  <2>1. CountedCores = {}
    BY Zenon DEF CountedCores
  <2> QED
    BY Zenon, <2>1, FS_EmptySet DEF CountIsExact
<1>3. CallsAreMadeByRunning /\ UntakenIsPosted /\ PosterWaits /\ OffIsZero
  BY Zenon DEF CallsAreMadeByRunning, Adding, UntakenIsPosted, PosterWaits, OffIsZero
<1>4. StartInv
  BY Zenon DEF StartInv, AllOff
<1> QED
  BY Zenon, <1>1, <1>2, <1>3, <1>4 DEF Inv

\* The inductive invariant holds in every reachable state.
LEMMA InvAlways == Spec => []Inv
<1>1. Inv /\ [Next]_vars => Inv'
  BY Zenon, TypedStep, CallsStep, UntakenStep, PosterStep, StartStep, CountStep, OffStep DEF Inv
<1> QED
  BY <1>1, InvInit, PTL DEF Spec

\* The machine is shut down only when every core is idle and every mailbox is
\* empty, however the calls of add_thread overlap.
THEOREM ShutdownWaitsForAllWork == Spec => []ShutdownIsQuiescent
<1>1. ASSUME Inv, mpc = "off", NEW c \in Aps
      PROVE  code_ptr[c] = Null /\ apc[c] \in {"off", "loop"}
  <2> USE <1>1 DEF Inv
  <2>1. CountedCores = {}
    <3>1. IsFiniteSet(CountedCores) /\ Cardinality(CountedCores) = 0
      BY Zenon, CoreSets DEF CountedCores, CountIsExact, OffIsZero
    <3> QED
      BY Zenon, <3>1, FS_EmptySet
  <2>2. \A t \in Cores : ~Running(t)
    BY Zenon, <2>1 DEF CountedCores, Running
  <2>3. code_ptr[c] = Null
    BY Zenon, <2>2 DEF PosterWaits, CallsAreMadeByRunning
  <2>4. apc[c] \notin Counted
    BY Zenon, <2>1 DEF CountedCores
  <2> QED
    BY Zenon, <2>3, <2>4 DEF UntakenIsPosted, Typed
<1>2. Inv => ShutdownIsQuiescent
  BY Zenon, <1>1 DEF ShutdownIsQuiescent
<1> QED
  BY <1>2, InvAlways, PTL

\* Where calls of add_thread do not overlap, every job that add_thread accepted
\* is called once, with its own argument, and has returned at the shutdown:
\* for any number of cores and jobs.
THEOREM JobsRunOnce == Spec => []EveryJobRunsOnce
<1>1. Init => (SerialAdds => SerialInv)
  BY Zenon, SerialInit
<1>2. Inv /\ (SerialAdds => SerialInv) /\ [Next]_vars => (SerialAdds => SerialInv)'
  BY Zenon, SerialStep
<1>3. Inv /\ (SerialAdds => SerialInv) /\ ShutdownIsQuiescent => EveryJobRunsOnce
  BY Zenon, SerialInvImplies
<1> QED
  BY <1>1, <1>2, <1>3, InvAlways, ShutdownWaitsForAllWork, PTL DEF Spec

\* join_thread returns only after the function it waits for has returned,
\* although the core may have been given another job since.
THEOREM JoinsWait == Spec => []JoinWaitsForTheJob
<1>1. Init => (SerialAdds => SerialInv)
  BY Zenon, SerialInit
<1>2. Inv /\ (SerialAdds => SerialInv) /\ [Next]_vars => (SerialAdds => SerialInv)'
  BY Zenon, SerialStep
<1>3. Inv /\ (SerialAdds => SerialInv) /\ ShutdownIsQuiescent => JoinWaitsForTheJob
  BY Zenon, SerialInvImplies
<1> QED
  BY <1>1, <1>2, <1>3, InvAlways, ShutdownWaitsForAllWork, PTL DEF Spec

=============================================================================
