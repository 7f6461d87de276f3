----------------------------- MODULE LibcxxSync -----------------------------
(***************************************************************************)
(* The libc++ external threading layer (monza-libcxx/src/threading.cc): one *)
(* mutex, CustomMutexImpl or CustomRecursiveMutexImpl, and one condition    *)
(* variable, CustomConditionVariableImpl, used by Threads.                  *)
(*                                                                         *)
(* Every blocked thread sleeps on the semaphore of its own core             *)
(* (per_core_semaphores, sleep_thread, wake_thread), one semaphore for the  *)
(* mutex and the condition variable alike.  The semaphore is taken at its   *)
(* word here: see CountingSemaphore, which module Semaphore implements.     *)
(*                                                                         *)
(* Wait queues are sequences of thread ids: a WaitEntry holds nothing else. *)
(***************************************************************************)
EXTENDS Integers, Sequences, FiniteSets

CONSTANTS
    Threads,
    NoThread,    \* the thread id 0
    Recursive,   \* TRUE for CustomRecursiveMutexImpl
    MaxDepth,    \* how deep a thread nests its calls of lock()
    MaxCalls     \* bound on the calls a thread makes, besides unlock()

ASSUME SyncAssumption ==
    /\ NoThread \notin Threads
    /\ Recursive \in BOOLEAN
    /\ MaxDepth \in Nat \ {0} /\ MaxCalls \in Nat
    /\ ~Recursive => MaxDepth = 1

VARIABLES
    taken, m_spin, m_waiters,  \* the mutex: taken, spin_lock, waiters
    taken_thread,              \* of the recursive mutex
    cv_spin, cv_waiters,       \* the condition variable: spin_lock, waiters
    value,                     \* tokens in the semaphore of each thread's core
    pc,                        \* program counter of each thread
    entries,                   \* entries a thread has dequeued and not yet woken
    waiting,                   \* is the thread in a call of wait()
    depth,                     \* history: calls of lock() not undone by unlock()
    calls                      \* calls made so far

mutexVars == <<taken, m_spin, m_waiters, taken_thread>>
cvVars == <<cv_spin, cv_waiters>>
userVars == <<waiting, depth, calls>>
vars == <<taken, m_spin, m_waiters, taken_thread, cv_spin, cv_waiters, value, pc, entries,
          waiting, depth, calls>>

Init ==
    /\ taken = FALSE /\ m_spin = NoThread /\ m_waiters = <<>>
    /\ taken_thread = NoThread
    /\ cv_spin = NoThread /\ cv_waiters = <<>>
    /\ value = [t \in Threads |-> 0]
    /\ pc = [t \in Threads |-> "idle"]
    /\ entries = [t \in Threads |-> <<>>]
    /\ waiting = [t \in Threads |-> FALSE]
    /\ depth = [t \in Threads |-> 0]
    /\ calls = [t \in Threads |-> 0]

-----------------------------------------------------------------------------
\* Spinlock::acquire succeeds when the lock is free; release frees it.
SpinAcquire(spin, t) == spin = NoThread /\ spin' = t
SpinRelease(spin) == spin' = NoThread

Goto(t, p, q) == pc[t] = p /\ pc' = [pc EXCEPT ![t] = q]

\* A thread in the application's code makes one of its calls.
Call(t, q) ==
    /\ Goto(t, "idle", q)
    /\ calls[t] < MaxCalls
    /\ calls' = [calls EXCEPT ![t] = @ + 1]

\* lock() returns: to the application, or out of wait().
LockReturns(t) ==
    /\ depth' = [depth EXCEPT ![t] = @ + 1]
    /\ waiting' = [waiting EXCEPT ![t] = FALSE]

\* sleep_thread(): the thread takes a token of its own semaphore.
SleepThread(t, p, q) ==
    /\ Goto(t, p, q)
    /\ value[t] > 0
    /\ value' = [value EXCEPT ![t] = @ - 1]

\* wake_thread(u): a token for the semaphore of u's core.
WakeThread(u) == value' = [value EXCEPT ![u] = @ + 1]

-----------------------------------------------------------------------------
(* lock()                                                                  *)

\* The recursive mutex returns at once to the thread it is taken by.
Lock(t) ==
    /\ depth[t] < MaxDepth
    /\ IF Recursive /\ taken_thread = t
         THEN Call(t, "idle") /\ LockReturns(t)
         ELSE Call(t, "lock_spin") /\ UNCHANGED <<depth, waiting>>
    /\ UNCHANGED <<mutexVars, cvVars, value, entries>>

LockSpin(t) ==
    /\ Goto(t, "lock_spin", "lock_try")
    /\ SpinAcquire(m_spin, t)
    /\ UNCHANGED <<taken, m_waiters, taken_thread, cvVars, value, entries, userVars>>

\* taken.exchange(true) found the mutex free
LockTake(t) ==
    /\ Goto(t, "lock_try", "lock_taken")
    /\ ~taken
    /\ taken' = TRUE
    /\ UNCHANGED <<m_spin, m_waiters, taken_thread, cvVars, value, entries, userVars>>

\* taken.exchange(true) found it taken: waiters.enqueue
LockEnqueue(t) ==
    /\ Goto(t, "lock_try", "lock_queued")
    /\ taken
    /\ m_waiters' = Append(m_waiters, t)
    /\ UNCHANGED <<taken, m_spin, taken_thread, cvVars, value, entries, userVars>>

\* Mutant: the thread sleeps with the spin lock.
LockUnspin_Kept(t) ==
    /\ Goto(t, "lock_queued", "lock_sleep")
    /\ UNCHANGED <<mutexVars, cvVars, value, entries, userVars>>

\* spin_lock.release() on the way to sleep_thread
LockUnspin(t) ==
    /\ Goto(t, "lock_queued", "lock_sleep")
    /\ SpinRelease(m_spin)
    /\ UNCHANGED <<taken, m_waiters, taken_thread, cvVars, value, entries, userVars>>

LockSleep(t) ==
    /\ SleepThread(t, "lock_sleep", "lock_spin")
    /\ UNCHANGED <<mutexVars, cvVars, entries, userVars>>

\* spin_lock.release() on the way out; the recursive mutex has yet to store
\* its owner
LockDone(t) ==
    /\ SpinRelease(m_spin)
    /\ IF Recursive
         THEN Goto(t, "lock_taken", "lock_owner") /\ UNCHANGED <<depth, waiting>>
         ELSE Goto(t, "lock_taken", "idle") /\ LockReturns(t)
    /\ UNCHANGED <<taken, m_waiters, taken_thread, cvVars, value, entries, calls>>

\* taken_thread.store(current_thread), at the end of lock() and of trylock()
StoreOwner(t) ==
    /\ Goto(t, "lock_owner", "idle")
    /\ taken_thread' = t
    /\ LockReturns(t)
    /\ UNCHANGED <<taken, m_spin, m_waiters, cvVars, value, entries, calls>>

-----------------------------------------------------------------------------
(* trylock(): the exchange is not under the spin lock                      *)

\* The mutex is taken.  The recursive one does not even try for its owner: it
\* returns 0, which is false.
TryLockFails(t) ==
    /\ taken \/ (Recursive /\ taken_thread = t)
    /\ Call(t, "idle")
    /\ UNCHANGED <<mutexVars, cvVars, value, entries, depth, waiting>>

\* Mutant: the result of the exchange is ignored.
TryLockTakes_IgnoresExchange(t) ==
    /\ ~(Recursive /\ taken_thread = t)
    /\ taken' = TRUE
    /\ IF Recursive
         THEN Call(t, "lock_owner") /\ UNCHANGED <<depth, waiting>>
         ELSE Call(t, "idle") /\ LockReturns(t)
    /\ UNCHANGED <<m_spin, m_waiters, taken_thread, cvVars, value, entries>>

TryLockTakes(t) ==
    /\ ~taken /\ ~(Recursive /\ taken_thread = t)
    /\ taken' = TRUE
    /\ IF Recursive
         THEN Call(t, "lock_owner") /\ UNCHANGED <<depth, waiting>>
         ELSE Call(t, "idle") /\ LockReturns(t)
    /\ UNCHANGED <<m_spin, m_waiters, taken_thread, cvVars, value, entries>>

TryLock(t) == depth[t] < MaxDepth /\ (TryLockFails(t) \/ TryLockTakes(t))

-----------------------------------------------------------------------------
(* unlock(), called by the application or by wait()                        *)

Unlock(t) ==
    /\ depth[t] > 0
    /\ Goto(t, "idle", "unlock_spin")
    /\ depth' = [depth EXCEPT ![t] = @ - 1]
    /\ UNCHANGED <<mutexVars, cvVars, value, entries, waiting, calls>>

UnlockSpin(t) ==
    /\ Goto(t, "unlock_spin", "unlock_store")
    /\ SpinAcquire(m_spin, t)
    /\ UNCHANGED <<taken, m_waiters, taken_thread, cvVars, value, entries, userVars>>

\* taken.store(false)
UnlockStore(t) ==
    /\ Goto(t, "unlock_store", "unlock_dequeue")
    /\ taken' = FALSE
    /\ UNCHANGED <<m_spin, m_waiters, taken_thread, cvVars, value, entries, userVars>>

\* Mutant: the spin lock is released and no waiter dequeued.
UnlockDequeue_NoWake(t) ==
    /\ Goto(t, "unlock_dequeue", IF Recursive THEN "unlock_owner" ELSE "wake")
    /\ SpinRelease(m_spin)
    /\ UNCHANGED <<taken, m_waiters, taken_thread, cvVars, value, entries, userVars>>

\* The first waiter is dequeued, if there is one, and the spin lock released.
UnlockDequeue(t) ==
    /\ Goto(t, "unlock_dequeue", IF Recursive THEN "unlock_owner" ELSE "wake")
    /\ entries' = [entries EXCEPT ![t] = SubSeq(m_waiters, 1, IF m_waiters = <<>> THEN 0 ELSE 1)]
    /\ m_waiters' = IF m_waiters = <<>> THEN <<>> ELSE Tail(m_waiters)
    /\ SpinRelease(m_spin)
    /\ UNCHANGED <<taken, taken_thread, cvVars, value, userVars>>

\* taken_thread.store(0), after the spin lock was released
ClearOwner(t) ==
    /\ Goto(t, "unlock_owner", "wake")
    /\ taken_thread' = NoThread
    /\ UNCHANGED <<taken, m_spin, m_waiters, cvVars, value, entries, userVars>>

\* wake_thread(entry->thread) for each dequeued entry, in unlock, signal and
\* broadcast
WakeEntry(t) ==
    /\ pc[t] = "wake" /\ entries[t] # <<>>
    /\ WakeThread(Head(entries[t]))
    /\ entries' = [entries EXCEPT ![t] = Tail(@)]
    /\ UNCHANGED <<mutexVars, cvVars, pc, userVars>>

\* The call returns; wait() goes on to sleep.
WakeDone(t) ==
    /\ entries[t] = <<>>
    /\ Goto(t, "wake", IF waiting[t] THEN "wait_sleep" ELSE "idle")
    /\ UNCHANGED <<mutexVars, cvVars, value, entries, userVars>>

-----------------------------------------------------------------------------
(* wait(), with the mutex held                                             *)

Wait(t) ==
    /\ ~Recursive /\ depth[t] = 1
    /\ Call(t, "wait_spin")
    /\ waiting' = [waiting EXCEPT ![t] = TRUE]
    /\ UNCHANGED <<mutexVars, cvVars, value, entries, depth>>

WaitSpin(t) ==
    /\ Goto(t, "wait_spin", "wait_enqueue")
    /\ SpinAcquire(cv_spin, t)
    /\ UNCHANGED <<mutexVars, cv_waiters, value, entries, userVars>>

\* Mutant: the entry is queued twice.
WaitEnqueue_Twice(t) ==
    /\ Goto(t, "wait_enqueue", "unlock_spin")
    /\ cv_waiters' = cv_waiters \o <<t, t>>
    /\ SpinRelease(cv_spin)
    /\ depth' = [depth EXCEPT ![t] = 0]
    /\ UNCHANGED <<mutexVars, value, entries, waiting, calls>>

\* The entry is queued and the spin lock released; m->unlock() follows.
WaitEnqueue(t) ==
    /\ Goto(t, "wait_enqueue", "unlock_spin")
    /\ cv_waiters' = Append(cv_waiters, t)
    /\ SpinRelease(cv_spin)
    /\ depth' = [depth EXCEPT ![t] = 0]
    /\ UNCHANGED <<mutexVars, value, entries, waiting, calls>>

\* sleep_thread(), then m->lock()
WaitSleep(t) ==
    /\ SleepThread(t, "wait_sleep", "lock_spin")
    /\ UNCHANGED <<mutexVars, cvVars, entries, userVars>>

-----------------------------------------------------------------------------
(* signal() and broadcast()                                                *)

Signal(t) ==
    /\ ~Recursive
    /\ Call(t, "signal_spin")
    /\ UNCHANGED <<mutexVars, cvVars, value, entries, depth, waiting>>

Broadcast(t) ==
    /\ ~Recursive
    /\ Call(t, "broadcast_spin")
    /\ UNCHANGED <<mutexVars, cvVars, value, entries, depth, waiting>>

NotifySpin(t) ==
    /\ \/ Goto(t, "signal_spin", "signal_dequeue")
       \/ Goto(t, "broadcast_spin", "broadcast_dequeue")
    /\ SpinAcquire(cv_spin, t)
    /\ UNCHANGED <<mutexVars, cv_waiters, value, entries, userVars>>

SignalDequeue(t) ==
    /\ Goto(t, "signal_dequeue", "wake")
    /\ entries' = [entries EXCEPT ![t] = SubSeq(cv_waiters, 1, IF cv_waiters = <<>> THEN 0 ELSE 1)]
    /\ cv_waiters' = IF cv_waiters = <<>> THEN <<>> ELSE Tail(cv_waiters)
    /\ SpinRelease(cv_spin)
    /\ UNCHANGED <<mutexVars, value, userVars>>

\* The whole queue moves to local_queue.
BroadcastDequeue(t) ==
    /\ Goto(t, "broadcast_dequeue", "wake")
    /\ entries' = [entries EXCEPT ![t] = cv_waiters]
    /\ cv_waiters' = <<>>
    /\ SpinRelease(cv_spin)
    /\ UNCHANGED <<mutexVars, value, userVars>>

-----------------------------------------------------------------------------
\* The steps of a call that has been made.
LibraryStep(t) ==
    \/ LockSpin(t) \/ LockTake(t) \/ LockEnqueue(t) \/ LockUnspin(t) \/ LockSleep(t)
    \/ LockDone(t) \/ StoreOwner(t)
    \/ UnlockSpin(t) \/ UnlockStore(t) \/ UnlockDequeue(t) \/ ClearOwner(t)
    \/ WakeEntry(t) \/ WakeDone(t)
    \/ WaitSpin(t) \/ WaitEnqueue(t) \/ WaitSleep(t)
    \/ NotifySpin(t) \/ SignalDequeue(t) \/ BroadcastDequeue(t)

Next ==
    \E t \in Threads :
        \/ Lock(t) \/ TryLock(t) \/ Unlock(t) \/ Wait(t) \/ Signal(t) \/ Broadcast(t)
        \/ LibraryStep(t)

\* Cores keep executing and the application unlocks what it locked.  Weak
\* fairness is enough although nothing queues for a spin lock: MaxCalls bounds
\* the number of times the others can take it.
Fairness == \A t \in Threads : WF_vars(LibraryStep(t)) /\ WF_vars(Unlock(t))

Spec == Init /\ [][Next]_vars
FairSpec == Spec /\ Fairness

-----------------------------------------------------------------------------
LockPoints == {"lock_spin", "lock_try", "lock_queued", "lock_sleep", "lock_taken", "lock_owner"}
Points == LockPoints \cup {"idle", "wake", "unlock_spin", "unlock_store", "unlock_dequeue",
    "unlock_owner", "wait_spin", "wait_enqueue", "wait_sleep", "signal_spin",
    "signal_dequeue", "broadcast_spin", "broadcast_dequeue"}

\* At most one thread is between its lock() and its unlock(), whether it came
\* in through lock(), trylock() or out of wait().
MutualExclusion == \A t, u \in Threads : depth[t] > 0 /\ depth[u] > 0 => t = u

Occurrences(t, queue) == Cardinality({i \in DOMAIN queue : queue[i] = t})

\* Where a wake-up that thread t will get is: in a queue, in the hands of a
\* thread that is about to wake t, or in t's semaphore.
Wakeups(t) ==
    Occurrences(t, m_waiters) + Occurrences(t, cv_waiters) + value[t]
      + Cardinality({u \in Threads : Occurrences(t, entries[u]) > 0})

\* Between the enqueue and the end of the sleep that follows it.
MustBeWoken(t) ==
    \/ pc[t] \in {"lock_queued", "lock_sleep", "wait_sleep"}
    \/ waiting[t] /\ pc[t] \in {"unlock_spin", "unlock_store", "unlock_dequeue", "wake"}

\* The mutex and the condition variable share one semaphore per thread, so a
\* token of one must never be found by a sleep of the other: every sleep has
\* exactly one wake-up coming and no other moment has any.  A wake-up is not
\* lost, not doubled, and none is left behind for a later sleep to find.
OneWakeupPerSleep == \A t \in Threads : Wakeups(t) = IF MustBeWoken(t) THEN 1 ELSE 0

\* A thread that has been given its wake-up, or is past its sleep, and will
\* try the mutex again.
Retrying(t) ==
    \/ pc[t] \in {"lock_spin", "lock_try"}
    \/ pc[t] = "lock_sleep" /\ Occurrences(t, m_waiters) = 0

\* unlock() wakes one waiter and any thread may take the mutex before it does:
\* still, a free mutex that has waiters is never forgotten.  Some thread is yet
\* to dequeue a waiter or is about to try the mutex.
FreeMutexIsNoticed ==
    ~taken /\ m_waiters # <<>> =>
        \E t \in Threads : Retrying(t) \/ pc[t] = "unlock_dequeue"

\* If every holder unlocks and the calls are finitely many, a lock() returns,
\* and a thread that signal() or broadcast() dequeued returns from wait().
CallsReturn ==
    \A t \in Threads :
        /\ pc[t] \in LockPoints ~> pc[t] = "idle"
        /\ waiting[t] /\ (\E u \in Threads : Occurrences(t, entries[u]) > 0) ~> ~waiting[t]

\* A recursive mutex: a thread that holds it never blocks in lock().
OwnerDoesNotBlock == \A t \in Threads : depth[t] > 0 => pc[t] # "lock_sleep"

=============================================================================
