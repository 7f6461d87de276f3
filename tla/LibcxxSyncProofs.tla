-------------------------- MODULE LibcxxSyncProofs --------------------------
(***************************************************************************)
(* Three theorems about the mutex and the condition variable, for any       *)
(* number of threads and calls and with wait() giving the mutex up and      *)
(* taking it back:                                                          *)
(*   - mutual exclusion of CustomMutexImpl, and of CustomRecursiveMutexImpl *)
(*     where no thread nests its locks (MaxDepth = 1);                      *)
(*   - every sleep has exactly one wake-up coming;                          *)
(*   - a free mutex that has waiters is never forgotten.                    *)
(*                                                                         *)
(* MutualExclusion speaks of the threads that lock() has returned to.  The  *)
(* mutex is owned from the exchange that took it to the store that frees    *)
(* it: Owns covers the whole stretch, and Inv ties taken to it.  The spin   *)
(* lock plays no part in this: trylock() does not take it.                  *)
(*                                                                         *)
(* OneWakeupPerSleep counts.  WakeInv says the same without counting: the   *)
(* queues have no repetitions, a wake-up is in one place, and a thread has  *)
(* one exactly between its enqueue and the end of its sleep.                *)
(***************************************************************************)
EXTENDS LibcxxSync, FiniteSetTheorems, TLAPS

Owns(t) ==
    \/ depth[t] > 0
    \/ pc[t] \in {"lock_taken", "lock_owner", "unlock_spin", "unlock_store"}

\* Where a thread in wait() is once its entry is queued.
InWait == LockPoints \cup {"unlock_spin", "unlock_store", "unlock_dequeue", "unlock_owner",
                           "wake", "wait_sleep"}

\* What of the types the argument needs.
Typed ==
    /\ taken \in BOOLEAN
    /\ pc \in [Threads -> Points]
    /\ depth \in [Threads -> 0..1]
    /\ waiting \in [Threads -> BOOLEAN]

TakenIsOwned == \A t \in Threads : Owns(t) => taken

OneOwner == \A t, u \in Threads : Owns(t) /\ Owns(u) => t = u

\* What each thread is doing with the mutex it holds, or gave up in wait().
Places ==
    /\ \A t \in Threads :
          depth[t] > 0 => pc[t] \notin LockPoints \cup {"unlock_spin", "unlock_store"}
    /\ \A t \in Threads : pc[t] \in {"wait_spin", "wait_enqueue"} => depth[t] = 1
    /\ \A t \in Threads : pc[t] = "wait_sleep" => waiting[t]
    /\ \A t \in Threads : waiting[t] =>
          \/ pc[t] \in {"wait_spin", "wait_enqueue"}
          \/ depth[t] = 0 /\ pc[t] \in InWait
    /\ \A t \in Threads : pc[t] \in {"lock_owner", "unlock_owner"} => Recursive

\* The recursive mutex never takes a thread for an owner that it is not.
OwnerIsCurrent ==
    /\ ~Recursive => taken_thread = NoThread
    /\ \A t \in Threads :
          taken_thread = t => Owns(t) \/ pc[t] \in {"unlock_dequeue", "unlock_owner"}

Inv == Typed /\ TakenIsOwned /\ OneOwner /\ Places /\ OwnerIsCurrent

\* Nobody owns the mutex at first.
LEMMA InvInit == Init => Inv
<1> SUFFICES ASSUME Init PROVE Inv
  BY Zenon
<1>1. Typed
  <2>1. pc \in [Threads -> Points]
    BY Zenon DEF Init, Points
  <2>2. depth \in [Threads -> 0..1]
    BY DEF Init
  <2> QED
    BY Zenon, <2>1, <2>2 DEF Init, Typed
<1>2. \A t \in Threads : ~Owns(t)
  BY DEF Init, Owns
<1>3. \A t \in Threads : taken_thread # t
  BY Zenon, SyncAssumption DEF Init
<1> QED
  BY Zenon, <1>1, <1>2, <1>3 DEF Init, Inv, TakenIsOwned, OneOwner, Places, OwnerIsCurrent, Owns

\* One step per action: each moves at most one thread in or out of ownership,
\* in with the exchange that finds taken false, out with the store to taken.
LEMMA InvStep ==
    ASSUME MaxDepth = 1
    PROVE  Inv /\ [Next]_vars => Inv'
<1> SUFFICES ASSUME Inv, [Next]_vars PROVE Inv'
  BY Zenon
<1> USE MaxDepth = 1, SyncAssumption
        DEF Inv, Typed, TakenIsOwned, OneOwner, Places, OwnerIsCurrent, Owns, Points, LockPoints, InWait,
            Goto, Call, LockReturns, mutexVars, userVars
<1>1. ASSUME NEW t \in Threads, Lock(t) PROVE Inv'
  BY <1>1 DEF Lock
<1>2. ASSUME NEW t \in Threads, TryLockFails(t) PROVE Inv'
  BY <1>2 DEF TryLockFails
<1>3. ASSUME NEW t \in Threads, depth[t] < MaxDepth, TryLockTakes(t) PROVE Inv'
  <2>1. \A u \in Threads : ~Owns(u)
    BY Zenon, <1>3 DEF TryLockTakes
  <2>2. CASE Recursive
    BY <1>3, <2>1, <2>2 DEF TryLockTakes
  <2>3. CASE ~Recursive
    <3>1. Typed'
      <4>1. pc' \in [Threads -> Points] /\ taken' \in BOOLEAN
        BY <1>3, <2>3 DEF TryLockTakes
      <4>2. depth[t] = 0
        BY <1>3
      <4>3. depth' \in [Threads -> 0..1]
        BY <1>3, <2>3, <4>2 DEF TryLockTakes
      <4>4. waiting' \in [Threads -> BOOLEAN]
        <5>1. waiting' = [waiting EXCEPT ![t] = FALSE]
          BY Zenon, <1>3, <2>3 DEF TryLockTakes
        <5> QED
          BY Zenon, <5>1
      <4> QED
        BY Zenon, <4>1, <4>3, <4>4
    <3>2. Places'
      BY <1>3, <2>3 DEF TryLockTakes
    <3>3. \A u \in Threads : Owns(u)' => u = t
      BY <1>3, <2>1, <2>3 DEF TryLockTakes
    <3>4. OwnerIsCurrent' /\ taken'
      BY <1>3, <2>3 DEF TryLockTakes
    <3> QED
      BY Zenon, <3>1, <3>2, <3>3, <3>4
  <2> QED
    BY Zenon, <2>2, <2>3
<1>4. ASSUME NEW t \in Threads, Unlock(t) PROVE Inv'
  BY <1>4 DEF Unlock
<1>5. ASSUME NEW t \in Threads, Wait(t) PROVE Inv'
  BY <1>5 DEF Wait
<1>6. ASSUME NEW t \in Threads, Signal(t) \/ Broadcast(t) PROVE Inv'
  BY <1>6 DEF Signal, Broadcast
<1>7. ASSUME NEW t \in Threads, LockSpin(t) \/ LockTake(t) \/ LockEnqueue(t) \/ LockUnspin(t)
      PROVE  Inv'
  <2>1. CASE LockSpin(t)
    BY <2>1 DEF LockSpin
  <2>2. CASE LockTake(t)
    BY <2>2 DEF LockTake
  <2>3. CASE LockEnqueue(t)
    BY <2>3 DEF LockEnqueue
  <2>4. CASE LockUnspin(t)
    BY <2>4 DEF LockUnspin
  <2> QED
    BY Zenon, <1>7, <2>1, <2>2, <2>3, <2>4
<1>8. ASSUME NEW t \in Threads, LockSleep(t) \/ WaitSleep(t) PROVE Inv'
  <2>1. CASE LockSleep(t)
    BY <2>1 DEF LockSleep, SleepThread
  <2>2. CASE WaitSleep(t)
    BY <2>2 DEF WaitSleep, SleepThread
  <2> QED
    BY Zenon, <1>8, <2>1, <2>2
<1>9. ASSUME NEW t \in Threads, LockDone(t) PROVE Inv'
  <2>1. CASE Recursive
    BY <1>9, <2>1 DEF LockDone
  <2>2. CASE ~Recursive
    <3>1. Typed'
      <4>1. pc' \in [Threads -> Points] /\ taken' \in BOOLEAN
        BY <1>9, <2>2 DEF LockDone
      <4>2. depth[t] = 0
        BY <1>9, <2>2 DEF LockDone
      <4>3. depth' \in [Threads -> 0..1]
        BY <1>9, <2>2, <4>2 DEF LockDone
      <4>4. waiting' \in [Threads -> BOOLEAN]
        <5>1. waiting' = [waiting EXCEPT ![t] = FALSE]
          BY Zenon, <1>9, <2>2 DEF LockDone
        <5> QED
          BY Zenon, <5>1
      <4> QED
        BY Zenon, <4>1, <4>3, <4>4
    <3>2. Places'
      BY <1>9, <2>2 DEF LockDone
    <3>3. \A u \in Threads : Owns(u)' => Owns(u)
      BY <1>9, <2>2 DEF LockDone
    <3>4. OwnerIsCurrent' /\ taken' = taken
      BY <1>9, <2>2 DEF LockDone
    <3> QED
      BY Zenon, <3>1, <3>2, <3>3, <3>4
  <2> QED
    BY Zenon, <2>1, <2>2
<1>10. ASSUME NEW t \in Threads, StoreOwner(t) PROVE Inv'
  BY <1>10 DEF StoreOwner
<1>11. ASSUME NEW t \in Threads, UnlockSpin(t) PROVE Inv'
  BY <1>11 DEF UnlockSpin
<1>12. ASSUME NEW t \in Threads, UnlockStore(t) PROVE Inv'
  <2>1. Owns(t) /\ depth[t] = 0
    BY <1>12 DEF UnlockStore
  <2>2. \A u \in Threads : ~Owns(u)'
    BY Zenon, <1>12, <2>1 DEF UnlockStore
  <2>3. Typed' /\ Places'
    <3>1. Typed'
      BY Zenon, <1>12 DEF UnlockStore
    <3>2. Places'
      BY <1>12 DEF UnlockStore
    <3> QED
      BY Zenon, <3>1, <3>2
  <2>4. OwnerIsCurrent'
    BY Zenon, <1>12, <2>1 DEF UnlockStore
  <2> QED
    BY Zenon, <2>2, <2>3, <2>4
<1>13. ASSUME NEW t \in Threads, UnlockDequeue(t) PROVE Inv'
  <2>1. \/ Goto(t, "unlock_dequeue", "unlock_owner") /\ Recursive
        \/ Goto(t, "unlock_dequeue", "wake") /\ ~Recursive
    BY Zenon, <1>13 DEF UnlockDequeue
  <2>2. Typed' /\ Places'
    BY <1>13, <2>1 DEF UnlockDequeue
  <2>3. \A u \in Threads : Owns(u)' = Owns(u)
    BY Zenon, <1>13, <2>1 DEF UnlockDequeue
  <2>4. OwnerIsCurrent'
    BY <1>13, <2>1, <2>3 DEF UnlockDequeue
  <2> QED
    BY Zenon, <1>13, <2>2, <2>3, <2>4 DEF UnlockDequeue
<1>14. ASSUME NEW t \in Threads, ClearOwner(t) PROVE Inv'
  BY <1>14 DEF ClearOwner
<1>15. ASSUME NEW t \in Threads, WakeEntry(t) \/ WakeDone(t) PROVE Inv'
  BY <1>15 DEF WakeEntry, WakeDone
<1>16. ASSUME NEW t \in Threads, WaitSpin(t) PROVE Inv'
  BY <1>16 DEF WaitSpin
<1>17. ASSUME NEW t \in Threads, WaitEnqueue(t) PROVE Inv'
  BY <1>17 DEF WaitEnqueue
<1>18. ASSUME NEW t \in Threads, NotifySpin(t) \/ SignalDequeue(t) \/ BroadcastDequeue(t)
       PROVE  Inv'
  BY <1>18 DEF NotifySpin, SignalDequeue, BroadcastDequeue
<1>19. CASE UNCHANGED vars
  BY Zenon, <1>19 DEF vars
<1> HIDE DEF Inv, Typed, TakenIsOwned, OneOwner, Places, OwnerIsCurrent, Owns, Points, LockPoints, InWait,
            Goto, Call, LockReturns, mutexVars, userVars
<1> QED
  BY Zenon, <1>1, <1>2, <1>3, <1>4, <1>5, <1>6, <1>7, <1>8, <1>9, <1>10, <1>11, <1>12, <1>13, <1>14,
     <1>15, <1>16, <1>17, <1>18, <1>19 DEF Next, LibraryStep, TryLock

\* No two threads are between lock(), or a successful trylock(), and unlock()
\* at once; a thread that returns from wait() has the mutex to itself.
THEOREM MutexExcludes ==
    ASSUME MaxDepth = 1
    PROVE  Spec => []MutualExclusion
<1>1. Inv => MutualExclusion
  BY Zenon DEF Inv, OneOwner, Owns, MutualExclusion
<1> QED
  BY InvInit, InvStep, <1>1, PTL DEF Spec


-----------------------------------------------------------------------------
(* Wake-ups: where each of them is, and that a free mutex is not forgotten. *)

\* x is in the queue q; no entry is in q twice.
In(x, q) == \E k \in DOMAIN q : q[k] = x
Distinct(q) == \A k, l \in DOMAIN q : q[k] = q[l] => k = l

\* A queue after an entry was added at its end.
LEMMA Enqueued ==
    ASSUME NEW S, NEW q \in Seq(S), NEW t \in S
    PROVE  /\ Append(q, t) \in Seq(S)
           /\ \A x : In(x, Append(q, t)) <=> In(x, q) \/ x = t
           /\ Distinct(q) /\ ~In(t, q) => Distinct(Append(q, t))
<1> DEFINE r == Append(q, t)
<1>1. r \in Seq(S) /\ DOMAIN q = 1..Len(q) /\ DOMAIN r = 1..(Len(q) + 1) /\ Len(q) \in Nat
  OBVIOUS
<1>2. r[Len(q) + 1] = t /\ \A k \in 1..Len(q) : r[k] = q[k]
  OBVIOUS
<1> HIDE DEF r
<1>3. \A x : In(x, r) <=> In(x, q) \/ x = t
  BY <1>1, <1>2 DEF In
<1>4. Distinct(q) /\ ~In(t, q) => Distinct(r)
  BY <1>1, <1>2 DEF In, Distinct
<1> QED
  BY Zenon, <1>1, <1>3, <1>4 DEF r

\* A queue, its first entry and the rest.
LEMMA Dequeued ==
    ASSUME NEW S, NEW q \in Seq(S), q # <<>>
    PROVE  /\ Head(q) \in S /\ Tail(q) \in Seq(S)
           /\ \A x : In(x, q) <=> x = Head(q) \/ In(x, Tail(q))
           /\ Distinct(q) => Distinct(Tail(q)) /\ ~In(Head(q), Tail(q))
<1> DEFINE r == Tail(q)
<1>1. /\ r \in Seq(S) /\ Head(q) \in S /\ Head(q) = q[1] /\ Len(q) \in Nat \ {0}
      /\ DOMAIN q = 1..Len(q) /\ DOMAIN r = 1..(Len(q) - 1)
  OBVIOUS
<1>2. \A k \in 1..(Len(q) - 1) : r[k] = q[k + 1]
  OBVIOUS
<1> HIDE DEF r
<1>5. \A x : In(x, r) <=> \E k \in 2..Len(q) : q[k] = x
  <2> TAKE x
  <2>1. ASSUME NEW k \in 1..(Len(q) - 1), r[k] = x PROVE \E l \in 2..Len(q) : q[l] = x
    BY <1>1, <1>2, <2>1
  <2>2. ASSUME NEW k \in 2..Len(q), q[k] = x PROVE \E l \in 1..(Len(q) - 1) : r[l] = x
    <3>1. k - 1 \in 1..(Len(q) - 1) /\ (k - 1) + 1 = k
      BY <1>1
    <3> QED BY <1>2, <2>2, <3>1
  <2> QED BY <1>1, <2>1, <2>2 DEF In
<1>3. \A x : In(x, q) <=> x = Head(q) \/ In(x, r)
  <2>1. 1..Len(q) = {1} \cup 2..Len(q)
    BY <1>1
  <2>2. \A x : In(x, q) <=> \E k \in {1} \cup 2..Len(q) : q[k] = x
    BY Zenon, <1>1, <2>1 DEF In
  <2> QED
    BY Zenon, <1>1, <1>5, <2>2
<1>4. Distinct(q) => Distinct(r) /\ ~In(Head(q), r)
  <2> SUFFICES ASSUME Distinct(q) PROVE Distinct(r) /\ ~In(Head(q), r)
    BY Zenon
  <2>1. Distinct(r)
    <3> SUFFICES ASSUME NEW k \in 1..(Len(q) - 1), NEW l \in 1..(Len(q) - 1), r[k] = r[l]
                 PROVE  k = l
      BY Zenon, <1>1 DEF Distinct
    <3>1. q[k + 1] = q[l + 1] /\ k + 1 \in 1..Len(q) /\ l + 1 \in 1..Len(q)
      BY <1>1, <1>2
    <3>2. k + 1 = l + 1
      BY Zenon, <1>1, <3>1 DEF Distinct
    <3> QED BY <3>2
  <2>2. ~In(Head(q), r)
    BY <1>1, <1>5 DEF Distinct
  <2> QED BY <2>1, <2>2
<1> QED
  BY Zenon, <1>1, <1>3, <1>4 DEF r

\* Nothing is in an empty queue.
LEMMA EmptyQueue == Distinct(<<>>) /\ \A x : ~In(x, <<>>)
  BY DEF In, Distinct

\* q was taken apart into e and r.
Split(q, e, r) ==
    /\ e \in Seq(Threads) /\ Distinct(e) /\ r \in Seq(Threads) /\ Distinct(r)
    /\ \A x \in Threads : In(x, q) <=> In(x, e) \/ In(x, r)
    /\ \A x \in Threads : ~(In(x, e) /\ In(x, r))

\* unlock() and signal() take the first entry off a queue, if there is one.
LEMMA FirstTaken ==
    ASSUME NEW q \in Seq(Threads), Distinct(q)
    PROVE  Split(q, SubSeq(q, 1, IF q = <<>> THEN 0 ELSE 1), IF q = <<>> THEN <<>> ELSE Tail(q))
<1>1. CASE q = <<>>
  <2>1. SubSeq(q, 1, 0) = <<>>
    BY <1>1
  <2> QED
    BY Zenon, <1>1, <2>1, EmptyQueue DEF Split
<1>2. CASE q # <<>>
  <2> DEFINE e == SubSeq(q, 1, 1)
  <2>1. Len(q) \in Nat \ {0} /\ q[1] = Head(q)
    BY <1>2
  <2>2. e \in Seq(Threads) /\ DOMAIN e = {1} /\ e[1] = Head(q)
    BY <1>2, <2>1
  <2> HIDE DEF e
  <2>3. Distinct(e) /\ \A x : In(x, e) <=> x = Head(q)
    BY Zenon, <2>2 DEF In, Distinct
  <2>4. Split(q, e, Tail(q))
    BY Zenon, <1>2, <2>2, <2>3, Dequeued DEF Split
  <2> QED
    BY Zenon, <1>2, <2>4 DEF e
<1> QED
  BY Zenon, <1>1, <1>2

\* t is among the entries that some thread has dequeued and not yet woken.
InEntries(t) == \E u \in Threads : In(t, entries[u])

\* What of the types the argument needs; no queue holds an entry twice.
Queues ==
    /\ m_waiters \in Seq(Threads) /\ cv_waiters \in Seq(Threads)
    /\ entries \in [Threads -> Seq(Threads)]
    /\ value \in [Threads -> Nat]
    /\ Distinct(m_waiters) /\ Distinct(cv_waiters)
    /\ \A u \in Threads : Distinct(entries[u])

\* The wake-up of t, if it has one, is in one place.
OnePlace(t) ==
    /\ value[t] <= 1
    /\ In(t, m_waiters) => ~In(t, cv_waiters) /\ ~InEntries(t) /\ value[t] = 0
    /\ In(t, cv_waiters) => ~InEntries(t) /\ value[t] = 0
    /\ InEntries(t) => value[t] = 0
    /\ \A u, v \in Threads : In(t, entries[u]) /\ In(t, entries[v]) => u = v

\* A wake-up of t is somewhere.
HasWakeup(t) == In(t, m_waiters) \/ In(t, cv_waiters) \/ InEntries(t) \/ value[t] > 0

\* Where a thread is: in wait(), with entries to wake, queued for the mutex.
CallPlace(t) ==
    /\ pc[t] \in {"wait_spin", "wait_enqueue", "wait_sleep"} => waiting[t]
    /\ waiting[t] => ~Recursive /\ pc[t] \notin {"idle", "unlock_owner", "signal_spin",
                                    "signal_dequeue", "broadcast_spin", "broadcast_dequeue"}
    /\ pc[t] \notin {"unlock_owner", "wake"} => entries[t] = <<>>
    /\ In(t, m_waiters) => pc[t] \in {"lock_queued", "lock_sleep"}

CallPlaces ==
    /\ pc \in [Threads -> Points] /\ waiting \in [Threads -> BOOLEAN]
    /\ \A t \in Threads : CallPlace(t)

\* The inductive invariant: a thread has a wake-up exactly when it must be woken.
WakeInv ==
    /\ Queues /\ CallPlaces
    /\ \A t \in Threads : OnePlace(t) /\ (HasWakeup(t) <=> MustBeWoken(t))

\* The spin lock of the mutex is held exactly between its acquire and its
\* release.
SpinInv == \A t \in Threads : m_spin = t <=>
    pc[t] \in {"lock_try", "lock_queued", "lock_taken", "unlock_store", "unlock_dequeue"}


\* WakeInv, for one thread.
LEMMA WakeInvOf ==
    ASSUME WakeInv, NEW t \in Threads
    PROVE  /\ pc \in [Threads -> Points] /\ value \in [Threads -> Nat] /\ value[t] \in Nat
           /\ m_waiters \in Seq(Threads) /\ cv_waiters \in Seq(Threads)
           /\ entries \in [Threads -> Seq(Threads)]
           /\ Distinct(m_waiters) /\ Distinct(cv_waiters) /\ \A u \in Threads : Distinct(entries[u])
           /\ CallPlace(t) /\ OnePlace(t) /\ (HasWakeup(t) <=> MustBeWoken(t))
<1>1. Queues /\ CallPlaces /\ OnePlace(t) /\ (HasWakeup(t) <=> MustBeWoken(t))
  BY Zenon DEF WakeInv
<1> QED
  BY Zenon, <1>1 DEF Queues, CallPlaces

\* A step that touches no queue and no semaphore keeps every wake-up in place.
LEMMA WakeupsKept ==
    ASSUME WakeInv, CallPlaces', UNCHANGED <<m_waiters, cv_waiters, entries, value>>,
           \A x \in Threads : MustBeWoken(x)' <=> MustBeWoken(x)
    PROVE  WakeInv'
<1>1. Queues'
  BY Zenon DEF WakeInv, Queues
<1>2. \A x \in Threads : OnePlace(x)' /\ (HasWakeup(x)' <=> HasWakeup(x))
  BY Zenon DEF WakeInv, OnePlace, HasWakeup, InEntries
<1> QED
  BY Zenon, <1>1, <1>2 DEF WakeInv

\* The steps that touch no queue and no semaphore.
QuietStep(t) ==
    \/ Lock(t) \/ TryLock(t) \/ Unlock(t) \/ Wait(t) \/ Signal(t) \/ Broadcast(t)
    \/ LockSpin(t) \/ LockTake(t) \/ LockUnspin(t) \/ LockDone(t) \/ StoreOwner(t)
    \/ UnlockSpin(t) \/ UnlockStore(t) \/ ClearOwner(t) \/ WakeDone(t)
    \/ WaitSpin(t) \/ NotifySpin(t)

\* Such a step moves one thread on in its call, from an enqueue to the end of
\* the sleep or elsewhere, but never in or out of that stretch.
LEMMA QuietSteps ==
    ASSUME WakeInv, NEW t \in Threads, QuietStep(t)
    PROVE  WakeInv'
<1>1. pc \in [Threads -> Points] /\ waiting \in [Threads -> BOOLEAN] /\ CallPlace(t)
  BY Zenon DEF WakeInv, CallPlaces, CallPlace
<1>2. UNCHANGED <<m_waiters, cv_waiters, entries, value>>
  BY Zenon DEF QuietStep, Lock, TryLock, TryLockFails, TryLockTakes, Unlock, Wait, Signal, Broadcast, LockSpin,
         LockTake, LockUnspin, LockDone, StoreOwner, UnlockSpin, UnlockStore, ClearOwner, WakeDone,
         WaitSpin, NotifySpin, mutexVars, cvVars
<1> DEFINE goal == CallPlace(t)' /\ (MustBeWoken(t)' <=> MustBeWoken(t))
           moves(p, w) == pc' = [pc EXCEPT ![t] = p] /\ waiting' = [waiting EXCEPT ![t] = w]
           goes(p) == pc' = [pc EXCEPT ![t] = p] /\ waiting' = waiting
<1>3. ASSUME NEW p, NEW w, moves(p, w) \/ goes(p)
      PROVE  \A x \in Threads : x # t => pc'[x] = pc[x] /\ waiting'[x] = waiting[x]
  BY Zenon, <1>1, <1>3
<1>4. \E p, w : (moves(p, w) \/ goes(p)) /\ p \in Points /\ w \in BOOLEAN
  BY Zenon DEF QuietStep, Lock, TryLock, TryLockFails, TryLockTakes, Unlock, Wait, Signal, Broadcast, LockSpin,
         LockTake, LockUnspin, LockDone, StoreOwner, UnlockSpin, UnlockStore, ClearOwner, WakeDone,
         WaitSpin, NotifySpin, Goto, Call, LockReturns, userVars, Points, LockPoints
<1>5. goal
  <2> USE <1>1, <1>2 DEF Goto, Call, LockReturns, userVars
  <2>1. CASE Lock(t) \/ TryLock(t)
    <3>1. pc[t] = "idle" /\ pc'[t] \in {"idle", "lock_spin", "lock_owner"} /\ ~waiting'[t]
      BY Zenon, <2>1 DEF Lock, TryLock, TryLockFails, TryLockTakes, CallPlace
    <3> QED BY <3>1 DEF CallPlace, MustBeWoken
  <2>2. CASE Unlock(t) \/ Signal(t) \/ Broadcast(t)
    <3>1. /\ pc[t] = "idle" /\ pc'[t] \in {"unlock_spin", "signal_spin", "broadcast_spin"}
          /\ ~waiting'[t]
      BY Zenon, <2>2 DEF Unlock, Signal, Broadcast, CallPlace
    <3> QED BY <3>1 DEF CallPlace, MustBeWoken
  <2>3. CASE Wait(t)
    <3>1. pc[t] = "idle" /\ pc'[t] = "wait_spin" /\ waiting'[t] /\ ~Recursive
      BY Zenon, <2>3 DEF Wait
    <3> QED BY <3>1 DEF CallPlace, MustBeWoken
  <2>4. CASE LockSpin(t) \/ LockTake(t) \/ LockUnspin(t)
    BY Zenon, <2>4 DEF LockSpin, LockTake, LockUnspin, CallPlace, MustBeWoken
  <2>5. CASE LockDone(t) \/ StoreOwner(t)
    <3>1. /\ pc[t] \in {"lock_taken", "lock_owner"}
          /\ \/ pc'[t] = "lock_owner" /\ waiting'[t] = waiting[t]
             \/ pc'[t] = "idle" /\ ~waiting'[t]
      BY Zenon, <2>5 DEF LockDone, StoreOwner
    <3> QED BY <3>1 DEF CallPlace, MustBeWoken
  <2>6. CASE UnlockSpin(t) \/ UnlockStore(t)
    BY Zenon, <2>6 DEF UnlockSpin, UnlockStore, CallPlace, MustBeWoken
  <2>7. CASE ClearOwner(t)
    BY Zenon, <2>7 DEF ClearOwner, CallPlace, MustBeWoken
  <2>8. CASE WakeDone(t)
    <3>1. /\ pc[t] = "wake" /\ waiting'[t] = waiting[t] /\ entries[t] = <<>>
          /\ pc'[t] = IF waiting[t] THEN "wait_sleep" ELSE "idle"
      BY Zenon, <2>8 DEF WakeDone
    <3> QED BY <3>1 DEF CallPlace, MustBeWoken
  <2>9. CASE WaitSpin(t) \/ NotifySpin(t)
    BY Zenon, <2>9 DEF WaitSpin, NotifySpin, CallPlace, MustBeWoken
  <2> QED
    BY Zenon, <2>1, <2>2, <2>3, <2>4, <2>5, <2>6, <2>7, <2>8, <2>9 DEF QuietStep
<1>6. CallPlaces' /\ \A x \in Threads : MustBeWoken(x)' <=> MustBeWoken(x)
  <2>1. PICK p, w : (moves(p, w) \/ goes(p)) /\ p \in Points /\ w \in BOOLEAN
    BY Zenon, <1>4
  <2>2. \A x \in Threads : x # t => pc'[x] = pc[x] /\ waiting'[x] = waiting[x]
    BY Zenon, <1>3, <2>1
  <2>3. pc' \in [Threads -> Points] /\ waiting' \in [Threads -> BOOLEAN]
    BY Zenon, <1>1, <2>1
  <2>4. ASSUME NEW x \in Threads PROVE CallPlace(x)' /\ (MustBeWoken(x)' <=> MustBeWoken(x))
    <3>1. CASE x # t
      BY Zenon, <1>2, <2>2, <3>1 DEF WakeInv, CallPlaces, CallPlace, MustBeWoken
    <3> QED BY <1>5, <3>1
  <2> QED
    BY Zenon, <2>3, <2>4 DEF CallPlaces
<1> QED
  BY Zenon, <1>2, <1>6, WakeupsKept

\* One step per action that adds to a queue, takes from one or touches a
\* semaphore; a wake-up moves from place to place and is never copied.
LEMMA WakeStep == WakeInv /\ [Next]_vars => WakeInv'
<1> SUFFICES ASSUME WakeInv, [Next]_vars PROVE WakeInv'
  BY Zenon
<1>1. ASSUME NEW t \in Threads, LockEnqueue(t) PROVE WakeInv'
  <2>1. /\ pc[t] = "lock_try" /\ pc' = [pc EXCEPT ![t] = "lock_queued"]
        /\ UNCHANGED <<cv_waiters, entries, value, waiting>>
    BY Zenon, <1>1 DEF LockEnqueue, Goto, cvVars, userVars
  <2>2. /\ ~HasWakeup(t) /\ pc \in [Threads -> Points] /\ m_waiters \in Seq(Threads)
        /\ value[t] \in Nat
    BY Zenon, <2>1, WakeInvOf DEF MustBeWoken, CallPlace
  <2>3. /\ m_waiters' \in Seq(Threads) /\ Distinct(m_waiters')
        /\ \A x \in Threads : In(x, m_waiters') <=> In(x, m_waiters) \/ x = t
    BY Zenon, <1>1, <2>2, Enqueued DEF LockEnqueue, WakeInv, Queues, HasWakeup
  <2>4. Queues'
    BY Zenon, <2>1, <2>3 DEF WakeInv, Queues
  <2>5. CallPlaces'
    BY Zenon, <2>1, <2>3 DEF WakeInv, CallPlaces, CallPlace, Points, LockPoints
  <2>6. \A x \in Threads : OnePlace(x)' /\ (HasWakeup(x)' <=> HasWakeup(x) \/ x = t)
    BY <2>1, <2>2, <2>3 DEF WakeInv, OnePlace, HasWakeup, InEntries
  <2>7. \A x \in Threads : MustBeWoken(x)' <=> MustBeWoken(x) \/ x = t
    BY Zenon, <2>1, <2>2 DEF MustBeWoken
  <2> QED
    BY Zenon, <2>4, <2>5, <2>6, <2>7 DEF WakeInv
<1>2. ASSUME NEW t \in Threads, WaitEnqueue(t) PROVE WakeInv'
  <2>1. /\ pc[t] = "wait_enqueue" /\ pc' = [pc EXCEPT ![t] = "unlock_spin"]
        /\ UNCHANGED <<m_waiters, entries, value, waiting>>
    BY Zenon, <1>2 DEF WaitEnqueue, Goto, mutexVars
  <2>2. /\ ~HasWakeup(t) /\ waiting[t] /\ pc \in [Threads -> Points] /\ cv_waiters \in Seq(Threads)
        /\ value[t] \in Nat
    BY Zenon, <2>1, WakeInvOf DEF MustBeWoken, CallPlace
  <2>3. /\ cv_waiters' \in Seq(Threads) /\ Distinct(cv_waiters')
        /\ \A x \in Threads : In(x, cv_waiters') <=> In(x, cv_waiters) \/ x = t
    BY Zenon, <1>2, <2>2, Enqueued DEF WaitEnqueue, WakeInv, Queues, HasWakeup
  <2>4. Queues'
    BY Zenon, <2>1, <2>3 DEF WakeInv, Queues
  <2>5. CallPlaces'
    BY Zenon, <2>1, <2>2 DEF WakeInv, CallPlaces, CallPlace, Points, LockPoints
  <2>6. \A x \in Threads : OnePlace(x)' /\ (HasWakeup(x)' <=> HasWakeup(x) \/ x = t)
    BY <2>1, <2>2, <2>3 DEF WakeInv, OnePlace, HasWakeup, InEntries
  <2>7. \A x \in Threads : MustBeWoken(x)' <=> MustBeWoken(x) \/ x = t
    BY Zenon, <2>1, <2>2 DEF MustBeWoken
  <2> QED
    BY Zenon, <2>4, <2>5, <2>6, <2>7 DEF WakeInv
<1>3. ASSUME NEW t \in Threads, NEW p \in {"lock_sleep", "wait_sleep"},
             SleepThread(t, p, "lock_spin"), UNCHANGED <<m_waiters, cv_waiters, entries, waiting>>
      PROVE  WakeInv'
  <2>1. /\ pc[t] = p /\ pc' = [pc EXCEPT ![t] = "lock_spin"]
        /\ value[t] > 0 /\ value' = [value EXCEPT ![t] = @ - 1]
    BY Zenon, <1>3 DEF SleepThread, Goto
  <2>2. /\ pc \in [Threads -> Points] /\ value \in [Threads -> Nat] /\ value[t] = 1
        /\ ~In(t, m_waiters) /\ ~In(t, cv_waiters) /\ ~InEntries(t)
    BY <2>1 DEF WakeInv, OnePlace, CallPlaces, Queues
  <2>3. /\ value' \in [Threads -> Nat] /\ value'[t] = 0
        /\ \A x \in Threads : x # t => value'[x] = value[x]
    BY <2>1, <2>2
  <2>4. Queues'
    BY Zenon, <1>3, <2>3 DEF WakeInv, Queues
  <2>5. CallPlaces'
    BY Zenon, <1>3, <2>1, <2>2 DEF WakeInv, CallPlaces, CallPlace, Points, LockPoints
  <2>6. \A x \in Threads : OnePlace(x)' /\ (HasWakeup(x)' <=> HasWakeup(x) /\ x # t)
    BY <1>3, <2>2, <2>3 DEF WakeInv, OnePlace, HasWakeup, InEntries
  <2>7. \A x \in Threads : MustBeWoken(x)' <=> MustBeWoken(x) /\ x # t
    BY Zenon, <1>3, <2>1, <2>2 DEF MustBeWoken
  <2> QED
    BY Zenon, <2>4, <2>5, <2>6, <2>7 DEF WakeInv
<1>4. ASSUME NEW t \in Threads, WakeEntry(t) PROVE WakeInv'
  <2>1. /\ pc[t] = "wake" /\ entries[t] # <<>>
        /\ UNCHANGED <<m_waiters, cv_waiters, pc, waiting>>
    BY Zenon, <1>4 DEF WakeEntry, mutexVars, cvVars, userVars
  <2>2. entries \in [Threads -> Seq(Threads)] /\ value \in [Threads -> Nat]
    BY Zenon DEF WakeInv, Queues
  <2>3. entries[t] \in Seq(Threads) /\ Distinct(entries[t])
    BY Zenon, <2>2 DEF WakeInv, Queues
  <2>4. PICK h \in Threads :
           /\ value' = [value EXCEPT ![h] = @ + 1]
           /\ entries' = [entries EXCEPT ![t] = Tail(@)]
           /\ Tail(entries[t]) \in Seq(Threads) /\ Distinct(Tail(entries[t]))
           /\ \A x : In(x, entries[t]) <=> x = h \/ In(x, Tail(entries[t]))
           /\ ~In(h, Tail(entries[t]))
    BY Zenon, <1>4, <2>1, <2>3, Dequeued DEF WakeEntry, WakeThread
  <2>5. /\ entries' \in [Threads -> Seq(Threads)]
        /\ \A u \in Threads : Distinct(entries'[u])
        /\ \A x, u \in Threads : In(x, entries'[u]) <=> In(x, entries[u]) /\ ~(u = t /\ x = h)
    BY Zenon, <2>1, <2>2, <2>4 DEF WakeInv, Queues
  <2>6. /\ value' \in [Threads -> Nat] /\ value'[h] = value[h] + 1
        /\ \A x \in Threads : x # h => value'[x] = value[x]
    BY <2>1, <2>2, <2>4
  <2>7. In(h, entries[t]) /\ value[h] = 0 /\ ~In(h, m_waiters) /\ ~In(h, cv_waiters)
        /\ \A u \in Threads : In(h, entries[u]) => u = t
    BY Zenon, <2>4 DEF WakeInv, OnePlace, InEntries
  <2>8. ~InEntries(h)' /\ \A x \in Threads : x # h => (InEntries(x)' <=> InEntries(x))
    <3>1. ~InEntries(h)'
      BY Zenon, <2>4, <2>5, <2>7 DEF InEntries
    <3>2. \A x \in Threads : x # h => (InEntries(x)' <=> InEntries(x))
      BY Zenon, <2>5 DEF InEntries
    <3> QED BY <3>1, <3>2
  <2>9. Queues'
    BY Zenon, <2>1, <2>5, <2>6, WakeInvOf DEF Queues
  <2>10. CallPlaces'
    BY Zenon, <2>1, <2>2, <2>4 DEF WakeInv, CallPlaces, CallPlace
  <2>11. \A x \in Threads : OnePlace(x)' /\ (HasWakeup(x)' <=> HasWakeup(x))
    <3> SUFFICES ASSUME NEW x \in Threads PROVE OnePlace(x)' /\ (HasWakeup(x)' <=> HasWakeup(x))
      BY Zenon
    <3>1. CASE x = h
      BY <2>1, <2>4, <2>5, <2>6, <2>7, <2>8, <3>1 DEF WakeInv, OnePlace, HasWakeup, InEntries
    <3>2. CASE x # h
      BY Zenon, <2>1, <2>5, <2>6, <2>8, <3>2 DEF WakeInv, OnePlace, HasWakeup
    <3> QED BY <3>1, <3>2
  <2>12. \A x \in Threads : MustBeWoken(x)' <=> MustBeWoken(x)
    BY Zenon, <2>1 DEF MustBeWoken
  <2> QED
    BY Zenon, <2>9, <2>10, <2>11, <2>12 DEF WakeInv
<1>5. ASSUME NEW t \in Threads, NEW e, NEW p \in {"wake", "unlock_owner"},
             pc[t] \in {"unlock_dequeue", "signal_dequeue", "broadcast_dequeue"},
             pc' = [pc EXCEPT ![t] = p], p = "unlock_owner" => Recursive,
             entries' = [entries EXCEPT ![t] = e], UNCHANGED <<value, waiting>>,
             \/ Split(m_waiters, e, m_waiters') /\ UNCHANGED cv_waiters
             \/ Split(cv_waiters, e, cv_waiters') /\ UNCHANGED m_waiters
      PROVE  WakeInv'
  <2>1. /\ e \in Seq(Threads) /\ Distinct(e)
        /\ m_waiters' \in Seq(Threads) /\ Distinct(m_waiters')
        /\ cv_waiters' \in Seq(Threads) /\ Distinct(cv_waiters')
    BY Zenon, <1>5 DEF WakeInv, Queues, Split
  <2>2. /\ entries \in [Threads -> Seq(Threads)] /\ entries[t] = <<>>
        /\ pc \in [Threads -> Points] /\ value \in [Threads -> Nat]
    BY Zenon, <1>5, WakeInvOf DEF CallPlace
  <2>3. /\ entries' \in [Threads -> Seq(Threads)]
        /\ \A u \in Threads : Distinct(entries'[u])
        /\ \A x, u \in Threads : In(x, entries'[u]) <=> In(x, entries[u]) \/ (u = t /\ In(x, e))
    BY Zenon, <1>5, <2>1, <2>2, EmptyQueue DEF WakeInv, Queues
  <2>4. \A x \in Threads : InEntries(x)' <=> InEntries(x) \/ In(x, e)
    BY Zenon, <2>3 DEF InEntries
  <2>5. \A x \in Threads :
           /\ In(x, m_waiters') => In(x, m_waiters) /\ ~In(x, e)
           /\ In(x, cv_waiters') => In(x, cv_waiters) /\ ~In(x, e)
           /\ In(x, e) => In(x, m_waiters) \/ In(x, cv_waiters)
           /\ In(x, m_waiters) => In(x, m_waiters') \/ In(x, e)
           /\ In(x, cv_waiters) => In(x, cv_waiters') \/ In(x, e)
    <3>1. CASE Split(m_waiters, e, m_waiters') /\ UNCHANGED cv_waiters
      BY Zenon, <3>1 DEF WakeInv, OnePlace, Split
    <3>2. CASE Split(cv_waiters, e, cv_waiters') /\ UNCHANGED m_waiters
      BY Zenon, <3>2 DEF WakeInv, OnePlace, Split
    <3> QED BY <1>5, <3>1, <3>2
  <2>6. Queues'
    BY Zenon, <1>5, <2>1, <2>3 DEF WakeInv, Queues
  <2>7. CallPlaces'
    BY Zenon, <1>5, <2>2, <2>3, <2>5 DEF WakeInv, CallPlaces, CallPlace, Points, LockPoints
  <2>8. \A x \in Threads : OnePlace(x)' /\ (HasWakeup(x)' <=> HasWakeup(x))
    <3> SUFFICES ASSUME NEW x \in Threads PROVE OnePlace(x)' /\ (HasWakeup(x)' <=> HasWakeup(x))
      BY Zenon
    <3>1. OnePlace(x) /\ value'[x] = value[x]
      BY Zenon, <1>5 DEF WakeInv
    <3>2. HasWakeup(x)' <=> HasWakeup(x)
      BY Zenon, <2>4, <2>5, <3>1 DEF HasWakeup
    <3>3. \A u, v \in Threads : In(x, entries'[u]) /\ In(x, entries'[v]) => u = v
      BY <2>3, <2>5, <3>1 DEF OnePlace, InEntries
    <3>4. OnePlace(x)'
      BY Zenon, <2>4, <2>5, <3>1, <3>3 DEF OnePlace
    <3> QED BY <3>2, <3>4
  <2>9. \A x \in Threads : MustBeWoken(x)' <=> MustBeWoken(x)
    BY Zenon, <1>5, <2>2 DEF WakeInv, CallPlaces, CallPlace, MustBeWoken
  <2> QED
    BY Zenon, <2>6, <2>7, <2>8, <2>9 DEF WakeInv
<1>6. ASSUME NEW t \in Threads, UnlockDequeue(t) PROVE WakeInv'
  <2>0. PICK e : e = SubSeq(m_waiters, 1, IF m_waiters = <<>> THEN 0 ELSE 1)
    BY Zenon
  <2>1. entries' = [entries EXCEPT ![t] = e]
    BY Zenon, <1>6, <2>0 DEF UnlockDequeue
  <2>2. Split(m_waiters, e, m_waiters')
    BY Zenon, <1>6, <2>0, FirstTaken DEF UnlockDequeue, WakeInv, Queues
  <2>3. PICK p \in {"wake", "unlock_owner"} : p = IF Recursive THEN "unlock_owner" ELSE "wake"
    BY Zenon
  <2> QED
    BY Zenon, <1>5, <1>6, <2>1, <2>2, <2>3 DEF UnlockDequeue, Goto, cvVars, userVars
<1>7. ASSUME NEW t \in Threads, SignalDequeue(t) PROVE WakeInv'
  <2>0. PICK e : e = SubSeq(cv_waiters, 1, IF cv_waiters = <<>> THEN 0 ELSE 1)
    BY Zenon
  <2>1. entries' = [entries EXCEPT ![t] = e]
    BY Zenon, <1>7, <2>0 DEF SignalDequeue
  <2>2. Split(cv_waiters, e, cv_waiters')
    BY Zenon, <1>7, <2>0, FirstTaken DEF SignalDequeue, WakeInv, Queues
  <2> QED
    BY Zenon, <1>5, <1>7, <2>1, <2>2 DEF SignalDequeue, Goto, mutexVars, userVars
<1>8. ASSUME NEW t \in Threads, BroadcastDequeue(t) PROVE WakeInv'
  <2>0. PICK e : e = cv_waiters
    BY Zenon
  <2>1. entries' = [entries EXCEPT ![t] = e]
    BY Zenon, <1>8, <2>0 DEF BroadcastDequeue
  <2>2. Split(cv_waiters, e, cv_waiters')
    BY <1>8, <2>0, EmptyQueue DEF BroadcastDequeue, WakeInv, Queues, Split
  <2> QED
    BY Zenon, <1>5, <1>8, <2>1, <2>2 DEF BroadcastDequeue, Goto, mutexVars, userVars
<1>9. ASSUME NEW t \in Threads, QuietStep(t) PROVE WakeInv'
  BY Zenon, <1>9, QuietSteps
<1>10. CASE UNCHANGED vars
  BY Zenon, <1>10 DEF vars, WakeInv, Queues, CallPlaces, CallPlace, OnePlace, HasWakeup, InEntries, MustBeWoken
<1>11. ASSUME NEW t \in Threads, LockSleep(t) \/ WaitSleep(t) PROVE WakeInv'
  BY Zenon, <1>3, <1>11 DEF LockSleep, WaitSleep, mutexVars, cvVars, userVars
<1> QED
  BY Zenon, <1>1, <1>2, <1>4, <1>6, <1>7, <1>8, <1>9, <1>10, <1>11 DEF Next, LibraryStep, QuietStep

\* Nobody is to be woken at first, and no wake-up is anywhere.
LEMMA WakeInit == Init => WakeInv
<1> SUFFICES ASSUME Init PROVE WakeInv
  BY Zenon
<1>1. Queues
  BY EmptyQueue DEF Init, Queues
<1>2. CallPlaces
  BY Zenon, EmptyQueue DEF Init, CallPlaces, CallPlace, Points
<1>3. \A t \in Threads : OnePlace(t) /\ ~HasWakeup(t) /\ ~MustBeWoken(t)
  BY EmptyQueue DEF Init, OnePlace, HasWakeup, InEntries, MustBeWoken
<1> QED
  BY Zenon, <1>1, <1>2, <1>3 DEF WakeInv

\* Every step keeps the spin lock with the thread that is inside it.
LEMMA SpinStep == WakeInv /\ SpinInv /\ [Next]_vars => SpinInv'
<1> SUFFICES ASSUME pc \in [Threads -> Points], SpinInv, [Next]_vars PROVE SpinInv'
  BY Zenon DEF WakeInv, CallPlaces, CallPlace
<1> USE SyncAssumption DEF SpinInv, Goto, Call, mutexVars, SpinAcquire, SpinRelease
<1>1. ASSUME NEW t \in Threads,
             \/ TryLock(t) \/ Unlock(t) \/ Wait(t) \/ Signal(t) \/ Broadcast(t)
             \/ LockSleep(t) \/ StoreOwner(t) \/ ClearOwner(t) \/ WakeEntry(t) \/ WaitSpin(t)
             \/ WaitEnqueue(t) \/ WaitSleep(t) \/ NotifySpin(t) \/ SignalDequeue(t) \/ BroadcastDequeue(t)
      PROVE  SpinInv'
  BY <1>1 DEF TryLock, TryLockFails, TryLockTakes, Unlock, Wait, Signal, Broadcast, LockSleep,
       StoreOwner, ClearOwner, WakeEntry, WaitSpin, WaitEnqueue, WaitSleep, NotifySpin, SignalDequeue,
       BroadcastDequeue, SleepThread
<1>2. ASSUME NEW t \in Threads, Lock(t) \/ WakeDone(t) PROVE SpinInv'
  BY Zenon, <1>2 DEF Lock, WakeDone
<1>3. ASSUME NEW t \in Threads, LockSpin(t) \/ LockTake(t) \/ LockEnqueue(t) \/ LockUnspin(t) PROVE SpinInv'
  BY Zenon, <1>3 DEF LockSpin, LockTake, LockEnqueue, LockUnspin
<1>4. ASSUME NEW t \in Threads, LockDone(t) PROVE SpinInv'
  BY Zenon, <1>4 DEF LockDone
<1>5. ASSUME NEW t \in Threads, UnlockSpin(t) \/ UnlockStore(t) \/ UnlockDequeue(t) PROVE SpinInv'
  BY Zenon, <1>5 DEF UnlockSpin, UnlockStore, UnlockDequeue
<1>6. CASE UNCHANGED vars
  BY Zenon, <1>6 DEF vars
<1> QED
  BY Zenon, <1>1, <1>2, <1>3, <1>4, <1>5, <1>6 DEF Next, LibraryStep

\* A thread that is about to try the mutex, or to dequeue a waiter.
Notices(t) ==
    \/ pc[t] \in {"lock_spin", "lock_try", "unlock_dequeue"}
    \/ pc[t] = "lock_sleep" /\ ~In(t, m_waiters)

\* FreeMutexIsNoticed, said of queues without counting.
Noticed == ~taken /\ m_waiters # <<>> => \E t \in Threads : Notices(t)

\* The waiter that unlock() dequeues is asleep or about to be: the spin lock
\* that unlock() holds keeps it from being between its enqueue and its
\* release of that lock.
LEMMA NoticedStep == WakeInv /\ SpinInv /\ Noticed /\ [Next]_vars => Noticed'
<1> SUFFICES ASSUME WakeInv, SpinInv, Noticed, [Next]_vars, ~taken', m_waiters' # <<>>
             PROVE  \E x \in Threads : Notices(x)'
  BY Zenon DEF Noticed
<1>0. pc \in [Threads -> Points] /\ m_waiters \in Seq(Threads) /\ Distinct(m_waiters)
  BY Zenon DEF WakeInv, CallPlaces, Queues
<1>1. ASSUME NEW t \in Threads, UNCHANGED <<taken, m_waiters>>,
             pc[t] \notin {"lock_spin", "lock_try", "unlock_dequeue", "lock_sleep"} \/ pc'[t] = pc[t],
             NEW p, pc' = [pc EXCEPT ![t] = p]
      PROVE  \E x \in Threads : Notices(x)'
  BY Zenon, <1>0, <1>1 DEF Noticed, Notices
<1>2. ASSUME NEW t \in Threads, pc'[t] \in {"lock_spin", "lock_try", "unlock_dequeue"}
      PROVE  \E x \in Threads : Notices(x)'
  BY Zenon, <1>2 DEF Notices
<1>3. ASSUME NEW t \in Threads, UnlockDequeue(t) PROVE \E x \in Threads : Notices(x)'
  <2>1. m_waiters # <<>> /\ m_waiters' = Tail(m_waiters) /\ pc[t] = "unlock_dequeue"
        /\ pc' = [pc EXCEPT ![t] = IF Recursive THEN "unlock_owner" ELSE "wake"]
    BY Zenon, <1>3 DEF UnlockDequeue, Goto
  <2>2. PICK h \in Threads : In(h, m_waiters) /\ ~In(h, Tail(m_waiters))
    BY Zenon, <1>0, <2>1, Dequeued
  <2>3. pc[h] = "lock_sleep"
    <3>1. pc[h] \in {"lock_queued", "lock_sleep"}
      BY Zenon, <2>2 DEF WakeInv, CallPlaces, CallPlace
    <3>2. m_spin = t /\ h # t
      BY Zenon, <2>1, <3>1 DEF SpinInv
    <3> QED BY <3>1, <3>2 DEF SpinInv
  <2> QED
    BY Zenon, <1>0, <2>1, <2>2, <2>3 DEF Notices
<1> USE DEF Goto, Call, mutexVars
<1>4. ASSUME NEW t \in Threads, 
             \/ LockTake(t) \/ LockEnqueue(t) \/ TryLockTakes(t)
      PROVE  FALSE
  BY <1>4 DEF LockTake, LockEnqueue, TryLockTakes
<1>5. ASSUME NEW t \in Threads, LockSpin(t) \/ LockSleep(t) \/ WaitSleep(t) \/ UnlockStore(t)
      PROVE  \E x \in Threads : Notices(x)'
  BY Zenon, <1>0, <1>2, <1>5 DEF LockSpin, LockSleep, WaitSleep, UnlockStore, SleepThread
<1>6. ASSUME NEW t \in Threads,
             \/ TryLockFails(t) \/ Unlock(t) \/ Wait(t) \/ Signal(t) \/ Broadcast(t)
             \/ LockUnspin(t) \/ StoreOwner(t) \/ UnlockSpin(t) \/ ClearOwner(t) 
             \/ WaitSpin(t) \/ WaitEnqueue(t) \/ NotifySpin(t) \/ SignalDequeue(t) \/ BroadcastDequeue(t)
      PROVE  \E x \in Threads : Notices(x)'
  BY Zenon, <1>1, <1>6 DEF TryLockFails, Unlock, Wait, Signal, Broadcast, LockUnspin,
       StoreOwner, UnlockSpin, ClearOwner, WaitSpin, WaitEnqueue, NotifySpin, SignalDequeue, BroadcastDequeue
<1>7. ASSUME NEW t \in Threads, Lock(t) \/ WakeDone(t) \/ LockDone(t)
      PROVE  \E x \in Threads : Notices(x)'
  BY Zenon, <1>1, <1>7 DEF Lock, WakeDone, LockDone
<1>8. ASSUME UNCHANGED <<taken, m_waiters, pc>>
      PROVE  \E x \in Threads : Notices(x)'
  BY Zenon, <1>8 DEF Noticed, Notices
<1>9. ASSUME NEW t \in Threads, WakeEntry(t)
      PROVE  \E x \in Threads : Notices(x)'
  BY Zenon, <1>8, <1>9 DEF WakeEntry
<1> QED
  BY Zenon, <1>3, <1>4, <1>5, <1>6, <1>7, <1>8, <1>9 DEF Next, LibraryStep, TryLock, vars

\* What Occurrences counts in a queue without repetitions.
LEMMA OccurrencesOnce ==
    ASSUME NEW q, Distinct(q), NEW x
    PROVE  Occurrences(x, q) = IF In(x, q) THEN 1 ELSE 0
<1>1. CASE In(x, q)
  <2>1. PICK k \in DOMAIN q : q[k] = x
    BY Zenon, <1>1 DEF In
  <2>2. {i \in DOMAIN q : q[i] = x} = {k}
    BY Zenon, <2>1 DEF Distinct
  <2> QED
    BY Zenon, <1>1, <2>2, FS_Singleton DEF Occurrences
<1>2. CASE ~In(x, q)
  <2>1. {i \in DOMAIN q : q[i] = x} = {}
    BY Zenon, <1>2 DEF In
  <2> QED
    BY Zenon, <1>2, <2>1, FS_EmptySet DEF Occurrences
<1> QED
  BY Zenon, <1>1, <1>2

\* Counting what WakeInv says is in one place at most.
LEMMA WakeInvCounts == WakeInv => OneWakeupPerSleep
<1> SUFFICES ASSUME WakeInv, NEW t \in Threads
             PROVE  Wakeups(t) = IF MustBeWoken(t) THEN 1 ELSE 0
  BY Zenon DEF OneWakeupPerSleep
<1> DEFINE holders == {u \in Threads : Occurrences(t, entries[u]) > 0}
<1>1. /\ Occurrences(t, m_waiters) = IF In(t, m_waiters) THEN 1 ELSE 0
      /\ Occurrences(t, cv_waiters) = IF In(t, cv_waiters) THEN 1 ELSE 0
  BY Zenon, OccurrencesOnce DEF WakeInv, Queues
<1>2. holders = {u \in Threads : In(t, entries[u])}
  <2>1. \A u \in Threads : Occurrences(t, entries[u]) = IF In(t, entries[u]) THEN 1 ELSE 0
    BY Zenon, OccurrencesOnce DEF WakeInv, Queues
  <2> QED BY <2>1
<1>3. OnePlace(t) /\ (HasWakeup(t) <=> MustBeWoken(t)) /\ value[t] \in Nat
  BY Zenon DEF WakeInv, Queues
<1>4. Cardinality(holders) = IF InEntries(t) THEN 1 ELSE 0
  <2>1. CASE InEntries(t)
    <3>1. PICK u \in Threads : In(t, entries[u])
      BY Zenon, <2>1 DEF InEntries
    <3>2. holders = {u}
      BY Zenon, <1>2, <1>3, <3>1 DEF OnePlace
    <3> QED BY <2>1, <3>2, FS_Singleton
  <2>2. CASE ~InEntries(t)
    <3>1. holders = {}
      BY Zenon, <1>2, <2>2 DEF InEntries
    <3> QED BY <2>2, <3>1, FS_EmptySet
  <2> QED BY <2>1, <2>2
<1> HIDE DEF holders
<1>5. Wakeups(t) = Occurrences(t, m_waiters) + Occurrences(t, cv_waiters) + value[t]
                      + Cardinality(holders)
  BY Zenon DEF Wakeups, holders
<1> QED
  BY <1>1, <1>3, <1>4, <1>5 DEF OnePlace, HasWakeup

\* Every sleep of lock() and wait() has exactly one wake-up coming, and no
\* token is in a semaphore otherwise: for both kinds of mutex, any number of
\* threads and calls and any depth of nesting.
THEOREM WakeupsAreExact == Spec => []OneWakeupPerSleep
<1>1. WakeInv /\ [Next]_vars => WakeInv'
  BY Zenon, WakeStep
<1> QED
  BY <1>1, WakeInit, WakeInvCounts, PTL DEF Spec

\* A free mutex that has waiters is never forgotten: a thread is yet to dequeue
\* one of them in unlock(), or will try to take the mutex.
THEOREM FreeMutexNoticed == Spec => []FreeMutexIsNoticed
<1>1. Init => WakeInv /\ SpinInv /\ Noticed
  BY Zenon, WakeInit, SyncAssumption DEF Init, SpinInv, Noticed
<1>2. WakeInv /\ SpinInv /\ Noticed /\ [Next]_vars => (WakeInv /\ SpinInv /\ Noticed)'
  BY Zenon, WakeStep, SpinStep, NoticedStep
<1>3. WakeInv /\ Noticed => FreeMutexIsNoticed
  <2> SUFFICES ASSUME WakeInv, Noticed PROVE FreeMutexIsNoticed
    BY Zenon
  <2>1. \A t \in Threads : ~In(t, m_waiters) => Occurrences(t, m_waiters) = 0
    BY Zenon, OccurrencesOnce DEF WakeInv, Queues
  <2> QED
    BY Zenon, <2>1 DEF Noticed, Notices, FreeMutexIsNoticed, Retrying
<1> QED
  BY <1>1, <1>2, <1>3, PTL DEF Spec

=============================================================================
