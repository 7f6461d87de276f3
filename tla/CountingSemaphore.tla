------------------------- MODULE CountingSemaphore -------------------------
(***************************************************************************)
(* What SingleWaiterSemaphore (include/public/semaphore.h) promises its     *)
(* callers: a counter of permits that release() increments and acquire()    *)
(* waits for and decrements, with at most one thread in acquire().          *)
(***************************************************************************)
EXTENDS Naturals

CONSTANTS
    Threads,    \* threads that acquire
    MaxPosts    \* bound on the number of permits ever posted

VARIABLES
    permits,    \* permits that can be taken
    posts,      \* permits posted so far
    place       \* "out", "waiting" for a permit, or "passed" with one

vars == <<permits, posts, place>>

Init ==
    /\ permits = 0
    /\ posts = 0
    /\ place = [t \in Threads |-> "out"]

\* acquire() is entered; no other thread is in it.
Enter(t) ==
    /\ \A u \in Threads : place[u] = "out"
    /\ place' = [place EXCEPT ![t] = "waiting"]
    /\ UNCHANGED <<permits, posts>>

\* The thread in acquire() takes a permit.
Take(t) ==
    /\ place[t] = "waiting"
    /\ permits > 0
    /\ permits' = permits - 1
    /\ place' = [place EXCEPT ![t] = "passed"]
    /\ UNCHANGED posts

\* acquire() returns.
Leave(t) ==
    /\ place[t] = "passed"
    /\ place' = [place EXCEPT ![t] = "out"]
    /\ UNCHANGED <<permits, posts>>

\* release(), by anybody at any time.
Post ==
    /\ posts < MaxPosts
    /\ permits' = permits + 1
    /\ posts' = posts + 1
    /\ UNCHANGED place

Next == Post \/ \E t \in Threads : Enter(t) \/ Take(t) \/ Leave(t)

Spec == Init /\ [][Next]_vars

Fairness == \A t \in Threads : WF_vars(Take(t)) /\ WF_vars(Leave(t))

=============================================================================
