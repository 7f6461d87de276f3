------------------------------ MODULE PingCores ------------------------------
(***************************************************************************)
(* flush_process_write_buffers: a core interrupts every other core and     *)
(* waits for each of them, while other cores may do the same.  A core      *)
(* keeps one pending bit for the vector, so that IPIs which arrive before  *)
(* its handler runs are merged into one.                                   *)
(***************************************************************************)
EXTENDS Integers, FiniteSets

CONSTANTS
  N,         \* number of cores, 0..N-1
  Flushers,  \* the cores that flush; all of them are pinged
  MaxFlushes \* bound on the flushes of one core

PingAssumption == N \in Nat \ {0} /\ Flushers \subseteq 0..N - 1 /\ MaxFlushes \in Nat

VARIABLES
  pc,         \* of each core
  target,     \* the loop variable c of ping_all_cores_sync
  generation, \* generation_after_update of ping_core_sync
  notification_generation, \* of each core
  irr,        \* cores with the wake-up vector pending
  flushes,    \* flushes that a core has begun
  handled     \* handled[c]: cores whose handler ran since c began its flush

vars == <<pc, target, generation, notification_generation, irr, flushes, handled>>

Cores == 0..N - 1

Init ==
  /\ pc = [c \in Cores |-> "idle"] /\ target = [c \in Cores |-> 0]
  /\ generation = [c \in Cores |-> 0] /\ notification_generation = [c \in Cores |-> 0]
  /\ irr = {} /\ flushes = [c \in Cores |-> 0] /\ handled = [c \in Cores |-> {}]

flush_process_write_buffers(c) ==
  /\ c \in Flushers /\ pc[c] = "idle" /\ flushes[c] < MaxFlushes
  /\ pc' = [pc EXCEPT ![c] = "next"] /\ target' = [target EXCEPT ![c] = 0]
  /\ flushes' = [flushes EXCEPT ![c] = @ + 1] /\ handled' = [handled EXCEPT ![c] = {}]
  /\ UNCHANGED <<generation, notification_generation, irr>>

\* The loop of ping_all_cores_sync, which skips the current core.
Skips(c) == target[c] = c
ping_all_cores_sync(c) ==
  /\ pc[c] = "next"
  /\ IF target[c] = N THEN pc' = [pc EXCEPT ![c] = "flushed"] /\ UNCHANGED target
     ELSE IF Skips(c) THEN target' = [target EXCEPT ![c] = @ + 1] /\ UNCHANGED pc
     ELSE pc' = [pc EXCEPT ![c] = "read"] /\ UNCHANGED target
  /\ UNCHANGED <<generation, notification_generation, irr, flushes, handled>>

\* ping_core_sync: read the generation, then trigger and compare.  Mutant: the
\* generation of an earlier ping is compared with.
ReadGeneration_Early(c) ==
  /\ pc[c] = "read"
  /\ pc' = [pc EXCEPT ![c] = "trigger"]
  /\ UNCHANGED <<target, generation, notification_generation, irr, flushes, handled>>
ReadGeneration(c) ==
  /\ pc[c] = "read"
  /\ generation' = [generation EXCEPT ![c] = notification_generation[target[c]]]
  /\ pc' = [pc EXCEPT ![c] = "trigger"]
  /\ UNCHANGED <<target, notification_generation, irr, flushes, handled>>

\* An IPI of a core to itself is not delivered.
trigger_ipi(c) ==
  /\ pc[c] = "trigger"
  /\ irr' = irr \cup ({target[c]} \ {c})
  /\ pc' = [pc EXCEPT ![c] = "compare"]
  /\ UNCHANGED <<target, generation, notification_generation, flushes, handled>>

CompareGeneration(c) ==
  /\ pc[c] = "compare"
  /\ IF generation[c] = notification_generation[target[c]]
     THEN pc' = [pc EXCEPT ![c] = "trigger"] /\ UNCHANGED target
     ELSE pc' = [pc EXCEPT ![c] = "next"] /\ target' = [target EXCEPT ![c] = @ + 1]
  /\ UNCHANGED <<generation, notification_generation, irr, flushes, handled>>

Return(c) ==
  /\ pc[c] = "flushed"
  /\ pc' = [pc EXCEPT ![c] = "idle"]
  /\ UNCHANGED <<target, generation, notification_generation, irr, flushes, handled>>

\* The handler interrupts the core wherever it is, in its own loop too.
wakeup_handler(c) ==
  /\ c \in irr
  /\ irr' = irr \ {c}
  /\ notification_generation' = [notification_generation EXCEPT ![c] = @ + 1]
  /\ handled' = [d \in Cores |-> handled[d] \cup {c}]
  /\ UNCHANGED <<pc, target, generation, flushes>>

Step(c) ==
  \/ ping_all_cores_sync(c) \/ ReadGeneration(c) \/ trigger_ipi(c) \/ CompareGeneration(c) \/ Return(c)

Next == \E c \in Cores : flush_process_write_buffers(c) \/ Step(c) \/ wakeup_handler(c)

\* The handlers of a core can run for ever only while IPIs arrive for ever.
Spec ==
  /\ Init /\ [][Next]_vars
  /\ \A c \in Cores : WF_vars(Step(c)) /\ WF_vars(wakeup_handler(c))

-----------------------------------------------------------------------------

\* When flush_process_write_buffers returns, every other core has run an
\* interrupt handler since the flush began, so that its write buffer has been
\* drained, even if the IPI was merged with one of another core: "Returns
\* after the target core has executed the IPI handler at least once".
FlushReachesAllCores ==
  \A c \in Cores : pc[c] = "flushed" => Cores \ {c} \subseteq handled[c]

\* A flush ends, with any number of cores flushing at the same time: the
\* handler runs on a core that itself waits for another one, and no core
\* waits for itself.
FlushEnds == \A c \in Flushers : (pc[c] = "next") ~> (pc[c] = "idle")
=============================================================================
