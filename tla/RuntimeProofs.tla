---------------------------- MODULE RuntimeProofs ----------------------------
(***************************************************************************)
(* Proofs about the runtime library.                                       *)
(*                                                                         *)
(* CustomOnceImpl runs its routine once, for any number of threads and any *)
(* length of the routine.  RoutineRanOnce is not inductive: it does not    *)
(* say that the one thread inside the routine is the one that moved the    *)
(* flag from IDLE to DOING.  Inv ties the flag to that thread.             *)
(*                                                                         *)
(* TlsIsKept, for any number of contexts and slots, and any sizes and      *)
(* placement of the sections.  SlotsInv says that the keys that were given *)
(* are those below a counter, which nobody moves under an allocation in    *)
(* progress, in a compartment always and among the threads of the core as  *)
(* long as no two of their calls have overlapped; StaticInv, that every context has a block that no other has   *)
(* and what is in it.  That compiled code finds the template where         *)
(* initialize_tls puts it is arithmetic: rounding up the sum of a rounded  *)
(* size and another adds the other, rounded (AlignSum).                    *)
(***************************************************************************)
EXTENDS MCRuntime, TLAPS

-----------------------------------------------------------------------------
(* CustomOnceImpl. *)

Running(t) == pc[t] \in {"init", "store"}

Inv ==
    /\ TypeOK
    /\ \A t, u \in Threads : Running(t) /\ Running(u) => t = u
    /\ \A t \in Threads : Running(t) => control = "DOING"
    /\ \A t \in Threads : pc[t] = "init" => progress < InitSteps
    /\ \A t \in Threads : pc[t] = "store" => progress = InitSteps
    /\ control = "IDLE" => progress = 0
    /\ control = "DONE" => progress = InitSteps
    /\ returned # {} => control = "DONE"

\* Initially the flag is IDLE and nobody has called.
LEMMA InvInit == Init => Inv
  BY OnceAssumption DEF Init, Inv, TypeOK, Running

\* Every step of every thread keeps the flag tied to the thread in the routine.
LEMMA InvStep == Inv /\ [Next]_vars => Inv'
<1> SUFFICES ASSUME Inv, [Next]_vars PROVE Inv'
  BY Zenon
<1> USE OnceAssumption DEF Inv, TypeOK, Running, Goto, Returns
<1>1. ASSUME NEW t \in Threads, Execute(t) PROVE Inv'
  BY Zenon, <1>1 DEF Execute
<1>2. ASSUME NEW t \in Threads, ExchangeIdle(t) PROVE Inv'
  BY <1>2 DEF ExchangeIdle
<1>3. ASSUME NEW t \in Threads, ExchangeFails(t) PROVE Inv'
  BY Zenon, <1>3 DEF ExchangeFails
<1>4. ASSUME NEW t \in Threads, InitRoutine(t) PROVE Inv'
  BY <1>4 DEF InitRoutine
<1>5. ASSUME NEW t \in Threads, StoreDone(t) PROVE Inv'
  BY Zenon, <1>5 DEF StoreDone
<1>6. ASSUME NEW t \in Threads, SpinEnds(t) PROVE Inv'
  BY Zenon, <1>6 DEF SpinEnds
<1>7. CASE UNCHANGED vars
  BY Zenon, <1>7 DEF vars
<1> QED
  BY Zenon, <1>1, <1>2, <1>3, <1>4, <1>5, <1>6, <1>7 DEF Next, Step

\* However many threads race for the flag and however long the routine is, a
\* call of execute() that returns finds the routine performed exactly once.
THEOREM RoutineRunsOnce == Spec => []RoutineRanOnce
<1>1. Inv => RoutineRanOnce
  BY OnceAssumption DEF Inv, TypeOK, RoutineRanOnce
<1> QED
  BY InvInit, InvStep, <1>1, PTL DEF Spec

-----------------------------------------------------------------------------
(* Dynamic TLS slots. *)

\* What a step keeps whatever the threads of the core do.
SlotTypes ==
  /\ slot_pc \in [Slots!Contexts -> {"idle", "load", "store"}] /\ DOMAIN loaded = Slots!Contexts /\ DOMAIN keys = Compartments
  /\ compartment_dynamic_tls_slot \in [Compartments -> GLOBAL_DYNAMIC_TLS_SIZE..Slots!DYNAMIC_TLS_SIZE - 1]

\* An allocation in progress has found room, and the counter does not change
\* under it.
AllocationOK(x) ==
  slot_pc[x] # "idle" => ~Slots!Full(x) /\ (slot_pc[x] = "store" => loaded[x] = Slots!Counter(x))

\* Keys are given in order.
Given(x) == \A k : k \in keys[x] <=> k \in GLOBAL_DYNAMIC_TLS_SIZE..compartment_dynamic_tls_slot[x] - 1
GlobalGiven == \A k : k \in core_keys <=> k \in 0..current_dynamic_tls_slot - 1

\* The threads of the core, until two calls overlap: the counter stays in its
\* half, and one of them at a time is allocating.
OneAtATime == \A s, t \in SlotThreads : slot_pc[s] # "idle" /\ slot_pc[t] # "idle" => s = t
CoreOK ==
  /\ current_dynamic_tls_slot \in 0..GLOBAL_DYNAMIC_TLS_SIZE - 1
  /\ GlobalGiven /\ OneAtATime
  /\ \A x \in SlotThreads : AllocationOK(x)

\* The invariant.
SlotsInv ==
  /\ SlotTypes
  /\ \A x \in Compartments : AllocationOK(x) /\ Given(x)
  /\ ~overlapped => CoreOK

-----------------------------------------------------------------------------

\* For the places where a prover needs it.
LEMMA ZeroIsNat == 0 \in Nat
  OBVIOUS

\* What is assumed of the sizes and the contexts.
LEMMA SlotConstants ==
  ASSUME Slots!SlotsAssumption
  PROVE  /\ GLOBAL_DYNAMIC_TLS_SIZE \in Nat \ {0} /\ COMPARTMENT_DYNAMIC_TLS_SIZE \in Nat \ {0}
         /\ Slots!DYNAMIC_TLS_SIZE = GLOBAL_DYNAMIC_TLS_SIZE + COMPARTMENT_DYNAMIC_TLS_SIZE
         /\ UINT16_MAX \in Nat /\ Slots!DYNAMIC_TLS_SIZE <= UINT16_MAX
         /\ \A x \in SlotThreads : x \notin Compartments
  BY Zenon DEF Slots!SlotsAssumption, Slots!DYNAMIC_TLS_SIZE

\* The contexts are the threads and the compartments.
LEMMA ContextsAre ==
  /\ \A x : x \in Slots!Contexts <=> x \in SlotThreads \/ x \in Compartments
  /\ \A x : Slots!is_compartment(x) <=> x \in Compartments
  BY Zenon DEF Slots!Contexts, Slots!is_compartment

\* A range grows by its end.
LEMMA RangeGrows ==
  ASSUME NEW a \in Nat, NEW b \in Nat, a <= b
  PROVE  (\A k : k \in a..(b + 1) - 1 <=> k \in a..b - 1 \/ k = b) /\ b \notin a..b - 1
  OBVIOUS

\* A context whose counter and allocation stay the same.
LEMMA AllocationKept ==
  ASSUME NEW x \in Slots!Contexts, AllocationOK(x), slot_pc'[x] = slot_pc[x], loaded'[x] = loaded[x], Slots!Counter(x)' = Slots!Counter(x)
  PROVE  AllocationOK(x)'
  BY Zenon DEF AllocationOK, Slots!Full

\* No key has been given at the start.
LEMMA SlotsInitial ==
  ASSUME Slots!SlotsAssumption, Slots!Init
  PROVE  SlotsInv
<1>1. 0 \in 0..GLOBAL_DYNAMIC_TLS_SIZE - 1
  BY SlotConstants
<1>2. SlotTypes
  <2>1. GLOBAL_DYNAMIC_TLS_SIZE \in GLOBAL_DYNAMIC_TLS_SIZE..Slots!DYNAMIC_TLS_SIZE - 1
    BY SlotConstants
  <2> QED BY Zenon, <2>1 DEF Slots!Init, SlotTypes
<1>3. \A x \in Slots!Contexts : slot_pc[x] = "idle"
  BY Zenon DEF Slots!Init
<1>4. \A x \in Slots!Contexts : AllocationOK(x)
  BY Zenon, <1>3 DEF AllocationOK
<1>5. GlobalGiven
  <2>1. \A k : k \notin 0..0 - 1
    OBVIOUS
  <2> QED BY Zenon, <2>1 DEF GlobalGiven, Slots!Init
<1>6. ASSUME NEW x \in Compartments PROVE Given(x)
  <2>1. \A k : k \notin GLOBAL_DYNAMIC_TLS_SIZE..GLOBAL_DYNAMIC_TLS_SIZE - 1
    BY SlotConstants
  <2>2. keys[x] = {} /\ compartment_dynamic_tls_slot[x] = GLOBAL_DYNAMIC_TLS_SIZE
    BY Zenon, <1>6 DEF Slots!Init
  <2> QED BY Zenon, <2>1, <2>2 DEF Given
<1>7. OneAtATime
  BY Zenon, <1>3, ContextsAre DEF OneAtATime
<1>8. current_dynamic_tls_slot = 0
  BY Zenon DEF Slots!Init
<1> QED BY Zenon, <1>1, <1>2, <1>4, <1>5, <1>6, <1>7, <1>8, ContextsAre DEF SlotsInv, CoreOK

\* Steps that give no key.
LEMMA KeysSame ==
  ASSUME UNCHANGED <<current_dynamic_tls_slot, compartment_dynamic_tls_slot, core_keys, keys>>
  PROVE  /\ GlobalGiven' <=> GlobalGiven
         /\ \A x \in Compartments : Given(x) => Given(x)'
         /\ \A x \in Slots!Contexts : Slots!Counter(x)' = Slots!Counter(x)
  BY Zenon DEF GlobalGiven, Given, Slots!Counter

\* There is room, and the counter is read.
LEMMA TestStep ==
  ASSUME Slots!SlotsAssumption, SlotsInv, NEW x \in Slots!Contexts, Slots!Test(x) \/ Slots!Load(x)
  PROVE  SlotsInv'
<1>1. PICK p \in {"load", "store"} :
        /\ slot_pc' = [slot_pc EXCEPT ![x] = p]
        /\ UNCHANGED <<current_dynamic_tls_slot, compartment_dynamic_tls_slot, core_keys, keys>>
        /\ (loaded' = loaded /\ p = "load" /\ ~Slots!Full(x))
           \/ (loaded' = [loaded EXCEPT ![x] = Slots!Counter(x)] /\ slot_pc[x] = "load")
        /\ ~overlapped' => ~overlapped
        /\ ~overlapped' /\ x \notin Compartments => slot_pc[x] # "idle" \/ \A t \in SlotThreads : slot_pc[t] = "idle"
  <2>1. CASE Slots!Test(x)
    <3>1. ~overlapped' => ~overlapped /\ (x \notin Compartments => \A t \in SlotThreads : slot_pc[t] = "idle")
      BY Zenon, <2>1, ContextsAre DEF Slots!Test
    <3> QED BY Zenon, <2>1, <3>1 DEF Slots!Test
  <2>2. CASE Slots!Load(x)
    BY Zenon, <2>2 DEF Slots!Load
  <2> QED BY Zenon, <2>1, <2>2
<1>2. /\ GlobalGiven' <=> GlobalGiven
      /\ \A y \in Compartments : Given(y) => Given(y)'
      /\ \A y \in Slots!Contexts : Slots!Counter(y)' = Slots!Counter(y)
  BY Zenon, <1>1, KeysSame
<1>3. /\ DOMAIN loaded' = Slots!Contexts
      /\ (p = "load" /\ ~Slots!Full(x)) \/ (loaded'[x] = Slots!Counter(x) /\ slot_pc[x] = "load")
      /\ \A y \in Slots!Contexts : y # x => loaded'[y] = loaded[y]
  BY Zenon, <1>1 DEF SlotsInv, SlotTypes
<1>4. /\ slot_pc' \in [Slots!Contexts -> {"idle", "load", "store"}] /\ slot_pc'[x] = p
      /\ \A y \in Slots!Contexts : y # x => slot_pc'[y] = slot_pc[y]
  BY Zenon, <1>1 DEF SlotsInv, SlotTypes
<1>5. SlotTypes'
  BY Zenon, <1>1, <1>3, <1>4 DEF SlotsInv, SlotTypes
<1>6. ASSUME NEW y \in Slots!Contexts, AllocationOK(y) PROVE AllocationOK(y)'
  <2>1. CASE y = x
    <3>1. ~Slots!Full(x) /\ (p = "store" => loaded'[x] = Slots!Counter(x))
      BY Zenon, <1>3, <1>6, <2>1 DEF AllocationOK
    <3>2. ~Slots!Full(x)' /\ (p = "store" => loaded'[x] = Slots!Counter(x)')
      BY Zenon, <1>2, <3>1 DEF Slots!Full
    <3> QED BY Zenon, <1>4, <2>1, <3>2 DEF AllocationOK
  <2>2. CASE y # x
    BY Zenon, <1>2, <1>3, <1>4, <1>6, <2>2, AllocationKept
  <2> QED BY Zenon, <2>1, <2>2
<1>7. ASSUME NEW y \in Compartments PROVE AllocationOK(y)' /\ Given(y)'
  BY Zenon, <1>2, <1>6, <1>7, ContextsAre DEF SlotsInv
<1>8. ASSUME ~overlapped' PROVE CoreOK'
  <2>1. CoreOK
    BY Zenon, <1>1, <1>8 DEF SlotsInv
  <2>2. OneAtATime'
    <3>1. CASE x \in Compartments
      <4>1. \A t \in SlotThreads : slot_pc'[t] = slot_pc[t]
        BY Zenon, <1>4, <3>1, SlotConstants, ContextsAre
      <4> QED BY Zenon, <2>1, <4>1 DEF CoreOK, OneAtATime
    <3>2. CASE x \notin Compartments
      <4>1. x \in SlotThreads
        BY Zenon, <3>2, ContextsAre
      <4>2. \A t \in SlotThreads : t # x => slot_pc[t] = "idle"
        BY Zenon, <1>1, <1>8, <2>1, <3>2, <4>1 DEF CoreOK, OneAtATime
      <4>3. \A t \in SlotThreads : t # x => slot_pc'[t] = "idle"
        BY Zenon, <1>4, <4>2, ContextsAre
      <4> QED BY Zenon, <4>3 DEF OneAtATime
    <3> QED BY Zenon, <3>1, <3>2
  <2>3. \A y \in SlotThreads : AllocationOK(y)'
    BY Zenon, <1>6, <2>1, ContextsAre DEF CoreOK
  <2>4. current_dynamic_tls_slot' \in 0..GLOBAL_DYNAMIC_TLS_SIZE - 1 /\ GlobalGiven'
    BY Zenon, <1>1, <1>2, <2>1 DEF CoreOK
  <2> QED BY Zenon, <2>2, <2>3, <2>4 DEF CoreOK
<1> QED BY Zenon, <1>5, <1>7, <1>8 DEF SlotsInv

\* A thread of the core is given the next key; until calls overlap, it is the
\* only one that is allocating.
LEMMA StoreGlobal ==
  ASSUME Slots!SlotsAssumption, SlotsInv, NEW x \in SlotThreads, Slots!Store(x)
  PROVE  SlotsInv'
<1>1. x \notin Compartments /\ x \in Slots!Contexts
  BY Zenon, SlotConstants, ContextsAre
<1>2. /\ slot_pc[x] = "store" /\ current_dynamic_tls_slot' = Slots!Next16(loaded[x])
      /\ UNCHANGED <<compartment_dynamic_tls_slot, keys, overlapped>>
      /\ core_keys' = core_keys \cup {loaded[x]} /\ slot_pc' = [slot_pc EXCEPT ![x] = "idle"]
      /\ loaded' = [loaded EXCEPT ![x] = 0]
  BY Zenon, <1>1 DEF Slots!Store, Slots!is_compartment
<1>3. /\ slot_pc' \in [Slots!Contexts -> {"idle", "load", "store"}] /\ slot_pc'[x] = "idle" /\ DOMAIN loaded' = Slots!Contexts
      /\ \A y \in Slots!Contexts : y # x => slot_pc'[y] = slot_pc[y] /\ loaded'[y] = loaded[y]
  BY Zenon, <1>1, <1>2 DEF SlotsInv, SlotTypes
<1>4. SlotTypes'
  BY Zenon, <1>2, <1>3 DEF SlotsInv, SlotTypes
<1>5. ASSUME NEW y \in Compartments PROVE AllocationOK(y)' /\ Given(y)'
  <2>1. Slots!Counter(y)' = Slots!Counter(y) /\ y # x /\ y \in Slots!Contexts
    BY Zenon, <1>1, <1>2, <1>5, ContextsAre DEF Slots!Counter
  <2>2. AllocationOK(y)'
    BY Zenon, <1>3, <1>5, <2>1, AllocationKept DEF SlotsInv
  <2>3. Given(y)'
    BY Zenon, <1>2, <1>5 DEF SlotsInv, Given
  <2> QED BY Zenon, <2>2, <2>3
<1>6. ASSUME ~overlapped' PROVE CoreOK'
  <2>1. CoreOK
    BY Zenon, <1>2, <1>6 DEF SlotsInv
  <2>2. AllocationOK(x)
    BY Zenon, <2>1 DEF CoreOK
  <2>3. PICK n : n = current_dynamic_tls_slot
    BY Zenon
  <2>4. n # GLOBAL_DYNAMIC_TLS_SIZE - 1 /\ loaded[x] = n
    BY Zenon, <1>1, <1>2, <2>2, <2>3, ContextsAre DEF AllocationOK, Slots!Full, Slots!Counter
  <2>5. n \in 0..GLOBAL_DYNAMIC_TLS_SIZE - 1
    BY Zenon, <2>1, <2>3 DEF CoreOK
  <2>6. n \in Nat /\ n + 1 \in 0..GLOBAL_DYNAMIC_TLS_SIZE - 1 /\ n # UINT16_MAX
    BY <2>4, <2>5, SlotConstants
  <2>7. current_dynamic_tls_slot' = n + 1
    BY Zenon, <1>2, <2>4, <2>6 DEF Slots!Next16
  <2>8. GlobalGiven'
    <3>1. 0 \in Nat /\ 0 <= n
      BY <2>6
    <3>2. \A k : k \in 0..(n + 1) - 1 <=> k \in 0..n - 1 \/ k = n
      BY Zenon, <2>6, <3>1, RangeGrows
    <3>3. \A k : k \in core_keys <=> k \in 0..n - 1
      BY Zenon, <2>1, <2>3 DEF CoreOK, GlobalGiven
    <3>4. \A k : k \in core_keys' <=> k \in core_keys \/ k = n
      BY Zenon, <1>2, <2>4
    <3> QED BY Zenon, <2>7, <3>2, <3>3, <3>4 DEF GlobalGiven
  <2>9. \A t \in SlotThreads : slot_pc'[t] = "idle"
    BY Zenon, <1>2, <1>3, <2>1, ContextsAre DEF CoreOK, OneAtATime
  <2>10. OneAtATime' /\ \A t \in SlotThreads : AllocationOK(t)'
    BY Zenon, <2>9 DEF OneAtATime, AllocationOK
  <2> QED BY Zenon, <2>6, <2>7, <2>8, <2>10 DEF CoreOK
<1> QED BY Zenon, <1>4, <1>5, <1>6 DEF SlotsInv

\* A compartment is given the next of its own.
LEMMA StoreCompartment ==
  ASSUME Slots!SlotsAssumption, SlotsInv, NEW x \in Compartments, Slots!Store(x)
  PROVE  SlotsInv'
<1>1. /\ slot_pc[x] = "store" /\ UNCHANGED <<current_dynamic_tls_slot, core_keys, overlapped>>
      /\ compartment_dynamic_tls_slot' = [compartment_dynamic_tls_slot EXCEPT ![x] = Slots!Next16(loaded[x])]
      /\ keys' = [keys EXCEPT ![x] = keys[x] \cup {loaded[x]}] /\ slot_pc' = [slot_pc EXCEPT ![x] = "idle"]
      /\ loaded' = [loaded EXCEPT ![x] = 0]
  BY Zenon DEF Slots!Store, Slots!is_compartment
<1>2. x \in Slots!Contexts /\ \A t \in SlotThreads : t # x /\ t \in Slots!Contexts /\ t \notin Compartments
  BY Zenon, SlotConstants, ContextsAre
<1>3. AllocationOK(x) /\ SlotTypes
  BY Zenon, <1>2 DEF SlotsInv
<1>4. PICK n : n = compartment_dynamic_tls_slot[x]
  BY Zenon
<1>5. n # Slots!DYNAMIC_TLS_SIZE - 1 /\ loaded[x] = n
  BY Zenon, <1>1, <1>3, <1>4 DEF AllocationOK, Slots!Full, Slots!Counter, Slots!is_compartment
<1>6. n \in GLOBAL_DYNAMIC_TLS_SIZE..Slots!DYNAMIC_TLS_SIZE - 1
  BY Zenon, <1>3, <1>4 DEF SlotTypes
<1>7. /\ n \in Nat /\ GLOBAL_DYNAMIC_TLS_SIZE <= n /\ n # UINT16_MAX
      /\ n + 1 \in GLOBAL_DYNAMIC_TLS_SIZE..Slots!DYNAMIC_TLS_SIZE - 1
  BY <1>5, <1>6, SlotConstants
<1>8. /\ slot_pc' \in [Slots!Contexts -> {"idle", "load", "store"}] /\ slot_pc'[x] = "idle" /\ DOMAIN loaded' = Slots!Contexts
      /\ \A y \in Slots!Contexts : y # x => slot_pc'[y] = slot_pc[y] /\ loaded'[y] = loaded[y]
  BY Zenon, <1>1, <1>2, <1>3 DEF SlotTypes
<1>9. /\ DOMAIN keys' = Compartments /\ keys'[x] = keys[x] \cup {n}
      /\ \A y \in Compartments : y # x => keys'[y] = keys[y]
  BY Zenon, <1>1, <1>3, <1>5 DEF SlotTypes
<1>10. Slots!Next16(n) = n + 1
  BY Zenon, <1>7 DEF Slots!Next16
<1>11. /\ compartment_dynamic_tls_slot' \in [Compartments -> GLOBAL_DYNAMIC_TLS_SIZE..Slots!DYNAMIC_TLS_SIZE - 1]
       /\ compartment_dynamic_tls_slot'[x] = n + 1
       /\ \A y \in Compartments : y # x => compartment_dynamic_tls_slot'[y] = compartment_dynamic_tls_slot[y]
  BY Zenon, <1>1, <1>3, <1>5, <1>7, <1>10 DEF SlotTypes
<1>12. SlotTypes'
  BY Zenon, <1>8, <1>9, <1>11 DEF SlotTypes
<1>13. ASSUME NEW y \in Compartments PROVE Given(y)'
  <2>1. CASE y # x
    BY Zenon, <1>9, <1>11, <1>13, <2>1 DEF SlotsInv, Given
  <2>2. CASE y = x
    <3>1. \A k : k \in GLOBAL_DYNAMIC_TLS_SIZE..(n + 1) - 1 <=> k \in GLOBAL_DYNAMIC_TLS_SIZE..n - 1 \/ k = n
      BY Zenon, <1>7, SlotConstants, RangeGrows
    <3>2. \A k : k \in keys[x] <=> k \in GLOBAL_DYNAMIC_TLS_SIZE..n - 1
      BY Zenon, <1>4 DEF SlotsInv, Given
    <3>3. \A k : k \in keys'[x] <=> k \in keys[x] \/ k = n
      BY Zenon, <1>9
    <3> QED BY Zenon, <1>11, <2>2, <3>1, <3>2, <3>3 DEF Given
  <2> QED BY Zenon, <2>1, <2>2
<1>14. ASSUME NEW y \in Slots!Contexts, AllocationOK(y) PROVE AllocationOK(y)'
  <2>1. CASE y = x
    BY Zenon, <1>8, <2>1 DEF AllocationOK
  <2>2. CASE y # x
    <3>1. Slots!Counter(y)' = Slots!Counter(y)
      BY Zenon, <1>1, <1>11, <2>2 DEF Slots!Counter, Slots!is_compartment
    <3> QED BY Zenon, <1>8, <1>14, <2>2, <3>1, AllocationKept
  <2> QED BY Zenon, <2>1, <2>2
<1>15. CoreOK => CoreOK'
  <2>1. \A t \in SlotThreads : slot_pc'[t] = slot_pc[t]
    BY Zenon, <1>2, <1>8
  <2>2. ASSUME CoreOK PROVE \A t \in SlotThreads : AllocationOK(t)'
    BY Zenon, <1>2, <1>14, <2>2 DEF CoreOK
  <2> QED BY Zenon, <1>1, <2>1, <2>2 DEF CoreOK, OneAtATime, GlobalGiven
<1>16. \A y \in Compartments : AllocationOK(y)'
  BY Zenon, <1>14, ContextsAre DEF SlotsInv
<1> QED BY Zenon, <1>1, <1>12, <1>13, <1>15, <1>16 DEF SlotsInv

\* Every step keeps the invariant.
LEMMA SlotsPreserved ==
  ASSUME Slots!SlotsAssumption, SlotsInv, [Slots!Next]_(Slots!vars)
  PROVE  SlotsInv'
<1>1. ASSUME UNCHANGED <<current_dynamic_tls_slot, compartment_dynamic_tls_slot, slot_pc, loaded, core_keys, keys, overlapped>>
      PROVE  SlotsInv'
  <2>1. /\ GlobalGiven' <=> GlobalGiven
        /\ \A x \in Compartments : Given(x) => Given(x)'
        /\ \A x \in Slots!Contexts : Slots!Counter(x)' = Slots!Counter(x)
    BY Zenon, <1>1, KeysSame
  <2>2. \A x \in Slots!Contexts : AllocationOK(x) => AllocationOK(x)'
    BY Zenon, <1>1, <2>1, AllocationKept
  <2>3. CoreOK => CoreOK'
    BY Zenon, <1>1, <2>1, <2>2, ContextsAre DEF CoreOK, OneAtATime
  <2>4. \A x \in Compartments : AllocationOK(x)' /\ Given(x)'
    BY Zenon, <2>1, <2>2, ContextsAre DEF SlotsInv
  <2> QED BY Zenon, <1>1, <2>3, <2>4 DEF SlotsInv, SlotTypes
<1>2. ASSUME NEW x \in Slots!Contexts, Slots!Store(x) PROVE SlotsInv'
  BY Zenon, <1>2, StoreGlobal, StoreCompartment, ContextsAre
<1>3. ASSUME NEW x \in Slots!Contexts, NEW key, NEW v, Slots!set_tls_slot(x, key, v) PROVE SlotsInv'
  BY Zenon, <1>1, <1>3 DEF Slots!set_tls_slot
<1>4. CASE UNCHANGED Slots!vars
  BY Zenon, <1>1, <1>4 DEF Slots!vars
<1> QED BY Zenon, <1>2, <1>3, <1>4, TestStep DEF Slots!Next

\* The invariant implies the properties.
LEMMA SlotsSafe ==
  ASSUME Slots!SlotsAssumption, SlotsInv
  PROVE  Slots!KeysStayInRange /\ Slots!ValidKeysAreGiven /\ Slots!KeysAreNew
<1>1. /\ SlotTypes /\ (\A x \in Compartments : Given(x) /\ AllocationOK(x))
      /\ ~overlapped => CoreOK
  BY Zenon DEF SlotsInv
<1>2. ~overlapped => current_dynamic_tls_slot \in 0..GLOBAL_DYNAMIC_TLS_SIZE - 1 /\ GlobalGiven
  BY Zenon, <1>1 DEF CoreOK
<1>3. \A x \in Compartments : compartment_dynamic_tls_slot[x] \in GLOBAL_DYNAMIC_TLS_SIZE..Slots!DYNAMIC_TLS_SIZE - 1
  BY Zenon, <1>1 DEF SlotTypes
<1>4. Slots!KeysStayInRange
  <2>1. ASSUME ~overlapped PROVE core_keys \subseteq 0..GLOBAL_DYNAMIC_TLS_SIZE - 1
    <3>1. 0..current_dynamic_tls_slot - 1 \subseteq 0..GLOBAL_DYNAMIC_TLS_SIZE - 1
      BY <1>2, <2>1, SlotConstants
    <3> QED BY Zenon, <1>2, <2>1, <3>1 DEF GlobalGiven
  <2>2. ASSUME NEW x \in Compartments
        PROVE  GLOBAL_DYNAMIC_TLS_SIZE..compartment_dynamic_tls_slot[x] - 1
                 \subseteq GLOBAL_DYNAMIC_TLS_SIZE..Slots!DYNAMIC_TLS_SIZE - 1
    <3>1. PICK n \in GLOBAL_DYNAMIC_TLS_SIZE..Slots!DYNAMIC_TLS_SIZE - 1 : n = compartment_dynamic_tls_slot[x]
      BY Zenon, <1>3, <2>2
    <3>2. GLOBAL_DYNAMIC_TLS_SIZE..n - 1 \subseteq GLOBAL_DYNAMIC_TLS_SIZE..Slots!DYNAMIC_TLS_SIZE - 1
      BY SlotConstants
    <3> QED BY Zenon, <3>1, <3>2
  <2> QED BY Zenon, <1>1, <2>1, <2>2 DEF Slots!KeysStayInRange, Given
<1>5. ASSUME NEW x \in Compartments, NEW key \in 0..Slots!DYNAMIC_TLS_SIZE, key >= GLOBAL_DYNAMIC_TLS_SIZE
      PROVE  Slots!is_slot_valid(x, key) <=> key \in keys[x]
  <2>1. PICK n \in GLOBAL_DYNAMIC_TLS_SIZE..Slots!DYNAMIC_TLS_SIZE - 1 : n = compartment_dynamic_tls_slot[x]
    BY Zenon, <1>3, <1>5
  <2>2. ~(key < GLOBAL_DYNAMIC_TLS_SIZE) /\ (key < n <=> key \in GLOBAL_DYNAMIC_TLS_SIZE..n - 1)
    BY <1>5, SlotConstants
  <2>3. Slots!is_slot_valid(x, key) <=> key < n
    BY Zenon, <1>5, <2>1, <2>2 DEF Slots!is_slot_valid, Slots!Counter, Slots!is_compartment
  <2>4. key \in keys[x] <=> key \in GLOBAL_DYNAMIC_TLS_SIZE..n - 1
    BY Zenon, <1>1, <1>5, <2>1 DEF Given
  <2> QED BY Zenon, <2>2, <2>3, <2>4
<1>6. ASSUME NEW x \in Slots!Contexts, NEW key \in 0..Slots!DYNAMIC_TLS_SIZE, ~overlapped,
             ~(x \in Compartments /\ key >= GLOBAL_DYNAMIC_TLS_SIZE)
      PROVE  Slots!is_slot_valid(x, key) <=> key \in core_keys
  <2>1. PICK n \in 0..GLOBAL_DYNAMIC_TLS_SIZE - 1 : n = current_dynamic_tls_slot
    BY Zenon, <1>2, <1>6
  <2>2. key \in core_keys <=> key \in 0..n - 1
    BY Zenon, <1>2, <1>6, <2>1 DEF GlobalGiven
  <2>3. key < n <=> key \in 0..n - 1
    BY SlotConstants
  <2>4. CASE x \in Compartments
    <3>1. PICK m \in GLOBAL_DYNAMIC_TLS_SIZE..Slots!DYNAMIC_TLS_SIZE - 1 : m = compartment_dynamic_tls_slot[x]
      BY Zenon, <1>3, <2>4
    <3>2. key < GLOBAL_DYNAMIC_TLS_SIZE
      BY <1>6, <2>4, SlotConstants
    <3>3. key < m /\ ~(key >= n /\ key < GLOBAL_DYNAMIC_TLS_SIZE) <=> key < n
      BY <3>2, SlotConstants
    <3>4. Slots!is_slot_valid(x, key) <=> key < m /\ ~(key >= n /\ key < GLOBAL_DYNAMIC_TLS_SIZE)
      BY Zenon, <2>1, <2>4, <3>1 DEF Slots!is_slot_valid, Slots!Counter, Slots!is_compartment
    <3> QED BY Zenon, <2>2, <2>3, <3>3, <3>4
  <2>5. CASE x \notin Compartments
    <3>1. Slots!is_slot_valid(x, key) <=> key < n
      BY Zenon, <2>1, <2>5 DEF Slots!is_slot_valid, Slots!Counter, Slots!is_compartment
    <3> QED BY Zenon, <2>2, <2>3, <3>1
  <2> QED BY Zenon, <2>4, <2>5
<1>7. Slots!ValidKeysAreGiven
  BY Zenon, <1>5, <1>6, ContextsAre DEF Slots!ValidKeysAreGiven
<1>8. ASSUME NEW x \in Slots!Contexts, slot_pc[x] = "store", x \in Compartments PROVE loaded[x] \notin keys[x]
  <2>1. PICK n \in GLOBAL_DYNAMIC_TLS_SIZE..Slots!DYNAMIC_TLS_SIZE - 1 : n = compartment_dynamic_tls_slot[x]
    BY Zenon, <1>3, <1>8
  <2>2. loaded[x] = n
    BY Zenon, <1>1, <1>8, <2>1 DEF AllocationOK, Slots!Counter, Slots!is_compartment
  <2>3. n \notin GLOBAL_DYNAMIC_TLS_SIZE..n - 1
    BY SlotConstants
  <2> QED BY Zenon, <1>1, <1>8, <2>1, <2>2, <2>3 DEF Given
<1>9. ASSUME NEW x \in Slots!Contexts, slot_pc[x] = "store", x \notin Compartments, ~overlapped PROVE loaded[x] \notin core_keys
  <2>1. PICK n \in 0..GLOBAL_DYNAMIC_TLS_SIZE - 1 : n = current_dynamic_tls_slot
    BY Zenon, <1>2, <1>9
  <2>2. loaded[x] = n
    BY Zenon, <1>1, <1>9, <2>1, ContextsAre DEF CoreOK, AllocationOK, Slots!Counter
  <2>3. n \notin 0..n - 1
    BY SlotConstants
  <2> QED BY Zenon, <1>2, <1>9, <2>1, <2>2, <2>3 DEF GlobalGiven
<1>10. Slots!KeysAreNew
  BY Zenon, <1>8, <1>9, ContextsAre DEF Slots!KeysAreNew
<1> QED BY Zenon, <1>4, <1>7, <1>10

-----------------------------------------------------------------------------
(* Static TLS blocks. *)

\* The types that the steps keep.
StaticTypes ==
  /\ tdata_start \in Nat /\ tdata_size \in Nat /\ tbss_size \in Nat
  /\ DOMAIN memory = 0..Static!Top /\ tls_base \in [Static!Contexts -> Nat] /\ fresh \subseteq Static!Contexts

\* The block of a context is its own.
BlockOf(x) == Static!Block(tls_base[x] - Static!get_tls_size)
BlockOK(x) == tls_base[x] # 0 => tls_base[x] - Static!get_tls_size \in Nat /\ BlockOf(x) \subseteq 0..Static!Top
BlocksApart(x, y) == x # y /\ tls_base[x] # 0 /\ tls_base[y] # 0 => BlockOf(x) \cap BlockOf(y) = {}

\* What is in the block of a context, and in that of one that has not run.
TcbOK(x) ==
  tls_base[x] # 0 => \A o \in 0..TcbSize - 1 : memory[tls_base[x] + o] = [kind |-> "tcb", n |-> o]
TemplateOK(x) ==
  x \in fresh =>
    /\ tls_base[x] # 0
    /\ \A o \in 0..tdata_size - 1 : memory[(tls_base[x] - Static!get_tls_size) + o] = [kind |-> "tdata", n |-> o]
    /\ \A o \in 0..tbss_size - 1 :
         memory[((tls_base[x] - Static!get_tls_size) + Static!get_uninitialized_tls_offset) + o] = Static!Zero

\* The invariant.
StaticInv ==
  /\ StaticTypes
  /\ \A x \in Static!Contexts : BlockOK(x) /\ TcbOK(x) /\ TemplateOK(x)
  /\ \A x, y \in Static!Contexts : BlocksApart(x, y)

-----------------------------------------------------------------------------

\* What division computes, and multiples that are carried out of a quotient.
LEMMA Division ==
  ASSUME NEW a \in Nat \ {0}, NEW m \in Nat
  PROVE  m \div a \in Nat /\ (m \div a) * a <= m /\ m < (m \div a) * a + a
  OBVIOUS

LEMMA QuotientShift ==
  ASSUME NEW a \in Nat \ {0}, NEW q \in Nat, NEW m \in Nat
  PROVE  (q * a + m) \div a = q + (m \div a)
  OBVIOUS

\* A number rounded up, and the sum of one that is rounded up and another.
LEMMA AlignedUp ==
  ASSUME Static!TlsAssumption, NEW n \in Nat
  PROVE  /\ Static!align_up(n) \in Nat /\ Static!align_up(n) >= n
         /\ \E q \in Nat : Static!align_up(n) = q * TBSS_ALIGNMENT
<1>1. TBSS_ALIGNMENT \in Nat \ {0}
  BY Zenon DEF Static!TlsAssumption
<1>2. PICK m \in Nat : m = n + TBSS_ALIGNMENT - 1
  BY <1>1
<1>3. /\ m \div TBSS_ALIGNMENT \in Nat
      /\ m < (m \div TBSS_ALIGNMENT) * TBSS_ALIGNMENT + TBSS_ALIGNMENT
  BY Zenon, <1>1, Division
<1>4. PICK q \in Nat : q = m \div TBSS_ALIGNMENT
  BY Zenon, <1>3
<1>5. Static!align_up(n) = q * TBSS_ALIGNMENT
  BY Zenon, <1>2, <1>4 DEF Static!align_up
<1>6. q * TBSS_ALIGNMENT \in Nat /\ q * TBSS_ALIGNMENT >= n
  BY <1>1, <1>2, <1>3, <1>4
<1> QED BY Zenon, <1>5, <1>6

\* What is rounded up already stays, when a sum is.
LEMMA AlignSum ==
  ASSUME Static!TlsAssumption, NEW x \in Nat, NEW n \in Nat
  PROVE  Static!align_up(Static!align_up(x) + n) = Static!align_up(x) + Static!align_up(n)
<1>1. TBSS_ALIGNMENT \in Nat \ {0}
  BY Zenon DEF Static!TlsAssumption
<1>2. PICK q \in Nat : Static!align_up(x) = q * TBSS_ALIGNMENT
  BY Zenon, AlignedUp
<1>3. PICK m \in Nat : m = n + TBSS_ALIGNMENT - 1
  BY <1>1
<1>4. (q * TBSS_ALIGNMENT + m) \div TBSS_ALIGNMENT = q + (m \div TBSS_ALIGNMENT)
  BY Zenon, <1>1, QuotientShift
<1>5. (q * TBSS_ALIGNMENT + n) + TBSS_ALIGNMENT - 1 = q * TBSS_ALIGNMENT + m
  BY <1>1, <1>3
<1>6. Static!align_up(Static!align_up(x) + n) = (q + (m \div TBSS_ALIGNMENT)) * TBSS_ALIGNMENT
  BY Zenon, <1>2, <1>4, <1>5 DEF Static!align_up
<1>7. Static!align_up(n) = (m \div TBSS_ALIGNMENT) * TBSS_ALIGNMENT
  BY Zenon, <1>3 DEF Static!align_up
<1>8. m \div TBSS_ALIGNMENT \in Nat
  BY Zenon, <1>1, Division
<1>9. \A d \in Nat : (q + d) * TBSS_ALIGNMENT = q * TBSS_ALIGNMENT + d * TBSS_ALIGNMENT
  BY <1>1
<1> QED BY Zenon, <1>2, <1>6, <1>7, <1>8, <1>9

\* How the parts of a block follow each other; compiled code expects the
\* template where initialize_tls puts it.
LEMMA Layout ==
  ASSUME Static!TlsAssumption, StaticTypes
  PROVE  /\ Static!get_uninitialized_tls_offset \in Nat /\ Static!get_tls_size \in Nat /\ TcbSize \in Nat
         /\ tdata_size \in Nat /\ tbss_size \in Nat
         /\ tdata_size <= Static!get_uninitialized_tls_offset
         /\ Static!get_uninitialized_tls_offset + tbss_size <= Static!get_tls_size
         /\ Static!TemplateBelow = Static!get_tls_size
         /\ Static!get_tls_alloc_size = Static!get_tls_size + TcbSize
<1>1. tdata_start \in Nat /\ tdata_size \in Nat /\ tbss_size \in Nat /\ TcbSize \in Nat
  BY Zenon DEF StaticTypes, Static!TlsAssumption
<1>2. PICK end \in Nat : end = Static!tdata_end /\ end = tdata_start + tdata_size
  BY <1>1 DEF Static!tdata_end
<1>3. PICK u \in Nat : u = Static!align_up(end) /\ u >= end
  BY Zenon, AlignedUp
<1>4. PICK b \in Nat : b = Static!align_up(tbss_size) /\ b >= tbss_size
  BY Zenon, <1>1, AlignedUp
<1>5. Static!get_uninitialized_tls_offset = u - tdata_start /\ Static!get_tls_size = b + (u - tdata_start)
  BY Zenon, <1>2, <1>3, <1>4 DEF Static!get_uninitialized_tls_offset, Static!get_tls_size
<1>6. Static!TemplateBelow = (u + b) - tdata_start
  <2>1. Static!align_up(u + tbss_size) = u + b
    BY Zenon, <1>1, <1>3, <1>4, AlignSum
  <2> QED BY Zenon, <1>2, <1>3, <2>1 DEF Static!TemplateBelow
<1> QED BY <1>1, <1>2, <1>3, <1>4, <1>5, <1>6 DEF Static!get_tls_alloc_size

\* The places of the template and of the control block in a block.
LEMMA PlacesIn ==
  ASSUME Static!TlsAssumption, StaticTypes, NEW a \in Nat
  PROVE  /\ \A o \in 0..tdata_size - 1 : a + o \in Static!Block(a) /\ a + o \in a..a + tdata_size - 1
         /\ \A o \in 0..tbss_size - 1 :
              /\ (a + Static!get_uninitialized_tls_offset) + o \in Static!Block(a)
              /\ (a + Static!get_uninitialized_tls_offset) + o \in
                   a + Static!get_uninitialized_tls_offset..a + Static!get_uninitialized_tls_offset + tbss_size - 1
         /\ \A o \in 0..TcbSize - 1 :
              /\ (a + Static!get_tls_size) + o \in Static!Block(a)
              /\ (a + Static!get_tls_size) + o \in a + Static!get_tls_size..a + Static!get_tls_size + TcbSize - 1
<1>1. PICK u \in Nat, s \in Nat : u = Static!get_uninitialized_tls_offset /\ s = Static!get_tls_size
  BY Zenon, Layout
<1>2. tdata_size \in Nat /\ tbss_size \in Nat /\ TcbSize \in Nat /\ tdata_size <= u /\ u + tbss_size <= s
  BY Zenon, <1>1, Layout
<1>3. Static!Block(a) = a..a + (s + TcbSize) - 1
  BY Zenon, <1>1, Layout DEF Static!Block
<1>4. \A o \in 0..tdata_size - 1 : a + o \in a..a + (s + TcbSize) - 1 /\ a + o \in a..a + tdata_size - 1
  BY <1>2
<1>5. \A o \in 0..tbss_size - 1 : (a + u) + o \in a..a + (s + TcbSize) - 1 /\ (a + u) + o \in a + u..a + u + tbss_size - 1
  BY <1>2
<1>6. \A o \in 0..TcbSize - 1 : (a + s) + o \in a..a + (s + TcbSize) - 1 /\ (a + s) + o \in a + s..a + s + TcbSize - 1
  BY <1>2
<1> QED BY Zenon, <1>1, <1>3, <1>4, <1>5, <1>6

\* The template does not change.
LEMMA SameLayout ==
  ASSUME UNCHANGED <<tdata_start, tdata_size, tbss_size>>
  PROVE  /\ Static!get_tls_size' = Static!get_tls_size /\ Static!get_uninitialized_tls_offset' = Static!get_uninitialized_tls_offset
         /\ \A a : Static!Block(a)' = Static!Block(a)
  BY Zenon DEF Static!get_tls_size, Static!get_uninitialized_tls_offset, Static!get_tls_alloc_size, Static!Block, Static!tdata_end, Static!align_up

\* The base of a context is above its template.
LEMMA BaseIs ==
  ASSUME Static!TlsAssumption, StaticInv, NEW x \in Static!Contexts, tls_base[x] # 0
  PROVE  \E a \in Nat : /\ a = tls_base[x] - Static!get_tls_size /\ tls_base[x] = a + Static!get_tls_size
                        /\ BlockOf(x) = Static!Block(a) /\ Static!Block(a) \subseteq 0..Static!Top
<1>1. PICK a \in Nat : a = tls_base[x] - Static!get_tls_size
  BY Zenon DEF StaticInv, BlockOK
<1>2. tls_base[x] \in Nat /\ Static!get_tls_size \in Nat
  BY Zenon, Layout DEF StaticInv, StaticTypes
<1>3. tls_base[x] = a + Static!get_tls_size
  BY <1>1, <1>2
<1>4. BlockOf(x) = Static!Block(a) /\ Static!Block(a) \subseteq 0..Static!Top
  BY Zenon, <1>1 DEF StaticInv, BlockOK, BlockOf
<1> QED BY Zenon, <1>1, <1>3, <1>4

\* A context whose block is not written.
LEMMA KeepContext ==
  ASSUME Static!TlsAssumption, StaticInv, NEW x \in Static!Contexts, UNCHANGED <<tdata_start, tdata_size, tbss_size>>,
         tls_base'[x] = tls_base[x], x \in fresh' => x \in fresh,
         tls_base[x] # 0 => \A b \in BlockOf(x) : memory'[b] = memory[b]
  PROVE  BlockOK(x)' /\ TcbOK(x)' /\ TemplateOK(x)'
<1>1. BlockOK(x) /\ TcbOK(x) /\ TemplateOK(x) /\ StaticTypes
  BY Zenon DEF StaticInv
<1>2. /\ Static!get_tls_size' = Static!get_tls_size /\ Static!get_uninitialized_tls_offset' = Static!get_uninitialized_tls_offset
      /\ BlockOf(x)' = BlockOf(x) /\ Static!Top' = Static!Top
  BY Zenon, SameLayout DEF BlockOf, Static!Top
<1>3. BlockOK(x)'
  BY Zenon, <1>1, <1>2 DEF BlockOK
<1>4. CASE tls_base[x] = 0
  BY Zenon, <1>1, <1>3, <1>4 DEF TcbOK, TemplateOK
<1>5. CASE tls_base[x] # 0
  <2>1. PICK a \in Nat : /\ a = tls_base[x] - Static!get_tls_size /\ tls_base[x] = a + Static!get_tls_size
                         /\ BlockOf(x) = Static!Block(a)
    BY Zenon, <1>5, BaseIs
  <2>2. \A b \in Static!Block(a) : memory'[b] = memory[b]
    BY Zenon, <1>5, <2>1
  <2>3. TcbOK(x)'
    <3>1. \A o \in 0..TcbSize - 1 : memory'[tls_base[x] + o] = memory[tls_base[x] + o]
      BY Zenon, <1>1, <2>1, <2>2, PlacesIn
    <3> QED BY Zenon, <1>1, <3>1 DEF TcbOK
  <2>4. TemplateOK(x)'
    <3>1. \A o \in 0..tdata_size - 1 : memory'[a + o] = memory[a + o]
      BY Zenon, <1>1, <2>2, PlacesIn
    <3>2. \A o \in 0..tbss_size - 1 :
            memory'[(a + Static!get_uninitialized_tls_offset) + o] = memory[(a + Static!get_uninitialized_tls_offset) + o]
      BY Zenon, <1>1, <2>2, PlacesIn
    <3> SUFFICES ASSUME x \in fresh' PROVE TemplateOK(x)'
      BY Zenon DEF TemplateOK
    <3>3. (tls_base[x] - Static!get_tls_size)' = a /\ tdata_size' = tdata_size /\ tbss_size' = tbss_size
      BY Zenon, <1>2, <2>1
    <3>4. \A o \in 0..tdata_size - 1 : memory[a + o] = [kind |-> "tdata", n |-> o]
      BY Zenon, <1>1, <2>1 DEF TemplateOK
    <3>5. \A o \in 0..tbss_size - 1 : memory[(a + Static!get_uninitialized_tls_offset) + o] = Static!Zero
      BY Zenon, <1>1, <2>1 DEF TemplateOK
    <3>6. \A o \in (0..tdata_size - 1)' : memory'[(tls_base[x] - Static!get_tls_size)' + o] = [kind |-> "tdata", n |-> o]
      BY Zenon, <3>1, <3>3, <3>4
    <3>7. \A o \in (0..tbss_size - 1)' :
            memory'[(tls_base[x] - Static!get_tls_size)' + Static!get_uninitialized_tls_offset' + o] = Static!Zero
      BY Zenon, <1>2, <3>2, <3>3, <3>5
    <3> QED BY Zenon, <1>5, <3>6, <3>7 DEF TemplateOK
  <2> QED BY Zenon, <1>3, <2>3, <2>4
<1> QED BY Zenon, <1>3, <1>4, <1>5

\* What initialize_tls leaves in memory.
LEMMA Written ==
  ASSUME Static!TlsAssumption, StaticTypes, NEW x, NEW a \in Nat, NEW m, Static!Block(a) \subseteq 0..Static!Top, Static!initialize_tls(x, a, m)
  PROVE  /\ \A b \in 0..Static!Top : b \notin Static!Block(a) => memory'[b] = m[b]
         /\ \A o \in 0..tdata_size - 1 : memory'[a + o] = [kind |-> "tdata", n |-> o]
         /\ \A o \in 0..tbss_size - 1 : memory'[(a + Static!get_uninitialized_tls_offset) + o] = Static!Zero
         /\ \A o \in 0..TcbSize - 1 : memory'[(a + Static!get_tls_size) + o] = [kind |-> "tcb", n |-> o]
         /\ DOMAIN memory' = 0..Static!Top
<1>1. PICK u \in Nat, s \in Nat : u = Static!get_uninitialized_tls_offset /\ s = Static!get_tls_size
  BY Zenon, Layout
<1>2. tdata_size \in Nat /\ tbss_size \in Nat /\ TcbSize \in Nat /\ tdata_size <= u /\ u + tbss_size <= s
  BY Zenon, <1>1, Layout
<1>3. PICK A, B, C : /\ A = a..a + tdata_size - 1 /\ B = a + u..a + u + tbss_size - 1
                     /\ C = a + s..a + s + TcbSize - 1
  BY Zenon
<1>4. /\ A \subseteq a..a + (s + TcbSize) - 1 /\ B \subseteq a..a + (s + TcbSize) - 1 /\ C \subseteq a..a + (s + TcbSize) - 1
      /\ A \cap B = {} /\ A \cap C = {} /\ B \cap C = {}
  BY <1>2, <1>3
<1>5. Static!Block(a) = a..a + (s + TcbSize) - 1
  BY Zenon, <1>1, Layout DEF Static!Block
<1>6. DOMAIN memory' = 0..Static!Top
  BY Zenon DEF Static!initialize_tls
<1>7. ASSUME NEW b \in 0..Static!Top
      PROVE  memory'[b] =
               CASE b \in a..a + tdata_size - 1 -> [kind |-> "tdata", n |-> b - a]
                 [] b \in a + Static!get_uninitialized_tls_offset..a + Static!get_uninitialized_tls_offset + tbss_size - 1 -> Static!Zero
                 [] b \in a + Static!get_tls_size..a + Static!get_tls_size + TcbSize - 1 ->
                      [kind |-> "tcb", n |-> b - a - Static!get_tls_size]
                 [] OTHER -> m[b]
  BY Zenon DEF Static!initialize_tls
<1>8. ASSUME NEW b \in 0..Static!Top
      PROVE  memory'[b] = CASE b \in A -> [kind |-> "tdata", n |-> b - a]
                            [] b \in B -> Static!Zero
                            [] b \in C -> [kind |-> "tcb", n |-> b - a - s]
                            [] OTHER -> m[b]
  BY <1>1, <1>3, <1>7
<1>9. ASSUME NEW b \in 0..Static!Top
      PROVE  /\ b \in A => memory'[b] = [kind |-> "tdata", n |-> b - a]
             /\ b \in B => memory'[b] = Static!Zero
             /\ b \in C => memory'[b] = [kind |-> "tcb", n |-> b - a - s]
             /\ b \notin A \cup B \cup C => memory'[b] = m[b]
  BY <1>4, <1>8
<1>10. \A b \in 0..Static!Top : b \notin Static!Block(a) => memory'[b] = m[b]
  BY Zenon, <1>4, <1>5, <1>9
<1>11. ASSUME NEW o \in 0..tdata_size - 1 PROVE memory'[a + o] = [kind |-> "tdata", n |-> o]
  <2>1. a + o \in 0..Static!Top /\ a + o \in A
    BY Zenon, <1>3, PlacesIn
  <2>2. (a + o) - a = o
    BY <1>2
  <2> QED BY Zenon, <1>9, <2>1, <2>2
<1>12. ASSUME NEW o \in 0..tbss_size - 1 PROVE memory'[(a + u) + o] = Static!Zero
  <2>1. (a + u) + o \in 0..Static!Top /\ (a + u) + o \in B
    BY Zenon, <1>1, <1>3, PlacesIn
  <2> QED BY Zenon, <1>9, <2>1
<1>13. ASSUME NEW o \in 0..TcbSize - 1 PROVE memory'[(a + s) + o] = [kind |-> "tcb", n |-> o]
  <2>1. (a + s) + o \in 0..Static!Top /\ (a + s) + o \in C
    BY Zenon, <1>1, <1>3, PlacesIn
  <2>2. ((a + s) + o) - a - s = o
    BY <1>2
  <2> QED BY Zenon, <1>9, <2>1, <2>2
<1> QED BY Zenon, <1>1, <1>6, <1>10, <1>11, <1>12, <1>13

-----------------------------------------------------------------------------

\* There is no block at the start.
LEMMA StaticInitial ==
  ASSUME Static!TlsAssumption, Static!Init
  PROVE  StaticInv
<1>1. StaticTypes
  <2>1. TdataAlignment \in Nat /\ TBSS_ALIGNMENT \in Nat \ {0} /\ MaxTdata \in Nat /\ MaxTbss \in Nat
    BY DEF Static!TlsAssumption
  <2>2. tdata_start \in Nat /\ tdata_size \in Nat /\ tbss_size \in Nat
    BY <2>1 DEF Static!Init
  <2>3. 0 \in Nat
    OBVIOUS
  <2> QED BY Zenon, <2>2, <2>3 DEF Static!Init, StaticTypes
<1>2. \A x \in Static!Contexts : tls_base[x] = 0 /\ x \notin fresh
  BY Zenon DEF Static!Init
<1> QED BY Zenon, <1>1, <1>2 DEF StaticInv, BlockOK, TcbOK, TemplateOK, BlocksApart

\* A block is built in memory that no other context has.
LEMMA BuildStep ==
  ASSUME Static!TlsAssumption, StaticInv, NEW x \in Static!Contexts, tls_base[x] = 0, NEW a \in Addresses, NEW m,
         Static!Free(a), Static!initialize_tls(x, a, m), fresh' = fresh \cup {x},
         \A b \in 0..Static!Top : b \notin Static!Block(a) => m[b] = memory[b],
         UNCHANGED <<tdata_start, tdata_size, tbss_size>>
  PROVE  StaticInv'
<1>1. StaticTypes /\ a \in Nat /\ a # 0 /\ Static!Block(a) \subseteq 0..Static!Top
  BY Zenon DEF StaticInv, Static!Free, Static!TlsAssumption
<1>2. /\ \A b \in 0..Static!Top : b \notin Static!Block(a) => memory'[b] = m[b]
      /\ \A o \in 0..tdata_size - 1 : memory'[a + o] = [kind |-> "tdata", n |-> o]
      /\ \A o \in 0..tbss_size - 1 : memory'[(a + Static!get_uninitialized_tls_offset) + o] = Static!Zero
      /\ \A o \in 0..TcbSize - 1 : memory'[(a + Static!get_tls_size) + o] = [kind |-> "tcb", n |-> o]
      /\ DOMAIN memory' = 0..Static!Top
  BY Zenon, <1>1, Written
<1>3. Static!get_tls_size \in Nat
  BY Zenon, <1>1, Layout
<1>4. a + Static!get_tls_size \in Nat /\ a + Static!get_tls_size # 0 /\ (a + Static!get_tls_size) - Static!get_tls_size = a
  BY <1>1, <1>3
<1>5. tls_base' = [tls_base EXCEPT ![x] = a + Static!get_tls_size]
  BY Zenon DEF Static!initialize_tls
<1>6. tls_base' \in [Static!Contexts -> Nat] /\ tls_base'[x] = a + Static!get_tls_size /\ \A y \in Static!Contexts : y # x => tls_base'[y] = tls_base[y]
  BY Zenon, <1>1, <1>4, <1>5 DEF StaticTypes
<1>7. /\ Static!get_tls_size' = Static!get_tls_size /\ Static!get_uninitialized_tls_offset' = Static!get_uninitialized_tls_offset
      /\ (\A b : Static!Block(b)' = Static!Block(b)) /\ Static!Top' = Static!Top
  BY Zenon, SameLayout DEF Static!Top
<1>8. StaticTypes'
  BY Zenon, <1>1, <1>2, <1>6, <1>7 DEF StaticTypes
<1>9. BlockOf(x)' = Static!Block(a)
  <2>1. tls_base'[x] - Static!get_tls_size' = a
    BY Zenon, <1>4, <1>6, <1>7
  <2> QED BY Zenon, <2>1, SameLayout DEF BlockOf, Static!Block, Static!get_tls_alloc_size, Static!get_tls_size, Static!get_uninitialized_tls_offset, Static!tdata_end, Static!align_up
<1>10. ASSUME NEW y \in Static!Contexts, y # x, tls_base[y] # 0
       PROVE  BlockOf(y)' = BlockOf(y) /\ BlockOf(y) \cap Static!Block(a) = {} /\ BlockOf(y) \subseteq 0..Static!Top
  <2>1. BlockOf(y)' = BlockOf(y)
    BY Zenon, <1>6, <1>10, SameLayout DEF BlockOf, Static!Block, Static!get_tls_alloc_size, Static!get_tls_size, Static!get_uninitialized_tls_offset, Static!tdata_end, Static!align_up
  <2>2. BlockOf(y) \subseteq Static!Used
    BY Zenon, <1>10 DEF Static!Used, BlockOf
  <2>3. BlockOf(y) \subseteq 0..Static!Top
    BY Zenon, <1>10 DEF StaticInv, BlockOK
  <2> QED BY Zenon, <2>1, <2>2, <2>3 DEF Static!Free
<1>11. ASSUME NEW y \in Static!Contexts PROVE BlockOK(y)' /\ TcbOK(y)' /\ TemplateOK(y)'
  <2>1. CASE y # x
    <3>1. tls_base[y] # 0 => \A b \in BlockOf(y) : memory'[b] = memory[b]
      BY Zenon, <1>2, <1>10, <2>1
    <3>2. y \in fresh' => y \in fresh
      BY Zenon, <2>1
    <3> QED BY Zenon, <1>6, <2>1, <3>1, <3>2, KeepContext
  <2>2. CASE y = x
    <3>1. tls_base'[x] - Static!get_tls_size' = a
      BY Zenon, <1>4, <1>6, <1>7
    <3>2. BlockOK(x)'
      BY Zenon, <1>1, <1>7, <1>9, <3>1 DEF BlockOK
    <3>3. TcbOK(x)'
      BY Zenon, <1>2, <1>6 DEF TcbOK
    <3>4. TemplateOK(x)'
      BY Zenon, <1>2, <1>4, <1>6, <1>7, <3>1 DEF TemplateOK, Static!Zero
    <3> QED BY Zenon, <2>2, <3>2, <3>3, <3>4
  <2> QED BY Zenon, <2>1, <2>2
<1>12. ASSUME NEW y \in Static!Contexts, NEW z \in Static!Contexts PROVE BlocksApart(y, z)'
  <2>1. BlocksApart(y, z)
    BY Zenon DEF StaticInv
  <2>2. CASE y # x /\ z # x
    BY Zenon, <1>6, <1>10, <2>1, <2>2 DEF BlocksApart
  <2>3. CASE y = x /\ z # x
    BY Zenon, <1>6, <1>9, <1>10, <2>3 DEF BlocksApart
  <2>4. CASE y # x /\ z = x
    BY Zenon, <1>6, <1>9, <1>10, <2>4 DEF BlocksApart
  <2>5. CASE y = z
    BY Zenon, <2>5 DEF BlocksApart
  <2> QED BY Zenon, <2>2, <2>3, <2>4, <2>5
<1> QED BY Zenon, <1>8, <1>11, <1>12 DEF StaticInv

\* A context writes to its own block, below its control block or to all of it.
LEMMA WriteStep ==
  ASSUME Static!TlsAssumption, StaticInv, NEW x \in Static!Contexts, tls_base[x] # 0, x \notin fresh', fresh' \subseteq fresh,
         DOMAIN memory' = 0..Static!Top, \A b \in 0..Static!Top : b \notin BlockOf(x) => memory'[b] = memory[b],
         tls_base' \in [Static!Contexts -> Nat], \A y \in Static!Contexts : y # x => tls_base'[y] = tls_base[y],
         UNCHANGED <<tdata_start, tdata_size, tbss_size>>,
         \/ tls_base'[x] = 0
         \/ /\ tls_base'[x] = tls_base[x]
            /\ \A o \in 0..TcbSize - 1 : memory'[tls_base[x] + o] = memory[tls_base[x] + o]
  PROVE  StaticInv'
<1>1. \A y \in Static!Contexts : BlockOK(y) /\ TcbOK(y) /\ TemplateOK(y) /\ BlocksApart(x, y)
  BY Zenon DEF StaticInv
<1>2. Static!get_tls_size' = Static!get_tls_size /\ (\A b : Static!Block(b)' = Static!Block(b)) /\ Static!Top' = Static!Top
  BY Zenon, SameLayout DEF Static!Top
<1>3. \A y \in Static!Contexts : tls_base'[y] # 0 => tls_base'[y] = tls_base[y]
  BY Zenon
<1>4. ASSUME NEW y \in Static!Contexts, tls_base'[y] # 0 PROVE BlockOf(y)' = BlockOf(y)
  BY Zenon, <1>3, <1>4, SameLayout DEF BlockOf, Static!Block, Static!get_tls_alloc_size, Static!get_tls_size, Static!get_uninitialized_tls_offset, Static!tdata_end, Static!align_up
<1>5. StaticTypes'
  BY Zenon, <1>2 DEF StaticInv, StaticTypes
<1>6. ASSUME NEW y \in Static!Contexts PROVE BlockOK(y)' /\ TcbOK(y)' /\ TemplateOK(y)'
  <2>1. CASE y # x
    <3>1. tls_base[y] # 0 => \A b \in BlockOf(y) : memory'[b] = memory[b]
      BY Zenon, <1>1, <2>1 DEF BlocksApart, BlockOK
    <3> QED BY Zenon, <2>1, <3>1, KeepContext
  <2>2. CASE y = x
    BY Zenon, <1>1, <1>2, <1>4, <2>2 DEF BlockOK, TcbOK, TemplateOK
  <2> QED BY Zenon, <2>1, <2>2
<1>7. ASSUME NEW y \in Static!Contexts, NEW z \in Static!Contexts PROVE BlocksApart(y, z)'
  <2>1. BlocksApart(y, z)
    BY Zenon DEF StaticInv
  <2> QED BY Zenon, <1>3, <1>4, <2>1 DEF BlocksApart
<1> QED BY Zenon, <1>5, <1>6, <1>7 DEF StaticInv

\* The code of a context writes below its control block.
LEMMA UseStep ==
  ASSUME Static!TlsAssumption, StaticInv, NEW x \in Static!Contexts, Static!Run(x)
  PROVE  StaticInv'
<1>1. /\ x \in fresh /\ fresh' = fresh \ {x} /\ UNCHANGED <<tdata_start, tdata_size, tbss_size, tls_base>>
      /\ memory' = [b \in 0..Static!Top |-> IF b \in tls_base[x] - Static!TemplateBelow..tls_base[x] - 1 THEN Static!Stale ELSE memory[b]]
  BY Zenon DEF Static!Run
<1>2. tls_base[x] # 0 /\ StaticTypes
  BY Zenon, <1>1 DEF StaticInv, TemplateOK
<1>3. PICK a \in Nat : /\ a = tls_base[x] - Static!get_tls_size /\ tls_base[x] = a + Static!get_tls_size
                       /\ BlockOf(x) = Static!Block(a) /\ Static!Block(a) \subseteq 0..Static!Top
  BY Zenon, <1>2, BaseIs
<1>4. tls_base[x] - Static!TemplateBelow = a /\ Static!get_tls_size \in Nat /\ TcbSize \in Nat /\ Static!get_tls_alloc_size = Static!get_tls_size + TcbSize
  BY Zenon, <1>2, <1>3, Layout
<1>5. a..tls_base[x] - 1 \subseteq Static!Block(a)
  <2>1. PICK s \in Nat : s = Static!get_tls_size
    BY Zenon, <1>4
  <2>2. tls_base[x] = a + s /\ Static!Block(a) = a..a + (s + TcbSize) - 1
    BY Zenon, <1>3, <1>4, <2>1 DEF Static!Block
  <2>3. a..(a + s) - 1 \subseteq a..a + (s + TcbSize) - 1
    BY <1>4
  <2> QED BY Zenon, <2>2, <2>3
<1>6. DOMAIN memory' = 0..Static!Top /\ \A b \in 0..Static!Top : b \notin a..tls_base[x] - 1 => memory'[b] = memory[b]
  BY Zenon, <1>1, <1>4
<1>7. \A b \in 0..Static!Top : b \notin BlockOf(x) => memory'[b] = memory[b]
  BY Zenon, <1>3, <1>5, <1>6
<1>8. ASSUME NEW o \in 0..TcbSize - 1 PROVE memory'[tls_base[x] + o] = memory[tls_base[x] + o]
  <2>1. tls_base[x] + o \in 0..Static!Top
    BY Zenon, <1>2, <1>3, PlacesIn
  <2>2. tls_base[x] \in Nat
    BY Zenon, <1>2 DEF StaticTypes
  <2>3. tls_base[x] + o \notin a..tls_base[x] - 1
    BY <1>4, <2>2
  <2> QED BY Zenon, <1>6, <2>1, <2>3
<1>9. tls_base' \in [Static!Contexts -> Nat] /\ \A y \in Static!Contexts : tls_base'[y] = tls_base[y]
  BY Zenon, <1>1, <1>2 DEF StaticTypes
<1> QED BY Zenon, <1>1, <1>2, <1>6, <1>7, <1>8, <1>9, WriteStep

\* A block is given back.
LEMMA FreeStep ==
  ASSUME Static!TlsAssumption, StaticInv, NEW x \in Static!Contexts, Static!free_tls(x)
  PROVE  StaticInv'
<1>1. /\ tls_base[x] # 0 /\ x \notin fresh /\ UNCHANGED <<tdata_start, tdata_size, tbss_size, fresh>>
      /\ memory' = [b \in 0..Static!Top |-> IF b \in BlockOf(x) THEN Static!Stale ELSE memory[b]]
      /\ tls_base' = [tls_base EXCEPT ![x] = 0]
  BY Zenon DEF Static!free_tls, BlockOf
<1>2. DOMAIN memory' = 0..Static!Top /\ \A b \in 0..Static!Top : b \notin BlockOf(x) => memory'[b] = memory[b]
  BY Zenon, <1>1
<1>3. 0 \in Nat
  BY Zenon, ZeroIsNat
<1>4. tls_base' \in [Static!Contexts -> Nat] /\ tls_base'[x] = 0 /\ \A y \in Static!Contexts : y # x => tls_base'[y] = tls_base[y]
  BY Zenon, <1>1, <1>3 DEF StaticInv, StaticTypes
<1> QED BY Zenon, <1>1, <1>2, <1>4, WriteStep

\* Every step keeps the invariant.
LEMMA StaticPreserved ==
  ASSUME Static!TlsAssumption, StaticInv, [Static!Next]_(Static!vars)
  PROVE  StaticInv'
<1>1. ASSUME NEW x \in Static!Contexts, Static!create_tls(x) PROVE StaticInv'
  <2>1. PICK a \in Addresses :
          Static!Free(a) /\ Static!initialize_tls(x, a, [b \in 0..Static!Top |-> IF b \in Static!Block(a) THEN Static!Zero ELSE memory[b]])
    BY Zenon, <1>1 DEF Static!create_tls
  <2>2. PICK m : m = [b \in 0..Static!Top |-> IF b \in Static!Block(a) THEN Static!Zero ELSE memory[b]]
    BY Zenon
  <2>3. \A b \in 0..Static!Top : b \notin Static!Block(a) => m[b] = memory[b]
    BY Zenon, <2>2
  <2> QED BY Zenon, <1>1, <2>1, <2>2, <2>3, BuildStep DEF Static!create_tls
<1>2. ASSUME NEW x \in Static!Contexts, Static!CompartmentTls(x) PROVE StaticInv'
  BY Zenon, <1>2, BuildStep DEF Static!CompartmentTls
<1>3. CASE UNCHANGED Static!vars
  <2>1. \A x \in Static!Contexts : BlockOK(x)' /\ TcbOK(x)' /\ TemplateOK(x)'
    BY Zenon, <1>3, KeepContext DEF Static!vars
  <2>2. \A x \in Static!Contexts : BlockOf(x)' = BlockOf(x)
    BY Zenon, <1>3 DEF Static!vars, BlockOf, Static!Block, Static!get_tls_alloc_size, Static!get_tls_size, Static!get_uninitialized_tls_offset, Static!tdata_end, Static!align_up
  <2> QED BY Zenon, <1>3, <2>1, <2>2 DEF Static!vars, StaticInv, StaticTypes, BlocksApart, Static!Top
<1> QED BY Zenon, <1>1, <1>2, <1>3, UseStep, FreeStep DEF Static!Next

\* The invariant implies the properties.
LEMMA StaticSafe ==
  ASSUME Static!TlsAssumption, StaticInv
  PROVE  Static!ControlBlocksAreKept /\ Static!VariablesStartInitialized
<1>1. Static!TemplateBelow = Static!get_tls_size
  BY Zenon, Layout DEF StaticInv
<1>2. Static!VariablesStartInitialized
  BY Zenon, <1>1 DEF StaticInv, StaticTypes, TemplateOK, Static!VariablesStartInitialized, Static!get_uninitialized_tls_offset
<1> QED BY Zenon, <1>2 DEF StaticInv, TcbOK, Static!ControlBlocksAreKept

\* is_slot_valid accepts the keys that allocate_tls_slot has given and no other,
\* no key is given twice, and the keys stay in their half of the array, for
\* threads of the core until two of their calls overlap; the control block of a
\* context is written by none of the others, and its thread-local variables have
\* their initial values where compiled code looks for them.
THEOREM TlsKept == Slots!Spec /\ Static!Spec => []TlsIsKept
<1>1. Slots!Init /\ Static!Init => SlotsInv /\ StaticInv
  BY Zenon, SlotsInitial, StaticInitial, MCRuntimeAssumptions
<1>2. SlotsInv /\ [Slots!Next]_(Slots!vars) => SlotsInv'
  BY Zenon, SlotsPreserved, MCRuntimeAssumptions
<1>3. StaticInv /\ [Static!Next]_(Static!vars) => StaticInv'
  BY Zenon, StaticPreserved, MCRuntimeAssumptions
<1>4. SlotsInv /\ StaticInv => TlsIsKept
  BY Zenon, SlotsSafe, StaticSafe, MCRuntimeAssumptions DEF TlsIsKept
<1> QED BY <1>1, <1>2, <1>3, <1>4, PTL DEF Slots!Spec, Static!Spec

=============================================================================
