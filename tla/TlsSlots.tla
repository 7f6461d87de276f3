------------------------------ MODULE TlsSlots ------------------------------
(***************************************************************************)
(* Dynamic thread-local slots.  Threads of the core share one counter of   *)
(* slots; a compartment has a counter of its own, in its TLS block, for    *)
(* the upper half of the array, and may use the slots of the core as well. *)
(* Every context (thread or compartment) has its own array.                *)
(*                                                                         *)
(* Allocation is a test, a load and a store without a lock, and every      *)
(* thread of the core may allocate: overlapped says that the calls of two  *)
(* threads have overlapped, after which the counter of the core may have   *)
(* any value.                                                              *)
(***************************************************************************)
EXTENDS Integers, FiniteSets

CONSTANTS
  Threads, Compartments,
  GLOBAL_DYNAMIC_TLS_SIZE, COMPARTMENT_DYNAMIC_TLS_SIZE,
  UINT16_MAX,
  Values,        \* what is stored; not null
  Null,
  MaxStored      \* bound: slots that hold a value

SlotsAssumption ==
  /\ GLOBAL_DYNAMIC_TLS_SIZE \in Nat \ {0} /\ COMPARTMENT_DYNAMIC_TLS_SIZE \in Nat \ {0}
  /\ UINT16_MAX \in Nat /\ GLOBAL_DYNAMIC_TLS_SIZE + COMPARTMENT_DYNAMIC_TLS_SIZE <= UINT16_MAX
  /\ Threads \cap Compartments = {} /\ Null \notin Values

VARIABLES
  current_dynamic_tls_slot,
  compartment_dynamic_tls_slot, \* of each compartment
  dynamic_tls,                  \* of each context
  pc, loaded,                   \* allocation in progress, per context
  core_keys, keys,              \* history: keys given to threads, and to each compartment
  overlapped                    \* history: see above

vars == <<current_dynamic_tls_slot, compartment_dynamic_tls_slot, dynamic_tls, pc, loaded,
          core_keys, keys, overlapped>>

Contexts == Threads \cup Compartments
DYNAMIC_TLS_SIZE == GLOBAL_DYNAMIC_TLS_SIZE + COMPARTMENT_DYNAMIC_TLS_SIZE
is_compartment(x) == x \in Compartments

Init ==
  /\ current_dynamic_tls_slot = 0
  /\ compartment_dynamic_tls_slot = [x \in Compartments |-> GLOBAL_DYNAMIC_TLS_SIZE]
  /\ dynamic_tls = [x \in Contexts |-> [k \in 0..DYNAMIC_TLS_SIZE - 1 |-> Null]]
  /\ pc = [x \in Contexts |-> "idle"] /\ loaded = [x \in Contexts |-> 0]
  /\ core_keys = {} /\ keys = [x \in Compartments |-> {}] /\ overlapped = FALSE

\* The counter that x allocates from, and the last one, which is never given.
Counter(x) == IF is_compartment(x) THEN compartment_dynamic_tls_slot[x] ELSE current_dynamic_tls_slot
\* Mutant: threads of the core take slots of the compartments, too.
Full_Global(x) == Counter(x) = DYNAMIC_TLS_SIZE - 1
Full(x) == Counter(x) = (IF is_compartment(x) THEN DYNAMIC_TLS_SIZE ELSE GLOBAL_DYNAMIC_TLS_SIZE) - 1

Next16(n) == IF n = UINT16_MAX THEN 0 ELSE n + 1

\* allocate_tls_slot: the test; it fails without a change when x is full.
Test(x) ==
  /\ pc[x] = "idle" /\ ~Full(x)
  /\ pc' = [pc EXCEPT ![x] = "load"]
  /\ overlapped' = (overlapped \/ (~is_compartment(x) /\ \E t \in Threads : pc[t] # "idle"))
  /\ UNCHANGED <<current_dynamic_tls_slot, compartment_dynamic_tls_slot, dynamic_tls, loaded, core_keys, keys>>
Load(x) ==
  /\ pc[x] = "load"
  /\ loaded' = [loaded EXCEPT ![x] = Counter(x)] /\ pc' = [pc EXCEPT ![x] = "store"]
  /\ UNCHANGED <<current_dynamic_tls_slot, compartment_dynamic_tls_slot, dynamic_tls, core_keys, keys, overlapped>>
Store(x) ==
  /\ pc[x] = "store"
  /\ IF is_compartment(x)
     THEN /\ compartment_dynamic_tls_slot' = [compartment_dynamic_tls_slot EXCEPT ![x] = Next16(loaded[x])]
          /\ keys' = [keys EXCEPT ![x] = @ \cup {loaded[x]}]
          /\ UNCHANGED <<current_dynamic_tls_slot, core_keys>>
     ELSE /\ current_dynamic_tls_slot' = Next16(loaded[x])
          /\ core_keys' = core_keys \cup {loaded[x]}
          /\ UNCHANGED <<compartment_dynamic_tls_slot, keys>>
  /\ pc' = [pc EXCEPT ![x] = "idle"] /\ loaded' = [loaded EXCEPT ![x] = 0]
  /\ UNCHANGED <<dynamic_tls, overlapped>>

is_slot_valid(x, key) ==
  /\ key < Counter(x)
  /\ is_compartment(x) => ~(key >= current_dynamic_tls_slot /\ key < GLOBAL_DYNAMIC_TLS_SIZE)

get_tls_slot(x, key) == IF is_slot_valid(x, key) THEN dynamic_tls[x][key] ELSE Null

\* What a store beyond the array changes is not modelled.
set_tls_slot(x, key, v) ==
  /\ pc[x] = "idle" /\ is_slot_valid(x, key)
  /\ Cardinality({y \in Contexts \X DOMAIN dynamic_tls[x] : dynamic_tls[y[1]][y[2]] # Null}) < MaxStored
  /\ dynamic_tls' = [dynamic_tls EXCEPT ![x][key] = v]
  /\ UNCHANGED <<current_dynamic_tls_slot, compartment_dynamic_tls_slot, pc, loaded, core_keys, keys, overlapped>>

Next == \E x \in Contexts :
  \/ Test(x) \/ Load(x) \/ Store(x)
  \/ \E key \in 0..DYNAMIC_TLS_SIZE - 1, v \in Values : set_tls_slot(x, key, v)

Spec == Init /\ [][Next]_vars

-----------------------------------------------------------------------------
(* Properties.  A compartment has one thread, so for its own keys they hold  *)
(* whatever the threads of the core do; for the keys of the core, until two  *)
(* calls overlap.                                                            *)

\* A context can use a key exactly when allocate_tls_slot has returned it to a
\* thread of the core or, in a compartment, to that compartment: never a slot
\* between the two ranges or beyond the array.
ValidKeysAreGiven ==
  \A x \in Contexts, key \in 0..DYNAMIC_TLS_SIZE :
    LET own == is_compartment(x) /\ key >= GLOBAL_DYNAMIC_TLS_SIZE
    IN  own \/ ~overlapped => (is_slot_valid(x, key) <=> key \in IF own THEN keys[x] ELSE core_keys)

\* Keys of the core and of compartments stay in their half of the array, so
\* that no compartment is given a slot that also has a meaning as one of the
\* core's.
KeysStayInRange ==
  /\ ~overlapped => core_keys \subseteq 0..GLOBAL_DYNAMIC_TLS_SIZE - 1
  /\ \A x \in Compartments : keys[x] \subseteq GLOBAL_DYNAMIC_TLS_SIZE..DYNAMIC_TLS_SIZE - 1

\* The key that allocate_tls_slot is about to return has not been given before.
KeysAreNew ==
  \A x \in Contexts : pc[x] = "store" =>
    IF is_compartment(x) THEN loaded[x] \notin keys[x] ELSE overlapped \/ loaded[x] \notin core_keys
=============================================================================
