------------------------------ MODULE MCMemory ------------------------------
(***************************************************************************)
(* Instances of the modules about compartments and their memory.  The      *)
(* value of part says which of them a behaviour is about; the variables of *)
(* the others keep an initial value.                                       *)
(***************************************************************************)
EXTENDS Compartments, Ownership

VARIABLE part

data_vars == <<base, alloc_size, alive, block, filled, stopped>>
mc_vars == <<part, own_vars, vars, data_vars>>

MCInit ==
    /\ part \in {"own", "comp", "data"}
    /\ OwnInit /\ (part # "own" => serial) /\ Init /\ Data!Init

\* Bounds: where calls overlap, no compartment reads memory that it does not own;
\* where they do not, one compartment does and one core makes all calls.
SerialCore == CHOOSE k \in Cores : TRUE
Readers == IF serial THEN {CHOOSE c \in Compartments : TRUE} ELSE {}
Bounds ==
    /\ serial => \A k \in Cores \ {SerialCore} : call'[k] = Idle
    /\ \A c \in Compartments \ Readers, a \in Chunks : mapped'[c][a] # "read"

OwnerNext == part = "own" /\ OwnNext /\ Bounds /\ UNCHANGED <<part, vars, data_vars>>
CompNext == part = "comp" /\ Next /\ UNCHANGED <<part, own_vars, data_vars>>
DataNext == part = "data" /\ Data!Next /\ UNCHANGED <<part, own_vars, vars>>

\* Compartments reach the bounds on their numbers, or there is no memory.
Stopped == (part = "comp" \/ stopped) /\ UNCHANGED mc_vars

MCNext == OwnerNext \/ CompNext \/ DataNext \/ Stopped

\* The code of the core is not preempted: a call that has begun goes on.
MCSpec ==
    MCInit /\ [][MCNext]_mc_vars /\ \A k \in Cores : WF_own_vars(part = "own" /\ Step(k))

=============================================================================
