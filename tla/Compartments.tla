---------------------------- MODULE Compartments ----------------------------
(***************************************************************************)
(* What the core keeps for its compartments: the invocations of a thread   *)
(* and the objects in the memory of a compartment that the core shares     *)
(* with it.  They have no state in common.                                 *)
(***************************************************************************)
EXTENDS Compartment

CONSTANTS Objects, SizeOfT, MIN_CHUNK_SIZE, MaxCount, MaxBlocks

VARIABLES base, alloc_size, alive, block, filled, stopped

Data == INSTANCE CompartmentMemory

ASSUME CompartmentsAssumption == CompartmentAssumption /\ Data!CompartmentMemoryAssumption

-----------------------------------------------------------------------------
(* Properties. *)

\* User code runs with the page table, TLS and stack of its invocation, the
\* saved states on the stack of the core are those of the invocations, and
\* invocations never share a stack nor leak one.
InvocationsNest ==
    RunsInItsCompartment /\ LinksFollowInvocations /\ StackPerInvocation

\* A block belongs to one CompartmentMemory object, and fill writes no more
\* than the block of its object has room for.
BlocksHaveOneOwner == Data!BlocksHaveOneOwner /\ Data!FillStaysInside

=============================================================================
