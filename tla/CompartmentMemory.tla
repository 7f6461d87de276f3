------------------------- MODULE CompartmentMemory -------------------------
(***************************************************************************)
(* CompartmentMemory objects: each owns a block of its compartment's       *)
(* memory, rounded up to a power of two of at least a chunk, until it is   *)
(* destroyed or moved from.                                                *)
(***************************************************************************)
EXTENDS Naturals

CONSTANTS
    Objects,
    SizeOfT,          \* bytes of an element
    MIN_CHUNK_SIZE,
    MaxCount,         \* bound: elements asked for or filled in
    MaxBlocks         \* bound: blocks taken from the compartment's range

Larger(a, b) == IF a > b THEN a ELSE b
next_pow2(n) == CHOOSE p \in {2^i : i \in 0..8} : p >= n /\ (p = 1 \/ p < 2 * n)

\* The last: the arrays asked for are in the reach of next_pow2.
CompartmentMemoryAssumption ==
    /\ SizeOfT \in Nat \ {0} /\ MIN_CHUNK_SIZE \in Nat \ {0}
    /\ MaxCount \in Nat /\ MaxBlocks \in Nat
    /\ \A n \in 1..MaxCount * SizeOfT : next_pow2(n) \in Nat /\ next_pow2(n) >= n

VARIABLES
    base,        \* of each object: a block, or 0 for a null pointer
    alloc_size,  \* of each object: bytes
    alive,       \* objects that are constructed
    block,       \* size of each block taken from the range; 0 when it is free
    filled,      \* of each object: bytes the last fill has written
    stopped      \* kabort() has been called

vars == <<base, alloc_size, alive, block, filled, stopped>>

Blocks == 1..MaxBlocks
Free == {b \in Blocks : block[b] = 0}

Init ==
    /\ base = [o \in Objects |-> 0] /\ alloc_size = [o \in Objects |-> 0]
    /\ alive = {} /\ block = [b \in Blocks |-> 0]
    /\ filled = [o \in Objects |-> 0] /\ stopped = FALSE

alloc_size_for(count) == Larger(next_pow2(count * SizeOfT), MIN_CHUNK_SIZE)

\* What memset writes is not modelled.
Construct(o, count) ==
    /\ o \notin alive /\ alive' = alive \cup {o}
    /\ IF count = 0
         THEN /\ base' = [base EXCEPT ![o] = 0]
              /\ alloc_size' = [alloc_size EXCEPT ![o] = 0]
              /\ UNCHANGED block
         ELSE \E b \in Free :
                /\ base' = [base EXCEPT ![o] = b]
                /\ alloc_size' = [alloc_size EXCEPT ![o] = alloc_size_for(count)]
                /\ block' = [block EXCEPT ![b] = alloc_size_for(count)]
    /\ filled' = [filled EXCEPT ![o] = 0]

\* do_alloc finds no memory, of which other users of the range may have any.
AllocFails(o, count) ==
    /\ o \notin alive /\ count # 0
    /\ stopped' = TRUE
    /\ UNCHANGED <<base, alloc_size, alive, block, filled>>

\* Mutant: the source keeps its block.
Move_Copies(o, source) ==
    /\ base' = [base EXCEPT ![o] = base[source]]
    /\ alloc_size' = [alloc_size EXCEPT ![o] = alloc_size[source]]

Move(o, source) ==
    /\ base' = [base EXCEPT ![o] = base[source], ![source] = 0]
    /\ alloc_size' = [alloc_size EXCEPT ![o] = alloc_size[source], ![source] = 0]

MoveConstruct(o, source) ==
    /\ o \notin alive /\ source \in alive /\ alive' = alive \cup {o}
    /\ Move(o, source)
    /\ filled' = [filled EXCEPT ![o] = filled[source], ![source] = 0]
    /\ UNCHANGED block

\* The member values of a destroyed object are reset here only to keep the
\* state small.
Destruct(o) ==
    /\ o \in alive /\ alive' = alive \ {o}
    /\ block' = IF alloc_size[o] > 0 THEN [block EXCEPT ![base[o]] = 0] ELSE block
    /\ base' = [base EXCEPT ![o] = 0] /\ alloc_size' = [alloc_size EXCEPT ![o] = 0]
    /\ filled' = [filled EXCEPT ![o] = 0]

Fits(o, n) == n * SizeOfT < alloc_size[o]

fill(o, n) ==
    /\ o \in alive
    /\ IF Fits(o, n)
         THEN filled' = [filled EXCEPT ![o] = n * SizeOfT]
         ELSE UNCHANGED filled
    /\ UNCHANGED <<base, alloc_size, alive, block>>

Next ==
    \E o \in Objects :
        \/ /\ ~stopped /\ UNCHANGED stopped
           /\ \/ \E n \in 0..MaxCount : Construct(o, n) \/ fill(o, n)
              \/ \E source \in Objects : MoveConstruct(o, source)
              \/ Destruct(o)
        \/ \E n \in 0..MaxCount : ~stopped /\ AllocFails(o, n)

Spec == Init /\ [][Next]_vars

\* Every block in use is owned by exactly one live object, which will give it
\* back with the size it was taken with: no leak and no double free, through
\* any sequence of moves and destructions.
BlocksHaveOneOwner ==
    \A b \in Blocks :
        IF block[b] = 0
          THEN \A o \in alive : alloc_size[o] = 0 \/ base[o] # b
          ELSE \E o \in alive : /\ base[o] = b /\ alloc_size[o] = block[b]
                                /\ \A p \in alive : base[p] = b => p = o

\* fill never writes beyond the block, also after a move.
FillStaysInside ==
    \A o \in alive : filled[o] <= alloc_size[o]

=============================================================================
