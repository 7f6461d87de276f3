---------------------------- MODULE SharedMemory ----------------------------
(***************************************************************************)
(* The memory that a host application shares with its guest.  The host     *)
(* carves a ring and its offsets out of it for each direction and leaves   *)
(* their guest addresses in a tuple at its start; the guest checks them    *)
(* and uses them.  Addresses are numbers of WordSize values.               *)
(***************************************************************************)
EXTENDS Integers, Sequences

CONSTANTS
    WordSize,       \* 2^64
    SHMEM_SIZE,
    SHMEM_START,    \* guest address of the shared memory
    TupleSizes,     \* sizeof(InitializerTuple)
    BufferSizes,    \* BUFFER_SIZE
    OffsetsSizes,   \* sizeof(ringbuffer::Offsets), a multiple of its alignment
    Alignments,     \* alignof(ringbuffer::Offsets)
    OtherStarts,    \* addresses and sizes that another user of the platform
    OtherSizes      \* passes to the guest

SharedMemoryAssumption ==
    /\ WordSize \in Nat
    /\ SHMEM_SIZE \in 1..WordSize - 1 /\ SHMEM_START \in 1..WordSize - 1
    /\ SHMEM_START + SHMEM_SIZE < WordSize
    /\ TupleSizes \subseteq 1..WordSize - 1 /\ BufferSizes \subseteq 0..WordSize - 1
    /\ OffsetsSizes \subseteq 1..WordSize - 1 /\ Alignments \subseteq 1..WordSize - 1
    /\ OtherStarts \subseteq 0..WordSize - 1 /\ OtherSizes \subseteq 0..WordSize - 1

VARIABLES
    host,           \* what the host is doing
    types,          \* the sizes it is compiled with
    shmem_offset,
    objects,        \* allocated so far: their place and size in shared memory
    tuple,          \* the tuple at the start of shared memory
    guest,          \* what the guest is doing
    mapped          \* objects that the guest has accepted

vars == <<host, types, shmem_offset, objects, tuple, guest, mapped>>

Range(start, size) == [start |-> start, size |-> size]
NoTuple == [i \in 1..4 |-> Range(0, 0)]

Init ==
    /\ types \in [tuple : TupleSizes, buffer : BufferSizes,
                  offsets : {o \in OffsetsSizes \X Alignments : o[1] % o[2] = 0}]
    /\ host = "new" /\ guest = "off" /\ shmem_offset = 0
    /\ objects = <<>> /\ mapped = <<>> /\ tuple = NoTuple

-----------------------------------------------------------------------------
(* Host. *)

Throw ==
    /\ host' = "failed"
    /\ UNCHANGED <<types, shmem_offset, objects, tuple, guest, mapped>>

\* The end of the constructor: space is reserved for the tuple.
Reserve ==
    /\ host = "new" /\ types.tuple < SHMEM_SIZE
    /\ host' = "allocating" /\ shmem_offset' = shmem_offset + types.tuple
    /\ UNCHANGED <<types, objects, tuple, guest, mapped>>

ReserveFails == host = "new" /\ types.tuple >= SHMEM_SIZE /\ Throw

AlignUp(n, alignment) == (((n + alignment - 1) % WordSize) \div alignment) * alignment

\* Mutant: the end of the region is taken for a place inside it.
Fits_ToTheEnd(start, size) ==
    LET end == (start + size) % WordSize IN
    start >= shmem_offset /\ end > start /\ end <= SHMEM_SIZE

Fits(start, size) ==
    LET end == (start + size) % WordSize IN
    start >= shmem_offset /\ end > start /\ end < SHMEM_SIZE

allocate_shared_inner(size, alignment) ==
    LET start == AlignUp(shmem_offset, alignment) IN
    \/ /\ Fits(start, size)
       /\ shmem_offset' = (start + size) % WordSize
       /\ objects' = Append(objects, Range(start, size))
       /\ UNCHANGED <<host, types, tuple, guest, mapped>>
    \/ ~Fits(start, size) /\ Throw

allocate_shared == allocate_shared_inner(types.offsets[1], types.offsets[2])

\* Arrays are of uint8_t.
allocate_shared_array == allocate_shared_inner(types.buffer, 1)

\* The constructor of RingbufferGuest: rings and offsets in turn.
AllocateRing    == host = "allocating" /\ Len(objects) \in {0, 2} /\ allocate_shared_array
AllocateOffsets == host = "allocating" /\ Len(objects) \in {1, 3} /\ allocate_shared

initialize(initArgs) ==
    /\ tuple' = initArgs /\ host' = "ready"
    /\ UNCHANGED <<types, shmem_offset, objects, guest, mapped>>

GuestAddress(o) == Range(SHMEM_START + o.start, o.size)

InitializeRings ==
    /\ host = "allocating" /\ Len(objects) = 4
    /\ initialize([i \in 1..4 |-> GuestAddress(objects[i])])

\* Another user of the platform, that passes any address and size for one of
\* the four, and the start of the shared memory for the others.
InitializeOther(n, start, size) ==
    /\ host = "allocating" /\ objects = <<>>
    /\ initialize([i \in 1..4 |-> IF i = n THEN Range(start, size) ELSE Range(SHMEM_START, 1)])

async_run ==
    /\ host = "ready" /\ host' = "running" /\ guest' = "main"
    /\ UNCHANGED <<types, shmem_offset, objects, tuple, mapped>>

-----------------------------------------------------------------------------
(* Guest. *)

check_valid_subrange(start, end) ==
    LET top == SHMEM_START + SHMEM_SIZE IN
    /\ start >= SHMEM_START /\ start < top
    /\ end > SHMEM_START /\ end < top /\ start < end

\* Objects are validated in order; size of the offsets is known to the guest.
validate_array(r) ==
    check_valid_subrange(r.start, (r.start + r.size) % WordSize)
validate_object(r) ==
    check_valid_subrange(r.start, (r.start + types.offsets[1]) % WordSize)

\* pointer_offset from the start of the range.
Pointer(r) == r.start - SHMEM_START

Exit ==
    /\ guest' = "exited"
    /\ UNCHANGED <<host, types, shmem_offset, objects, tuple, mapped>>

Accept(o) ==
    /\ mapped' = Append(mapped, o)
    /\ guest' = IF Len(mapped) = 3 THEN "app_main" ELSE "main"
    /\ UNCHANGED <<host, types, shmem_offset, objects, tuple>>

MapRing ==
    LET r == tuple[Len(mapped) + 1] IN
    /\ guest = "main" /\ Len(mapped) \in {0, 2}
    /\ \/ validate_array(r) /\ Accept(Range(Pointer(r), r.size))
       \/ ~validate_array(r) /\ Exit

MapOffsets ==
    LET r == tuple[Len(mapped) + 1] IN
    /\ guest = "main" /\ Len(mapped) \in {1, 3}
    /\ \/ validate_object(r) /\ Accept(Range(Pointer(r), types.offsets[1]))
       \/ ~validate_object(r) /\ Exit

Next ==
    \/ Reserve \/ ReserveFails \/ AllocateRing \/ AllocateOffsets
    \/ InitializeRings \/ async_run \/ MapRing \/ MapOffsets
    \/ \E n \in 1..4, start \in OtherStarts, size \in OtherSizes : InitializeOther(n, start, size)

Spec == Init /\ [][Next]_vars

-----------------------------------------------------------------------------
(* Properties. *)

\* Objects that allocate_shared_inner hands out are aligned, lie in the shared
\* memory behind the tuple, and do not overlap, for every size that is asked for.
ObjectsAreApart ==
    /\ \A i \in DOMAIN objects :
          /\ objects[i].start >= types.tuple
          /\ objects[i].size > 0 /\ objects[i].start + objects[i].size <= SHMEM_SIZE
          /\ i \in {2, 4} => objects[i].start % types.offsets[2] = 0
    /\ \A i, j \in DOMAIN objects :
          i < j => objects[i].start + objects[i].size <= objects[j].start

\* A guest accepts every ring that RingbufferGuest could allocate, and finds in
\* its memory what the host put there.
GuestSeesTheSameObjects ==
    Len(objects) = 4 =>
        /\ guest # "exited"
        /\ \A i \in DOMAIN mapped : mapped[i] = objects[i]

\* Whatever address and size the tuple has: what validate_array and
\* validate_object accept lies in the shared memory.
AcceptedIsShared ==
    \A i \in DOMAIN mapped :
        mapped[i].start >= 0 /\ mapped[i].start + mapped[i].size <= SHMEM_SIZE

=============================================================================
