------------------------------- MODULE MCHost -------------------------------
(***************************************************************************)
(* Instances of the modules about the host.  The value of part says which  *)
(* of them a behaviour is about; the variables of the others keep an       *)
(* initial value.                                                          *)
(***************************************************************************)
EXTENDS QemuEnclave, Integers, Sequences

\* Those of SharedMemory.
CONSTANTS
    WordSize, SHMEM_SIZE, SHMEM_START, TupleSizes, BufferSizes, OffsetsSizes, Alignments,
    OtherStarts, OtherSizes

VARIABLES
    part,
    \* HcsEnclave
    hcs_pc, is_isolated, members, handle, granted, paths, system, pipe, listener,
    joinable, pipe_closed, system_exit, callback, started, hcs_joined, then,
    \* SharedMemory
    host, types, shmem_offset, objects, tuple, guest, mapped

Hcs == INSTANCE HcsEnclave WITH pc <- hcs_pc, joined <- hcs_joined

Shared == INSTANCE SharedMemory

ASSUME MCHostAssumptions == QemuAssumption /\ Shared!SharedMemoryAssumption

hcs_vars == <<hcs_pc, is_isolated, members, handle, granted, paths, system, pipe, listener,
              joinable, pipe_closed, system_exit, callback, started, hcs_joined, then>>
shared_vars == <<host, types, shmem_offset, objects, tuple, guest, mapped>>
mc_vars == <<part, vars, hcs_vars, shared_vars>>

MCInit ==
    /\ part \in {"qemu", "hcs", "shared"}
    /\ Init
    /\ Hcs!Init /\ (part # "hcs" => ~is_isolated)
    /\ Shared!Init
    /\ part # "shared" => types = CHOOSE t \in [tuple : TupleSizes, buffer : BufferSizes,
                                                offsets : OffsetsSizes \X Alignments] :
                                     t.offsets[1] % t.offsets[2] = 0

\* Bound: only the second host process has a second enclave.
FirstHasOne == pc'[<<1, 2>>] = "none"

QemuNext == part = "qemu" /\ Next /\ FirstHasOne /\ UNCHANGED <<part, hcs_vars, shared_vars>>
HcsNext == part = "hcs" /\ Hcs!Next /\ UNCHANGED <<part, vars, shared_vars>>
SharedNext == part = "shared" /\ Shared!Next /\ UNCHANGED <<part, vars, hcs_vars>>

MCNext == QemuNext \/ HcsNext \/ SharedNext

\* The fairness of HcsEnclave, in the behaviours about it.
MCFairness ==
    /\ WF_hcs_vars(part = "hcs" /\ Hcs!JoinStep) /\ WF_hcs_vars(part = "hcs" /\ Hcs!Delete)
    /\ WF_hcs_vars(part = "hcs" /\ Hcs!OpenPipe) /\ WF_hcs_vars(part = "hcs" /\ Hcs!ReadFails)
    /\ WF_hcs_vars(part = "hcs" /\ Hcs!SystemExits) /\ WF_hcs_vars(part = "hcs" /\ Hcs!PipeCloses)

MCSpec == MCInit /\ [][MCNext]_mc_vars /\ MCFairness

-----------------------------------------------------------------------------
(* Properties of the components.                                             *)

\* A QEMU enclave that is destroyed or cannot be constructed leaves behind no
\* QEMU that was not told to end, and no socket of it; async_run resumes the
\* guest of its own instance, whatever a killed host process has left, unless
\* the name was in use by another process.
HostCleansUp == NothingLeftBehind /\ ResumesItsOwn

\* HCSEnclave::join and the destructors of a guest that was started return.
JoinReturns == Hcs!JoinReturns

\* Objects of allocate_shared_inner are aligned, in bounds and apart; a guest
\* accepts every ring of RingbufferGuest, at the place the host means; what
\* validate_array and validate_object accept lies in shared memory.
SharedObjectsAgree ==
    Shared!ObjectsAreApart /\ Shared!GuestSeesTheSameObjects /\ Shared!AcceptedIsShared

=============================================================================
