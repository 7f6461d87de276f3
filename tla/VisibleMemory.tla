--------------------------- MODULE VisibleMemory ---------------------------
(***************************************************************************)
(* Host-visible memory under SEV-SNP: cores allocate blocks of shared      *)
(* memory above the virtual top of memory, first of all the GHCB through   *)
(* which each of them talks to the host.  The GHCB MSR is used for both    *)
(* protocols: page state requests while the pool grows, and the address of *)
(* the GHCB otherwise.  Memory is counted in frames of HV_PAGE_SIZE.       *)
(***************************************************************************)
EXTENDS Naturals, FiniteSets

CONSTANTS
    Cores,
    FrameCount,     \* of above_vtom_memory_range
    PageFrames,     \* PAGE_SIZE / HV_PAGE_SIZE, the step by which the pool grows
    Sizes,          \* frames asked for by other callers
    None,
    MaxBlocks       \* bound: blocks allocated

VisibleAssumption ==
    /\ FrameCount \in Nat /\ PageFrames \in Nat \ {0} /\ MaxBlocks \in Nat
    /\ Sizes \subseteq Nat \ {0} /\ None \notin Nat \cup Cores

VARIABLES
    pc, want, frame, original,   \* of each core in allocate_visible
    lock,
    offset,                      \* remaining_vtom_offset
    available,                   \* currently_shared_available
    host,                        \* of each frame: "private" or "shared"
    msr,                         \* of each core: the GHCB MSR
    ghcb,                        \* of each core: hypervisor_input_page
    registered,                  \* of each core: the GHCB the host knows
    blocks                       \* history: blocks allocated

core == <<pc, want, frame, original>>
pool == <<lock, offset, available>>
vars == <<core, pool, host, msr, ghcb, registered, blocks>>

Frames == 0..FrameCount - 1
Msr(info, page) == [info |-> info, page |-> page]
SevGhcbMsrNormal(page) == Msr("normal", page)
At(c, from, to) == pc[c] = from /\ pc' = [pc EXCEPT ![c] = to]

Init ==
    /\ pc = [c \in Cores |-> "off"] /\ want = [c \in Cores |-> 0]
    /\ frame = [c \in Cores |-> 0]
    /\ original = [c \in Cores |-> Msr("features", None)]
    /\ lock = None /\ offset = 0 /\ available = [start |-> None, size |-> 0]
    /\ host = [f \in Frames |-> "private"]
    /\ msr = [c \in Cores |-> Msr("features", None)]
    /\ ghcb = [c \in Cores |-> None] /\ registered = [c \in Cores |-> None]
    /\ blocks = {}

-----------------------------------------------------------------------------
(* allocate_visible_sev_vtom *)

\* ap_init_sev: the first thing a core does is to set up its GHCB.
ap_init(c) ==
    /\ At(c, "off", "lock") /\ Cardinality(blocks) < MaxBlocks
    /\ want' = [want EXCEPT ![c] = 1]
    /\ UNCHANGED <<frame, original, pool, host, msr, ghcb, registered, blocks>>

allocate_visible(c, size) ==
    /\ At(c, "idle", "lock") /\ Cardinality(blocks) < MaxBlocks
    /\ want' = [want EXCEPT ![c] = size]
    /\ UNCHANGED <<frame, original, pool, host, msr, ghcb, registered, blocks>>

Acquire(c) ==
    /\ At(c, "lock", "loop") /\ lock = None /\ lock' = c
    /\ UNCHANGED <<want, frame, original, offset, available, host, msr, ghcb, registered, blocks>>

\* The loop: stop when the pool is used up, else take the next page and begin
\* to tell the host about it, keeping the MSR.
Expand(c) ==
    /\ pc[c] = "loop" /\ available.size < want[c]
    /\ IF offset + PageFrames > FrameCount
         THEN /\ At(c, "loop", "abort")
              /\ UNCHANGED <<frame, original, offset>>
         ELSE /\ At(c, "loop", "state")
              /\ offset' = offset + PageFrames
              /\ frame' = [frame EXCEPT ![c] = offset]
              /\ original' = [original EXCEPT ![c] = msr[c]]
    /\ UNCHANGED <<want, lock, available, host, msr, ghcb, registered, blocks>>

\* The frames of the page that is being added.
ExtraStart == offset - PageFrames

Refused(c) == msr' = [msr EXCEPT ![c] = original[c]]

\* update_state_for_range: one request for each frame.  The host does as it is
\* told, or refuses.
PageState(c) ==
    /\ pc[c] = "state" /\ frame[c] < offset
    /\ \/ /\ host' = [host EXCEPT ![frame[c]] = "shared"]
          /\ msr' = [msr EXCEPT ![c] = Msr("page_state_response", None)]
          /\ frame' = [frame EXCEPT ![c] = @ + 1]
          /\ UNCHANGED pc
       \/ Refused(c) /\ At(c, "state", "abort") /\ UNCHANGED <<host, frame>>
    /\ UNCHANGED <<want, original, pool, ghcb, registered, blocks>>

\* Mutant: the pool is only the page that was added.
Extended_Replaced == [start |-> ExtraStart, size |-> PageFrames]
Extended ==
    [start |-> IF available.start = None THEN ExtraStart ELSE available.start,
     size |-> available.size + PageFrames]

\* Restore the MSR, and add the page to what is available.
PageAdded(c) ==
    /\ At(c, "state", "loop") /\ frame[c] = offset
    /\ msr' = [msr EXCEPT ![c] = original[c]]
    /\ available' = Extended
    /\ UNCHANGED <<want, frame, original, lock, offset, host, ghcb, registered, blocks>>

Remaining(c) == [start |-> available.start + want[c], size |-> available.size - want[c]]

\* Allocate from what is available and release the lock.
Carve(c) ==
    /\ pc[c] = "loop" /\ available.size >= want[c]
    /\ blocks' = blocks \cup {[core |-> c, start |-> available.start, size |-> want[c]]}
    /\ available' = Remaining(c)
    /\ lock' = None
    /\ IF ghcb[c] = None
         THEN At(c, "loop", "register") /\ frame' = [frame EXCEPT ![c] = available.start]
         ELSE At(c, "loop", "idle") /\ UNCHANGED frame
    /\ UNCHANGED <<want, original, offset, host, msr, ghcb, registered>>

-----------------------------------------------------------------------------
(* setup_ghcb, after the allocation, and the end. *)

RegisterGhcb(c) ==
    /\ pc[c] = "register"
    /\ \/ /\ registered' = [registered EXCEPT ![c] = frame[c]]
          /\ msr' = [msr EXCEPT ![c] = SevGhcbMsrNormal(frame[c])]
          /\ ghcb' = [ghcb EXCEPT ![c] = frame[c]]
          /\ At(c, "register", "idle")
       \/ /\ msr' = [msr EXCEPT ![c] = Msr("register_response", None)]
          /\ At(c, "register", "abort")
          /\ UNCHANGED <<ghcb, registered>>
    /\ UNCHANGED <<want, frame, original, pool, host, blocks>>

\* shutdown_sev, at the end of kabort: the host may refuse to stop.
shutdown(c) ==
    /\ At(c, "abort", "stopped")
    /\ msr' = [msr EXCEPT ![c] = Msr("termination", None)]
    /\ UNCHANGED <<want, frame, original, pool, host, ghcb, registered, blocks>>

Next ==
    \E c \in Cores :
        \/ ap_init(c) \/ \E size \in Sizes : allocate_visible(c, size)
        \/ Acquire(c) \/ Expand(c) \/ PageState(c) \/ PageAdded(c) \/ Carve(c)
        \/ RegisterGhcb(c) \/ shutdown(c)

Spec == Init /\ [][Next]_vars

-----------------------------------------------------------------------------
(* Properties. *)

FramesOf(b) == b.start..b.start + b.size - 1

\* A block that allocate_visible has returned lies above the virtual top of
\* memory, the host sees all of it, and no two blocks overlap, whichever cores
\* allocate at the same time.
BlocksAreShared ==
    /\ \A b \in blocks : FramesOf(b) \subseteq {f \in Frames : host[f] = "shared"}
    /\ \A a, b \in blocks : a # b => FramesOf(a) \cap FramesOf(b) = {}

\* While no core is at work on the pool, what the host sees is what has been
\* allocated and what is available: no frame is shared and forgotten, and
\* private memory stays private.
SharedIsAccountedFor ==
    lock = None =>
        {f \in Frames : host[f] = "shared"} =
            (UNION {FramesOf(b) : b \in blocks})
              \cup (IF available.size = 0 THEN {} ELSE FramesOf(available))

\* When a core is outside the allocator, or reports that it has failed, and has
\* a GHCB, the MSR names that GHCB, the host knows it and can see it: a call or
\* a log message goes through the GHCB.
GhcbInForce ==
    \A c \in Cores :
        pc[c] \in {"idle", "abort"} /\ ghcb[c] # None =>
            /\ msr[c] = SevGhcbMsrNormal(ghcb[c])
            /\ registered[c] = ghcb[c] /\ host[ghcb[c]] = "shared"

=============================================================================
