---------------------------- MODULE Confidential ----------------------------
(***************************************************************************)
(* The exchanges of a confidential guest with the world outside: the       *)
(* requests to the security processor, the memory that is shared with the  *)
(* host and the calls made through the GHCB.  They have no state in        *)
(* common.  In "serial" the calls of GuestRequest do not overlap, in       *)
(* "overlap" they may.                                                     *)
(***************************************************************************)
EXTENDS GuestRequest, FiniteSets

CONSTANTS
    \* VisibleMemory
    NoPage, FrameCount, PageFrames, BlockSizes, MaxBlocks,
    \* GhcbCalls
    Reps, MaxHypercalls

VARIABLES
    part,
    \* VisibleMemory
    visible_pc, want, frame, original, visible_lock, offset, available, host, msr, ghcb,
    registered, blocks,
    \* GhcbCalls
    call_pc, op, logs, after, call_ghcb, reply, processed, count

Visible == INSTANCE VisibleMemory WITH
    Cores <- Threads, Sizes <- BlockSizes, None <- NoPage, pc <- visible_pc, lock <- visible_lock

Ghcb == INSTANCE GhcbCalls WITH MaxCalls <- MaxHypercalls, pc <- call_pc, ghcb <- call_ghcb

ASSUME ConfidentialAssumption == Visible!VisibleAssumption /\ Ghcb!GhcbAssumption

OneAtATime == \A t, u \in Threads : pc'[t] # "out" /\ pc'[u] # "out" => t = u
RequestInit == part \in {"overlap", "serial"} /\ Init
RequestNext ==
    /\ part \in {"overlap", "serial"} /\ Next
    /\ part = "serial" => OneAtATime
    /\ UNCHANGED part
RequestSpec == RequestInit /\ [][RequestNext]_<<part, vars>>

-----------------------------------------------------------------------------
(* Properties, as stated in the modules of the parts.                        *)

\* When calls do not overlap, what sev_typed_guest_request returns is the
\* answer, and kabort() is called only for a fault or too much data.
SerialCallsAreAnswered == part = "serial" => PopulatesResponse /\ AbortsOnlyForFault

\* Blocks of allocate_visible are shared with the host and do not overlap, what
\* is shared is in a block or in the pool, and outside allocate_visible the MSR
\* of a core names its GHCB.
VisibleIsShared == Visible!BlocksAreShared /\ Visible!SharedIsAccountedFor /\ Visible!GhcbInForce

\* The host is shown the call that the guest makes: at each exit for a hypercall
\* its parameters and the element to go on from are in the GHCB, and at each exit
\* in the base format every field that was written for it is marked as valid.
\* Fields of earlier calls may be marked too: initial_guest starts from a bitmap
\* that is not initialised.
HostSeesTheCall == Ghcb!HostSeesTheCall /\ Ghcb!WrittenIsValid

=============================================================================
