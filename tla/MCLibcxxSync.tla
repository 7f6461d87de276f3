---------------------------- MODULE MCLibcxxSync ----------------------------
(***************************************************************************)
(* LibcxxSync for both kinds of mutex: kind says which one a behaviour is   *)
(* about.  Recursive is FALSE in the instance that this module extends.     *)
(***************************************************************************)
EXTENDS LibcxxSync

VARIABLE kind

RecursiveMutex == INSTANCE LibcxxSync WITH Recursive <- TRUE

MCInit == kind \in {"plain", "recursive"} /\ Init

PlainNext == kind = "plain" /\ Next /\ UNCHANGED kind
RecursiveNext == kind = "recursive" /\ RecursiveMutex!Next /\ UNCHANGED kind

\* The fairness of LibcxxSync, for the kind at hand.
MCSpec ==
    /\ MCInit /\ [][PlainNext \/ RecursiveNext]_<<kind, vars>>
    /\ \A t \in Threads :
        /\ WF_vars(kind = "plain" /\ LibraryStep(t))
        /\ WF_vars(kind = "recursive" /\ RecursiveMutex!LibraryStep(t))
        /\ WF_vars(Unlock(t))

=============================================================================
