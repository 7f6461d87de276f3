---------------------------- MODULE AddressSpace ----------------------------
(***************************************************************************)
(* What the page tables promise: for the core and for each compartment a   *)
(* map from pages to access rights, of which a call changes the pages of   *)
(* its range and nothing else.                                             *)
(***************************************************************************)
CONSTANTS
    Spaces, Pages, NoAccess,
    Rights,   \* what a call may give
    Ranges,   \* sets of pages a call may be about
    Initial   \* the rights a new space starts with

VARIABLES
    live,   \* spaces that exist
    access  \* [Spaces -> [Pages -> rights]]

vars == <<live, access>>

Init == live = {} /\ access = [s \in Spaces |-> [p \in Pages |-> NoAccess]]

Create(s) ==
    /\ s \notin live
    /\ live' = live \cup {s} /\ access' = [access EXCEPT ![s] = Initial[s]]

\* One call gives one right to the pages of a range, or takes the access away.
Update(s, range, right) ==
    /\ s \in live
    /\ UNCHANGED live
    /\ \A p \in range : access'[s][p] = right
    /\ \A t \in Spaces, p \in Pages : t # s \/ p \notin range => access'[t][p] = access[t][p]

Destroy(s) ==
    /\ s \in live
    /\ live' = live \ {s}
    /\ access' = [access EXCEPT ![s] = [p \in Pages |-> NoAccess]]

Next ==
    \E s \in Spaces :
        \/ Create(s)
        \/ \E range \in Ranges, right \in Rights : Update(s, range, right)
        \/ Destroy(s)

Spec == Init /\ [][Next]_vars
=============================================================================
