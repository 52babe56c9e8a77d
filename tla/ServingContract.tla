--------------------------- MODULE ServingContract ---------------------------
(***************************************************************************)
(* What a Script Project promises about the code it runs, without locks,   *)
(* Jobs or leases: it serves at most one revision, only one that passed    *)
(* validation, and the Scripts it publishes are exactly those the revision *)
(* it serves was found to publish.                                         *)
(***************************************************************************)
CONSTANTS Revision, Script, Publishes, NoRevision

VARIABLES approved, serving, published

contract == <<approved, serving, published>>

Init ==
    /\ approved = {}
    /\ serving = NoRevision
    /\ published = {}

\* Validation passes a revision.
Approve(r) ==
    /\ approved' = approved \cup {r}
    /\ UNCHANGED <<serving, published>>

\* The pointer and the published Scripts change together.
Serve(r) ==
    /\ r \in approved
    /\ serving' = r
    /\ published' = Publishes[r]
    /\ UNCHANGED approved

StandDown ==
    /\ serving' = NoRevision
    /\ published' = {}
    /\ UNCHANGED approved

\* A deleted revision takes the pointer with it; its Script rows stay but
\* nothing serves them.
Withdraw(r) ==
    /\ approved' = approved \ {r}
    /\ serving' = IF serving = r THEN NoRevision ELSE serving
    /\ UNCHANGED published

Next ==
    \/ StandDown
    \/ \E r \in Revision : Approve(r) \/ Serve(r) \/ Withdraw(r)

Spec == Init /\ [][Next]_contract
=============================================================================
