-------------------------- MODULE RevisionLifecycle --------------------------
(***************************************************************************)
(* The status lifecycle of one project's revisions, as choices.py,         *)
(* constants.py and the reference documentation of the model state it,     *)
(* with neither locks nor Jobs nor stored files.  StoredContent and        *)
(* ProjectServing each take a part of the code for its own and move the    *)
(* statuses of the rest freely; both implement this.                       *)
(***************************************************************************)
EXTENDS RevisionStatus

CONSTANT Revision   \* the revisions a project may come to have

VARIABLE status     \* their statuses

Init == status = [r \in Revision |-> "absent"]

\* Storing: staging opens a write window, which is entered again after a
\* failure, and a refresh adopts a tree found stored.
Stored ==
    {<<"absent", "staging">>, <<"absent", "materialized">>,
     <<"staging", "materialized">>, <<"staging", "storage_failed">>,
     <<"storage_failed", "staging">>, <<"storage_failed", "materialized">>}

\* Judging: a claim ends with a verdict or is given back.
Judged ==
    {<<"materialized", "validating">>, <<"validating", "valid">>,
     <<"validating", "invalid">>, <<"validating", "materialized">>}

Move(r) ==
    \E st \in Status :
        /\ <<status[r], st>> \in Stored \cup Judged
        /\ status' = [status EXCEPT ![r] = st]

\* The revision in force and the one before it change together.
Activate(r) ==
    /\ status[r] \in Activatable
    /\ status' = [q \in Revision |-> IF q = r THEN "active"
                                     ELSE IF status[q] = "active" THEN "retired"
                                     ELSE status[q]]

Deactivate(r) ==
    /\ status[r] = "active"
    /\ status' = [status EXCEPT ![r] = "retired"]

\* Rows go one by one or all together, whatever their status.
Delete(gone) ==
    status' = [r \in Revision |-> IF r \in gone THEN "absent" ELSE status[r]]

Next ==
    \/ \E r \in Revision : Move(r) \/ Activate(r) \/ Deactivate(r)
    \/ \E gone \in SUBSET Revision : Delete(gone)

Spec == Init /\ [][Next]_status
=============================================================================
