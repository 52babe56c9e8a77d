--------------------------- MODULE RevisionStatus ---------------------------
(***************************************************************************)
(* The lifecycle states of a Script Project revision and the groups the    *)
(* services decide by.  "absent" is the lack of a row: it is not a status  *)
(* of the program, it stands for an identity no row carries.               *)
(***************************************************************************)

Status == {"staging", "materialized", "storage_failed", "validating",
           "valid", "invalid", "active", "retired"}

RowState == Status \cup {"absent"}

\* What activation accepts beside the revision already in force.
Activatable == {"valid", "retired"}

\* A write that never completed: the states staging may re-enter.
Retryable == {"staging", "storage_failed"}

\* A row exists and its content write was once settled.  These are the rows
\* _accept_source and latest_stored_revision take for a stored source.
Settled == Status \ Retryable
=============================================================================
