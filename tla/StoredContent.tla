---------------------------- MODULE StoredContent ----------------------------
(***************************************************************************)
(* One Script Project's revision rows and the content they name in the     *)
(* storage backend.                                                        *)
(*                                                                         *)
(* The database and the backend share no transaction.  Staging, refresh,   *)
(* activation and cleanup hold the project lock, a PostgreSQL session      *)
(* advisory lock, across their storage work; deleting a row holds nothing  *)
(* and only records a cleanup Job in its own transaction; validation holds *)
(* nothing and moves the row by conditional updates.  A step below is one  *)
(* database statement, one transaction or one stored file, so that a       *)
(* crash or another actor can come between any two of them.                *)
(***************************************************************************)
EXTENDS Naturals, RevisionStatus

CONSTANTS
    Digest,      \* source trees
    Selection,   \* enabled Script File declarations a revision can freeze
    File,        \* manifest paths of a tree, the same for every digest
    Worker,      \* processes that take the project lock
    Deleter,     \* processes that delete rows, one transaction at a time
    Nobody,      \* the lock's holder while it is free
    NoKey,       \* the key of an idle worker
    MaxFaults,   \* bound: backend failures and crashes in one behaviour
    MaxDeletes,  \* bound: committed delete transactions in one behaviour
    MaxDrops     \* bound: connections lost under a working process

ASSUME StoredContentConstants ==
    /\ Nobody \notin Worker
    /\ NoKey \notin Digest \X Selection
    /\ File # {}
    /\ MaxFaults \in Nat
    /\ MaxDeletes \in Nat
    /\ MaxDrops \in Nat

\* A revision's identity inside its project: source digest and selection.
Key == Digest \X Selection

VARIABLES
    project,   \* whether the project row still exists
    rows,      \* committed revision rows, by identity
    store,     \* paths present in the backend, by digest
    holder,    \* who holds the project lock
    task,      \* what each worker is doing
    lost,      \* workers whose connection, and lock, is gone unnoticed
    deleting,  \* each deleter's open transaction
    pending,   \* cleanup Jobs waiting to run, by the row that recorded them
    stalled,   \* cleanup Jobs that failed or whose worker died
    faults, deletes, drops

vars == <<project, rows, store, holder, task, lost, deleting, pending,
          stalled, faults, deletes, drops>>

bounds == <<faults, deletes, drops>>
jobs   == <<pending, stalled>>

\* Steps of the operations that run with the lock held.
LockedPc == {"stage_identify", "stage_claim", "stage_write", "stage_settle",
             "refresh_verify", "refresh_candidate",
             "promote_verify", "promote_commit",
             "cleanup_recheck", "cleanup_remove"}

Pc == {"promote_wait"} \cup LockedPc

Idle == [pc |-> "idle", key |-> NoKey]
Task == {Idle} \cup [pc : Pc, key : Key]

NoDelete == [keys |-> {}, owes |-> {}, cascade |-> FALSE]

Delete == [keys : SUBSET Key, owes : SUBSET Key, cascade : BOOLEAN]

TypeOK ==
    /\ project \in BOOLEAN
    /\ rows \in [Key -> RowState]
    /\ store \in [Digest -> SUBSET File]
    /\ holder \in Worker \cup {Nobody}
    /\ task \in [Worker -> Task]
    /\ lost \subseteq Worker
    /\ deleting \in [Deleter -> Delete]
    /\ pending \in [Key -> Nat]
    /\ stalled \in [Key -> Nat]
    /\ faults \in Nat /\ deletes \in Nat /\ drops \in Nat

-----------------------------------------------------------------------------
(* Helpers *)

Exists(k) == rows[k] # "absent"

Named(d) == \E s \in Selection : Exists(<<d, s>>)

Complete(d) == store[d] = File

At(w, pc) == task[w].pc = pc

\* An uncommitted DELETE keeps its row locked: an UPDATE of the row waits
\* for the transaction, while plain reads still see the row.
Unlocked(k) == \A x \in Deleter : k \notin deleting[x].keys

\* w can reach the database.
Connected(w) == w \notin lost

Move(w, pc) == task' = [task EXCEPT ![w].pc = pc]

Acquire(w, pc, k) ==
    /\ holder = Nobody
    /\ holder' = w
    /\ task' = [task EXCEPT ![w] = [pc |-> pc, key |-> k]]

\* Leave the lock's block, whether by returning or by raising.
Release(w) ==
    /\ holder' = IF holder = w THEN Nobody ELSE holder
    /\ task' = [task EXCEPT ![w] = Idle]

SetRow(k, st) == rows' = [rows EXCEPT ![k] = st]

Fault == faults < MaxFaults /\ faults' = faults + 1

-----------------------------------------------------------------------------
Init ==
    /\ project = TRUE
    /\ rows = [k \in Key |-> "absent"]
    /\ store = [d \in Digest |-> {}]
    /\ holder = Nobody
    /\ task = [w \in Worker |-> Idle]
    /\ lost = {}
    /\ deleting = [x \in Deleter |-> NoDelete]
    /\ pending = [k \in Key |-> 0]
    /\ stalled = [k \in Key |-> 0]
    /\ faults = 0 /\ deletes = 0 /\ drops = 0

-----------------------------------------------------------------------------
(* stage_revision *)

StageLock(w, k) ==
    /\ At(w, "idle") /\ Connected(w)
    /\ Acquire(w, "stage_identify", k)
    /\ UNCHANGED <<project, rows, store, lost, deleting, jobs, bounds>>

\* Variant of StageIdentify: update_or_create, which reopens a settled row.
StageIdentifyReopening(w) ==
    LET k == task[w].key IN
    /\ At(w, "stage_identify") /\ Connected(w)
    /\ \/ /\ Exists(k) \/ project
          /\ SetRow(k, "staging")
          /\ Move(w, "stage_claim")
          /\ UNCHANGED holder
       \/ /\ ~Exists(k) /\ ~project
          /\ Release(w)
          /\ UNCHANGED rows
    /\ UNCHANGED <<project, store, lost, deleting, jobs, bounds>>

\* get_or_create, then the branch on what it returned.  A stored row is
\* verified and returned and any other settled one returned untouched, so
\* both only leave.
StageIdentify(w) ==
    LET k == task[w].key IN
    /\ At(w, "stage_identify") /\ Connected(w)
    /\ \/ /\ rows[k] = "absent" /\ project
          /\ SetRow(k, "staging")
          /\ Move(w, "stage_claim")
          /\ UNCHANGED holder
       \/ /\ rows[k] \in Retryable
          /\ Move(w, "stage_claim")
          /\ UNCHANGED <<rows, holder>>
       \/ /\ rows[k] \in Settled \/ (rows[k] = "absent" /\ ~project)
          /\ Release(w)
          /\ UNCHANGED rows
    /\ UNCHANGED <<project, store, lost, deleting, jobs, bounds>>

\* The conditional update that enters the write window.  It finds nothing
\* when the row was deleted, and staging reports the row as vanished.
StageClaim(w) ==
    LET k == task[w].key IN
    /\ At(w, "stage_claim") /\ Connected(w) /\ Unlocked(k)
    /\ \/ /\ rows[k] \in Retryable
          /\ SetRow(k, "staging")
          /\ Move(w, "stage_write")
          /\ UNCHANGED holder
       \/ /\ rows[k] \notin Retryable
          /\ IF Exists(k)
             THEN Move(w, "stage_identify") /\ UNCHANGED holder
             ELSE Release(w)
          /\ UNCHANGED rows
    /\ UNCHANGED <<project, store, lost, deleting, jobs, bounds>>

\* Variant of StageWrite: the first stored file passes for the whole tree.
StageWritePartial(w) ==
    LET d == task[w].key[1] IN
    /\ At(w, "stage_write")
    /\ \/ \E f \in File \ store[d] :
            /\ store' = [store EXCEPT ![d] = @ \cup {f}]
            /\ UNCHANGED task
       \/ /\ store[d] # {}
          /\ Move(w, "stage_settle")
          /\ UNCHANGED store
    /\ UNCHANGED <<project, rows, holder, lost, deleting, jobs, bounds>>

\* write_revision stores one file; one already holding its content is left
\* alone.  The backend is reached without the database, so a worker that
\* lost its connection keeps writing.
StageWrite(w) ==
    LET d == task[w].key[1] IN
    /\ At(w, "stage_write")
    /\ \/ \E f \in File \ store[d] :
            /\ store' = [store EXCEPT ![d] = @ \cup {f}]
            /\ UNCHANGED task
       \/ /\ Complete(d)
          /\ Move(w, "stage_settle")
          /\ UNCHANGED store
    /\ UNCHANGED <<project, rows, holder, lost, deleting, jobs, bounds>>

\* The write raised: only a row still in its window takes the failure.
StageFail(w) ==
    LET k == task[w].key IN
    /\ At(w, "stage_write") /\ Connected(w) /\ Unlocked(k)
    /\ Fault
    /\ rows' = IF rows[k] = "staging"
               THEN [rows EXCEPT ![k] = "storage_failed"] ELSE rows
    /\ Release(w)
    /\ UNCHANGED <<project, store, lost, deleting, jobs, deletes, drops>>

\* The conditional update that settles the write, or the vanished row.
StageSettle(w) ==
    LET k == task[w].key IN
    /\ At(w, "stage_settle") /\ Connected(w) /\ Unlocked(k)
    /\ rows' = IF rows[k] = "staging"
               THEN [rows EXCEPT ![k] = "materialized"] ELSE rows
    /\ Release(w)
    /\ UNCHANGED <<project, store, lost, deleting, jobs, bounds>>

-----------------------------------------------------------------------------
(* refresh_revision_script_files, driven by the script file refresh Job *)

RefreshLock(w, k) ==
    /\ At(w, "idle") /\ Connected(w) /\ project
    /\ \E s \in Selection : rows[<<k[1], s>>] \in Settled
    /\ Acquire(w, "refresh_verify", k)
    /\ UNCHANGED <<project, rows, store, lost, deleting, jobs, bounds>>

\* The source row may have been deleted, or its tree found corrupt.
RefreshVerify(w) ==
    LET d == task[w].key[1] IN
    /\ At(w, "refresh_verify") /\ Connected(w)
    /\ IF Named(d) /\ Complete(d)
       THEN Move(w, "refresh_candidate") /\ UNCHANGED holder
       ELSE Release(w)
    /\ UNCHANGED <<project, rows, store, lost, deleting, jobs, bounds>>

\* The candidate row claims the tree just proven present.
RefreshCandidate(w) ==
    LET k == task[w].key IN
    /\ At(w, "refresh_candidate") /\ Connected(w)
    /\ rows[k] \in Retryable => Unlocked(k)
    /\ rows' = IF rows[k] \in Retryable \/ (rows[k] = "absent" /\ project)
               THEN [rows EXCEPT ![k] = "materialized"] ELSE rows
    /\ Release(w)
    /\ UNCHANGED <<project, store, lost, deleting, jobs, bounds>>

-----------------------------------------------------------------------------
(* promote_revision and deactivate_revision *)

\* The unlocked read that decides nothing final.
PromoteRead(w, k) ==
    /\ At(w, "idle") /\ Connected(w)
    /\ rows[k] \in Activatable \cup {"active"}
    /\ task' = [task EXCEPT ![w] = [pc |-> "promote_wait", key |-> k]]
    /\ UNCHANGED <<project, rows, store, holder, lost, deleting, jobs, bounds>>

PromoteLock(w) ==
    /\ At(w, "promote_wait") /\ Connected(w)
    /\ Acquire(w, "promote_verify", task[w].key)
    /\ UNCHANGED <<project, rows, store, lost, deleting, jobs, bounds>>

PromoteVerify(w) ==
    /\ At(w, "promote_verify") /\ Connected(w)
    /\ IF Complete(task[w].key[1])
       THEN Move(w, "promote_commit") /\ UNCHANGED holder
       ELSE Release(w)
    /\ UNCHANGED <<project, rows, store, lost, deleting, jobs, bounds>>

\* One transaction re-reads the row, retires the previous revision and
\* activates this one, or refuses a row that vanished or moved on.
PromoteCommit(w) ==
    LET k == task[w].key IN
    /\ At(w, "promote_commit") /\ Connected(w) /\ Unlocked(k)
    /\ \A j \in Key : rows[j] = "active" => Unlocked(j)
    /\ rows' = IF rows[k] \in Activatable
               THEN [j \in Key |-> IF j = k THEN "active"
                                   ELSE IF rows[j] = "active" THEN "retired"
                                   ELSE rows[j]]
               ELSE rows
    /\ Release(w)
    /\ UNCHANGED <<project, store, lost, deleting, jobs, bounds>>

\* Nothing is read from storage, one transaction under the lock.
Deactivate(k) ==
    /\ holder = Nobody
    /\ rows[k] = "active" /\ Unlocked(k)
    /\ SetRow(k, "retired")
    /\ UNCHANGED <<project, store, holder, task, lost, deleting, jobs, bounds>>

-----------------------------------------------------------------------------
(* validate_revision: claims and verdicts are conditional updates without   *)
(* the project lock.  ProjectServing models who may make them.              *)

ValidationMoves(k) ==
    /\ Unlocked(k)
    /\ \/ rows[k] = "materialized" /\ SetRow(k, "validating")
       \/ /\ rows[k] = "validating"
          /\ \E st \in {"valid", "invalid", "materialized"} : SetRow(k, st)
    /\ UNCHANGED <<project, store, holder, task, lost, deleting, jobs, bounds>>

-----------------------------------------------------------------------------
(* Deleting rows: the pre_delete and post_delete receivers *)

\* Variant of Owed: a row whose write never completed is taken to owe nothing.
OwedSettled(K) ==
    {k \in K : rows[k] \in Settled /\ \A j \in Key \ K : Exists(j) => j[1] # k[1]}

\* Rows of K whose content no row outside K names.  The receiver sees the
\* committed rows less its own: one another open transaction deletes is
\* still there.
Owed(K) == {k \in K : \A j \in Key \ K : Exists(j) => j[1] # k[1]}

DeleteRows(x, K, cascade) ==
    /\ deleting[x] = NoDelete
    /\ K # {} /\ \A k \in K : Exists(k) /\ Unlocked(k)
    /\ cascade => project /\ \A k \in Key \ K : ~Exists(k)
    /\ deletes < MaxDeletes
    /\ deleting' = [deleting EXCEPT ![x] =
           [keys |-> K, owes |-> Owed(K), cascade |-> cascade]]
    /\ UNCHANGED <<project, rows, store, holder, task, lost, jobs, bounds>>

\* The rows and the cleanup Jobs commit together.  A row created meanwhile
\* holds the project row, and the project's own delete then rolls back.
DeleteCommit(x) ==
    LET tx == deleting[x] IN
    /\ tx.keys # {}
    /\ tx.cascade => \A k \in Key \ tx.keys : ~Exists(k)
    /\ deletes' = deletes + 1
    /\ rows' = [k \in Key |-> IF k \in tx.keys THEN "absent" ELSE rows[k]]
    /\ project' = (project /\ ~tx.cascade)
    /\ pending' = [k \in Key |->
                     IF k \in tx.owes THEN pending[k] + 1 ELSE pending[k]]
    /\ deleting' = [deleting EXCEPT ![x] = NoDelete]
    /\ UNCHANGED <<store, holder, task, lost, stalled, faults, drops>>

DeleteRollback(x) ==
    /\ deleting[x].keys # {}
    /\ deleting' = [deleting EXCEPT ![x] = NoDelete]
    /\ UNCHANGED <<project, rows, store, holder, task, lost, jobs, bounds>>

-----------------------------------------------------------------------------
(* ProjectStorageCleanupJob *)

CleanupLock(w, k) ==
    /\ At(w, "idle") /\ Connected(w)
    /\ pending[k] > 0
    /\ pending' = [pending EXCEPT ![k] = @ - 1]
    /\ Acquire(w, "cleanup_recheck", k)
    /\ UNCHANGED <<project, rows, store, lost, deleting, stalled, bounds>>

\* Variant of CleanupRecheck: the check made when the Job was queued is trusted.
CleanupRecheckTrusting(w) ==
    /\ At(w, "cleanup_recheck") /\ Connected(w)
    /\ Move(w, "cleanup_remove") /\ UNCHANGED holder
    /\ UNCHANGED <<project, rows, store, lost, deleting, jobs, bounds>>

\* Content a row names again is left in place and the Job completes.
CleanupRecheck(w) ==
    /\ At(w, "cleanup_recheck") /\ Connected(w)
    /\ IF Named(task[w].key[1])
       THEN Release(w)
       ELSE Move(w, "cleanup_remove") /\ UNCHANGED holder
    /\ UNCHANGED <<project, rows, store, lost, deleting, jobs, bounds>>

\* Variant of CleanupRemove: keys that would not go are passed over in silence.
CleanupRemoveBestEffort(w) ==
    LET d == task[w].key[1] IN
    /\ At(w, "cleanup_remove")
    /\ \/ \E f \in store[d] :
            /\ store' = [store EXCEPT ![d] = @ \ {f}]
            /\ UNCHANGED <<holder, task>>
       \/ /\ Connected(w) /\ Release(w)
          /\ UNCHANGED store
    /\ UNCHANGED <<project, rows, lost, deleting, jobs, bounds>>

\* delete_revision removes one key after another, a missing one counts as
\* removed.  Like the write it needs no database.
CleanupRemove(w) ==
    LET d == task[w].key[1] IN
    /\ At(w, "cleanup_remove")
    /\ \/ \E f \in store[d] :
            /\ store' = [store EXCEPT ![d] = @ \ {f}]
            /\ UNCHANGED <<holder, task>>
       \/ /\ store[d] = {}
          /\ Connected(w) /\ Release(w)
          /\ UNCHANGED store
    /\ UNCHANGED <<project, rows, lost, deleting, jobs, bounds>>

\* Keys the backend refused to remove fail the Job, which keeps its payload.
CleanupFail(w) ==
    LET k == task[w].key IN
    /\ At(w, "cleanup_remove") /\ Connected(w)
    /\ store[k[1]] # {}
    /\ Fault
    /\ stalled' = [stalled EXCEPT ![k] = @ + 1]
    /\ Release(w)
    /\ UNCHANGED <<project, rows, store, lost, deleting, pending, deletes, drops>>

\* An operator reconstructs a failed cleanup from its payload.
CleanupRequeue(k) ==
    /\ stalled[k] > 0
    /\ stalled' = [stalled EXCEPT ![k] = @ - 1]
    /\ pending' = [pending EXCEPT ![k] = @ + 1]
    /\ UNCHANGED <<project, rows, store, holder, task, lost, deleting, bounds>>

-----------------------------------------------------------------------------
(* Environment *)

\* A pod dies: its session closes, which frees the lock.  The Job of a
\* cleanup that was running stays behind unfinished with its payload.
Crash(w) ==
    LET k == task[w].key IN
    /\ ~At(w, "idle")
    /\ Fault
    /\ stalled' = IF task[w].pc \in {"cleanup_recheck", "cleanup_remove"}
                  THEN [stalled EXCEPT ![k] = @ + 1] ELSE stalled
    /\ lost' = lost \ {w}
    /\ Release(w)
    /\ UNCHANGED <<project, rows, store, deleting, pending, deletes, drops>>

\* The session closes under a process that goes on talking to the backend.
ConnectionDrop(w) ==
    /\ drops < MaxDrops
    /\ holder = w
    /\ drops' = drops + 1
    /\ lost' = lost \cup {w}
    /\ holder' = Nobody
    /\ UNCHANGED <<project, rows, store, task, deleting, jobs, faults, deletes>>

\* Its next statement raises and the operation ends, a cleanup as a Job
\* that never finished.
ConnectionError(w) ==
    LET k == task[w].key IN
    /\ w \in lost
    /\ ~(At(w, "stage_write") \/ (At(w, "cleanup_remove") /\ store[k[1]] # {}))
    /\ stalled' = IF task[w].pc \in {"cleanup_recheck", "cleanup_remove"}
                  THEN [stalled EXCEPT ![k] = @ + 1] ELSE stalled
    /\ lost' = lost \ {w}
    /\ Release(w)
    /\ UNCHANGED <<project, rows, store, deleting, pending, bounds>>

-----------------------------------------------------------------------------
Stage(w) ==
    \/ StageIdentify(w) \/ StageClaim(w) \/ StageWrite(w)
    \/ StageFail(w) \/ StageSettle(w)

Refresh(w) == RefreshVerify(w) \/ RefreshCandidate(w)

Promote(w) == PromoteLock(w) \/ PromoteVerify(w) \/ PromoteCommit(w)

Cleanup(w) == CleanupRecheck(w) \/ CleanupRemove(w) \/ CleanupFail(w)

Start(w) ==
    \E k \in Key : \/ StageLock(w, k) \/ RefreshLock(w, k)
                   \/ PromoteRead(w, k) \/ CleanupLock(w, k)

Deletion(x) ==
    \/ \E K \in SUBSET Key, cascade \in BOOLEAN : DeleteRows(x, K, cascade)
    \/ DeleteCommit(x) \/ DeleteRollback(x)

Next ==
    \/ \E w \in Worker :
          \/ Start(w) \/ Stage(w) \/ Refresh(w) \/ Promote(w) \/ Cleanup(w)
          \/ Crash(w) \/ ConnectionDrop(w) \/ ConnectionError(w)
    \/ \E k \in Key : Deactivate(k) \/ ValidationMoves(k) \/ CleanupRequeue(k)
    \/ \E x \in Deleter : Deletion(x)

Spec == Init /\ [][Next]_vars

\* A worker that holds the lock finishes its operation or dies, one that lost
\* it goes on to the statement that raises, a delete transaction ends, and a
\* waiting cleanup is granted the lock in its turn: PostgreSQL queues the
\* waiters of an advisory lock and the workers take Jobs off one queue.
\* Nothing makes an operator act or a backend fail.
Fairness ==
    /\ \A w \in Worker :
          /\ WF_vars(StageIdentify(w) \/ StageClaim(w) \/ StageWrite(w) \/ StageSettle(w))
          /\ WF_vars(Refresh(w))
          /\ WF_vars(PromoteVerify(w) \/ PromoteCommit(w))
          /\ SF_vars(PromoteLock(w))
          /\ WF_vars(CleanupRecheck(w) \/ CleanupRemove(w))
          /\ SF_vars(\E k \in Key : CleanupLock(w, k))
          /\ WF_vars(ConnectionError(w))
    /\ \A x \in Deleter : WF_vars(DeleteCommit(x) \/ DeleteRollback(x))

FairSpec == Spec /\ Fairness

-----------------------------------------------------------------------------
(* Properties *)

\* A row that left its write window names a tree the backend holds whole, in
\* spite of crashes, of rows deleted at any moment and of late cleanups.
\* Activation, validation and refresh all build on this
\* (storage/service.py, storage/store.py).
SettledContentComplete ==
    \A k \in Key : rows[k] \in Settled => store[k[1]] = File

\* Content in the backend is named by a row or owed by an unfinished cleanup
\* Job or is being removed by one, so no tree is stranded where neither the
\* database nor the sweep can find it (signals.py, ProjectStorageCleanupJob).
ContentAccountedFor ==
    \A d \in Digest : store[d] # {} =>
        \E s \in Selection :
            \/ rows[<<d, s>>] # "absent"
            \/ pending[<<d, s>>] + stalled[<<d, s>>] > 0
            \/ \E w \in Worker :
                  /\ task[w].pc \in {"cleanup_recheck", "cleanup_remove"}
                  /\ task[w].key = <<d, s>>

\* A cleanup removes a file only while no row names its tree, although rows
\* come and go between the delete that queued the Job and its run.
CleanupSparesNamed ==
    [][\A d \in Digest :
          ~(store[d] \subseteq store'[d])
             => \A s \in Selection : rows[<<d, s>>] = "absent"]_vars

\* A queued cleanup ends with its tree gone, named again, or the Job failed
\* with its payload kept, however busy the project is.
CleanupSettles ==
    \A d \in Digest :
        (\E s \in Selection : pending[<<d, s>>] > 0)
          ~> \/ store[d] = {}
             \/ \E s \in Selection : rows[<<d, s>>] # "absent"
             \/ \E s \in Selection : stalled[<<d, s>>] > 0

Lifecycle == INSTANCE RevisionLifecycle WITH Revision <- Key, status <- rows

\* Whatever stager, failed write, retry or promotion acts late on what it
\* read, and whoever lost the lock, each row follows the lifecycle: no settled
\* row is pulled back into its write window, a verdict is never skipped or
\* revoked, and no two rows are in force (storage/service.py).
FollowsLifecycle == Lifecycle!Spec
=============================================================================
