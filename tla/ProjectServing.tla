---------------------------- MODULE ProjectServing ----------------------------
(***************************************************************************)
(* How one Script Project comes to serve a revision: a source is staged    *)
(* and accepted, a validation Job judges it under a lease, and a promotion *)
(* moves the active pointer and the published Scripts.                     *)
(*                                                                         *)
(* Operators (requests, reconciliation and refresh Jobs) and validation    *)
(* Jobs run concurrently.  Staging, promotion and deactivation hold the    *)
(* project lock; declaration and policy edits take the same key for their  *)
(* transaction; validation takes none and relies on conditional updates.   *)
(* What the backend holds is StoredContent's concern: here a storage step  *)
(* either works or fails.                                                  *)
(***************************************************************************)
EXTENDS Naturals, RevisionStatus

CONSTANTS
    Digest,       \* source trees
    Selection,    \* sets of enabled Script File declarations
    Undeclared,   \* the selection that enables nothing, when it is one of them
    Script,       \* Script identities, module path and class
    Publishes,    \* what discovery finds in each revision
    Job,          \* validation Jobs, each used once
    Operator,     \* everything else that acts on the project
    NoRev, NoJob, Nobody,
    MaxRequests,  \* bound: staging requests
    MaxEdits,     \* bound: selection and policy edits
    MaxFaults,    \* bound: failures and crashes
    MaxDeletes    \* bound: revision rows deleted

Rev == Digest \X Selection
Process == Job \cup Operator

ASSUME ProjectServingConstants ==
    /\ Publishes \in [Rev -> SUBSET Script]
    /\ \A r \in Rev : r[2] = Undeclared => Publishes[r] = {}
    /\ Job \cap Operator = {}
    /\ NoRev \notin Rev /\ NoJob \notin Job /\ Nobody \notin Process
    /\ MaxRequests \in Nat /\ MaxEdits \in Nat
    /\ MaxFaults \in Nat /\ MaxDeletes \in Nat

VARIABLES
    rows,       \* revision status, or "absent"
    owner,      \* validation_job of a revision
    lapsed,     \* whether its validation_started is beyond the lease
    active,     \* active_revision
    source,     \* source_revision, the accepted source
    requested,  \* source_activation_pending
    asked,      \* history: whom somebody asked for and nothing answered yet
    policy,     \* activation_policy
    selection,  \* the declarations enabled now
    refreshDue, \* a script file refresh Job is queued
    live,       \* published Scripts that are not retired
    seen,       \* last_seen_revision of each Script
    holder,     \* who holds the project lock
    task,       \* what each process is doing
    requests, edits, faults, deletes

revisions == <<rows, owner, lapsed>>
pointer   == <<active, live, seen>>
intent    == <<source, requested, asked>>
settings  == <<policy, selection, refreshDue>>
bounds    == <<requests, edits, faults, deletes>>
vars == <<revisions, pointer, intent, settings, holder, task, bounds>>

Pc == {"idle", "queued", "claim", "import", "ended",
       "stage_write", "accept", "enqueue",
       "promote_read", "promote_lock", "promote_commit"}

\* st and stale are what the process read of the revision's status and
\* lease before acting on it; mode is how it was asked to act.
Task == [pc : Pc, rev : Rev \cup {NoRev}, st : RowState, stale : BOOLEAN,
         mode : {"plain", "once", "repair"}]

Rest(pc) == [pc |-> pc, rev |-> NoRev, st |-> "absent", stale |-> FALSE,
             mode |-> "plain"]

TypeOK ==
    /\ rows \in [Rev -> RowState]
    /\ owner \in [Rev -> Job \cup {NoJob}]
    /\ lapsed \in [Rev -> BOOLEAN]
    /\ active \in Rev \cup {NoRev}
    /\ source \in Rev \cup {NoRev}
    /\ requested \in BOOLEAN
    /\ asked \subseteq Rev
    /\ policy \in {"manual", "automatic_if_valid"}
    /\ selection \in Selection
    /\ refreshDue \in BOOLEAN
    /\ live \subseteq Script
    /\ seen \in [Script -> Rev \cup {NoRev}]
    /\ holder \in Process \cup {Nobody}
    /\ task \in [Process -> Task]
    /\ requests \in Nat /\ edits \in Nat /\ faults \in Nat /\ deletes \in Nat

-----------------------------------------------------------------------------
(* Helpers *)

At(p, pc) == task[p].pc = pc

Goto(p, pc) == task' = [task EXCEPT ![p].pc = pc]

\* An operation is over: an operator may start another, a Job never runs
\* again.
Done(p) == Rest(IF p \in Job THEN "ended" ELSE "idle")

\* Leave the lock's block, whether by returning or by raising.
Release(p) ==
    /\ holder' = IF holder = p THEN Nobody ELSE holder
    /\ task' = [task EXCEPT ![p] = Done(p)]

Stop(p) == task' = [task EXCEPT ![p] = Done(p)] /\ UNCHANGED holder

SetRow(r, st) == rows' = [rows EXCEPT ![r] = st]

Fault == faults < MaxFaults /\ faults' = faults + 1

FaultOnly == Fault /\ UNCHANGED <<requests, edits, deletes>>

JobFree == \E j \in Job : At(j, "idle")

\* The verdicts an import of the snapshot can reach: an empty snapshot is
\* vacuously valid, declarations that publish nothing between them are not.
Verdicts(r) ==
    IF r[2] = Undeclared THEN {"valid"}
    ELSE IF Publishes[r] = {} THEN {"invalid"}
    ELSE {"valid", "invalid"}

-----------------------------------------------------------------------------
Init ==
    /\ rows = [r \in Rev |-> "absent"]
    /\ owner = [r \in Rev |-> NoJob]
    /\ lapsed = [r \in Rev |-> FALSE]
    /\ active = NoRev /\ source = NoRev /\ requested = FALSE /\ asked = {}
    /\ policy \in {"manual", "automatic_if_valid"}
    /\ selection \in Selection
    /\ refreshDue = FALSE
    /\ live = {} /\ seen = [x \in Script |-> NoRev]
    /\ holder = Nobody
    /\ task = [p \in Process |-> Rest("idle")]
    /\ requests = 0 /\ edits = 0 /\ faults = 0 /\ deletes = 0

-----------------------------------------------------------------------------
(* stage_revision and the processing it queues *)

\* What the process holds of the revision it staged, on its way to accept.
Staged(p, r, st, mode, pc) ==
    task' = [task EXCEPT ![p] =
        [pc |-> pc, rev |-> r, st |-> st, stale |-> lapsed[r], mode |-> mode]]

\* The selection is frozen into the revision under the lock.  A settled row
\* is returned as its owner left it, once a stored tree verified.
StageIdentify(o, d, mode) ==
    LET r == <<d, selection>> IN
    /\ At(o, "idle") /\ holder = Nobody /\ JobFree
    /\ requests < MaxRequests
    /\ mode \in {"plain", "once"}
    /\ requests' = requests + 1
    /\ holder' = o
    /\ \/ /\ rows[r] \in Retryable \cup {"absent"}
          /\ SetRow(r, "staging")
          /\ Staged(o, r, "staging", mode, "stage_write")
       \/ /\ rows[r] \in Settled
          /\ Staged(o, r, rows[r], mode, "accept")
          /\ UNCHANGED rows
    /\ UNCHANGED <<owner, lapsed, pointer, intent, settings, edits, faults, deletes>>

StageSettle(o) ==
    LET t == task[o] IN
    /\ At(o, "stage_write")
    /\ \/ /\ t.rev # NoRev /\ rows[t.rev] = "staging"
          /\ SetRow(t.rev, "materialized")
          /\ Staged(o, t.rev, "materialized", t.mode, "accept")
          /\ UNCHANGED holder
       \/ /\ t.rev = NoRev
          /\ Release(o)
          /\ UNCHANGED rows
    /\ UNCHANGED <<owner, lapsed, pointer, intent, settings, bounds>>

StageFail(o) ==
    LET t == task[o] IN
    /\ At(o, "stage_write")
    /\ FaultOnly
    /\ \/ t.rev # NoRev /\ SetRow(t.rev, "storage_failed")
       \/ t.rev = NoRev /\ UNCHANGED rows
    /\ Release(o)
    /\ UNCHANGED <<owner, lapsed, pointer, intent, settings>>

\* The history of requests, which no step reads: r is asked for from its
\* acceptance with a request to activate until another source is accepted or
\* r is put in force, leaves it or is deleted.
AskedOn(r, mode) == (asked \cap {r}) \cup (IF mode = "once" THEN {r} ELSE {})

\* Variant of StillRequested: the source already served stays requested.
StillRequestedServed(r, st, mode) == mode = "once" \/ (source = r /\ requested)

\* Variant of StillRequested: a request passes on to another source.
StillRequestedOther(r, st, mode) == (mode = "once" \/ requested) /\ st # "active"

\* Whether accepting revision r leaves a one-off activation request behind.
StillRequested(r, st, mode) ==
    /\ mode = "once" \/ (source = r /\ requested)
    /\ st # "active"

\* _accept_source, on the status read when the row was staged.  A row
\* deleted since fails the foreign key.
Accept(o) ==
    LET t == task[o] IN
    /\ At(o, "accept")
    /\ \/ /\ t.rev # NoRev
          /\ source' = t.rev
          /\ requested' = StillRequested(t.rev, t.st, t.mode)
          /\ asked' = AskedOn(t.rev, t.mode)
          /\ Goto(o, "enqueue")
          /\ UNCHANGED holder
       \/ /\ t.rev = NoRev
          /\ Release(o)
          /\ UNCHANGED intent
    /\ UNCHANGED <<revisions, pointer, settings, bounds>>

\* Variant of Owed: a revision that holds a verdict is owed nothing.
OwedUnjudged(t) ==
    /\ t.rev # NoRev
    /\ \/ t.st = "materialized"
       \/ t.st = "validating" /\ (t.stale \/ lapsed[t.rev])

\* Whether queue_revision_processing owes the staged revision a Job.
Owed(t) ==
    /\ t.rev # NoRev
    /\ \/ t.st = "materialized"
       \/ t.st = "validating" /\ (t.stale \/ lapsed[t.rev])
       \/ t.st \in Activatable /\ (requested \/ policy = "automatic_if_valid")

\* A separate statement, so a process may die between accept and enqueue.
Enqueue(o) ==
    LET t == task[o] IN
    /\ At(o, "enqueue")
    /\ holder' = IF holder = o THEN Nobody ELSE holder
    /\ \/ /\ Owed(t)
          /\ \E j \in Job :
                /\ At(j, "idle")
                /\ task' = [task EXCEPT ![o] = Done(o),
                              ![j] = [Rest("queued") EXCEPT !.rev = t.rev]]
       \/ /\ ~Owed(t)
          /\ task' = [task EXCEPT ![o] = Done(o)]
    /\ UNCHANGED <<revisions, pointer, intent, settings, bounds>>

-----------------------------------------------------------------------------
(* Script file refresh *)

\* latest_stored_revision: the accepted source, or for want of one any
\* settled row (the newest; creation order is not modelled).
LatestStored ==
    IF source # NoRev /\ rows[source] \in Settled
    THEN {source} ELSE {r \in Rev : rows[r] \in Settled}

Refresh(o) ==
    /\ At(o, "idle") /\ holder = Nobody /\ JobFree
    /\ refreshDue
    /\ refreshDue' = FALSE
    /\ \/ /\ LatestStored = {}
          /\ UNCHANGED <<rows, holder, task>>
       \/ \E base \in LatestStored :
            LET r == <<base[1], selection>> IN
            /\ holder' = o
            /\ \/ /\ rows[r] \in Retryable \cup {"absent"}
                  /\ SetRow(r, "materialized")
                  /\ Staged(o, r, "materialized", "plain", "accept")
               \/ /\ rows[r] \in Settled
                  /\ Staged(o, r, rows[r], "plain", "accept")
                  /\ UNCHANGED rows
    /\ UNCHANGED <<owner, lapsed, pointer, intent, policy, selection, bounds>>

\* The stored tree did not verify, or the backend was unreachable.
RefreshFail ==
    /\ holder = Nobody /\ refreshDue /\ LatestStored # {}
    /\ FaultOnly
    /\ refreshDue' = FALSE
    /\ UNCHANGED <<revisions, pointer, intent, policy, selection, holder, task>>

-----------------------------------------------------------------------------
(* Edits, each one transaction under project_write_lock *)

Edit == holder = Nobody /\ edits < MaxEdits /\ edits' = edits + 1

\* Saving the Script Files tab queues a refresh; declaring the path of an
\* upload does not, its own staging follows.
EditSelection(s) ==
    /\ Edit /\ s # selection
    /\ selection' = s
    /\ refreshDue' \in {TRUE, refreshDue}
    /\ UNCHANGED <<revisions, pointer, intent, policy, holder, task,
                   requests, faults, deletes>>

EditPolicy(q) ==
    /\ Edit /\ q # policy
    /\ policy' = q
    /\ UNCHANGED <<revisions, pointer, intent, selection, refreshDue, holder,
                   task, requests, faults, deletes>>

-----------------------------------------------------------------------------
(* RevisionValidationJob and validate_revision *)

\* The unlocked read that chooses between validating and only activating.
JobStart(j) ==
    LET r == task[j].rev IN
    /\ At(j, "queued")
    /\ \/ r = NoRev /\ Stop(j)
       \/ /\ r # NoRev
          /\ Goto(j, IF rows[r] \in Activatable \cup {"active"}
                     THEN "promote_read" ELSE "claim")
          /\ UNCHANGED holder
    /\ UNCHANGED <<revisions, pointer, intent, settings, bounds>>

Claimable(r) ==
    /\ r # NoRev
    /\ \/ rows[r] = "materialized"
       \/ rows[r] = "validating" /\ lapsed[r]

JobClaim(j) ==
    LET r == task[j].rev IN
    /\ At(j, "claim")
    /\ \/ /\ Claimable(r)
          /\ SetRow(r, "validating")
          /\ owner' = [owner EXCEPT ![r] = j]
          /\ lapsed' = [lapsed EXCEPT ![r] = FALSE]
          /\ Goto(j, "import")
       \/ /\ ~Claimable(r)
          /\ task' = [task EXCEPT ![j] = Done(j)]
          /\ UNCHANGED revisions
    /\ UNCHANGED <<holder, pointer, intent, settings, bounds>>

\* Variants of Owns: a conditional update on the key alone, and one that does
\* not name the owner.
OwnsByKey(j, r) == r \in Rev /\ j \in Job

OwnsByStatus(j, r) == rows[r] = "validating" /\ owner[r] # NoJob

\* The fence every transition out of validating goes through.
Owns(j, r) == rows[r] = "validating" /\ owner[r] = j

\* _finalize, then the refreshed status decides: an invalid revision ends
\* the Job, any other goes on to activation, even one this run lost.
JobVerdict(j) ==
    LET r == task[j].rev IN
    /\ At(j, "import") /\ r # NoRev
    /\ \/ Owns(j, r) /\ \E st \in Verdicts(r) : SetRow(r, st)
       \/ ~Owns(j, r) /\ UNCHANGED rows
    /\ lapsed' = IF Owns(j, r) THEN [lapsed EXCEPT ![r] = FALSE] ELSE lapsed
    /\ IF rows'[r] = "invalid" THEN task' = [task EXCEPT ![j] = Done(j)]
                               ELSE Goto(j, "promote_read")
    /\ UNCHANGED <<owner, holder, pointer, intent, settings, bounds>>

\* The row vanished while the run imported it.
JobVanished(j) ==
    /\ At(j, "import") /\ task[j].rev = NoRev
    /\ Stop(j)
    /\ UNCHANGED <<revisions, pointer, intent, settings, bounds>>

\* Environment trouble or the Job timeout gives the claim back.
JobRevert(j) ==
    LET r == task[j].rev IN
    /\ At(j, "import") /\ r # NoRev
    /\ FaultOnly
    /\ IF Owns(j, r)
       THEN /\ SetRow(r, "materialized")
            /\ owner' = [owner EXCEPT ![r] = NoJob]
            /\ lapsed' = [lapsed EXCEPT ![r] = FALSE]
       ELSE UNCHANGED revisions
    /\ Stop(j)
    /\ UNCHANGED <<pointer, intent, settings>>

\* Time passes the lease horizon, whether or not the owner still runs.
LeaseExpires(r) ==
    /\ rows[r] = "validating" /\ ~lapsed[r]
    /\ lapsed' = [lapsed EXCEPT ![r] = TRUE]
    /\ UNCHANGED <<rows, owner, pointer, intent, settings, holder, task, bounds>>

-----------------------------------------------------------------------------
(* activate_revision and deactivate_revision *)

AskActivate(o, r) ==
    /\ At(o, "idle") /\ rows[r] \in Activatable
    /\ task' = [task EXCEPT ![o] = [Rest("promote_read") EXCEPT !.rev = r]]
    /\ UNCHANGED <<revisions, pointer, intent, settings, holder, bounds>>

AskRepair(o) ==
    /\ At(o, "idle") /\ active # NoRev
    /\ task' = [task EXCEPT ![o] =
         [Rest("promote_read") EXCEPT !.rev = active, !.mode = "repair"]]
    /\ UNCHANGED <<revisions, pointer, intent, settings, holder, bounds>>

AlreadyActive(r) == rows[r] = "active" /\ active = r

\* Variant of MayPromote: a validation under way passes for a verdict.
MayPromoteUnjudged(r) == rows[r] \in Activatable \cup {"validating"} \/ AlreadyActive(r)

MayPromote(r) == rows[r] \in Activatable \/ AlreadyActive(r)

\* The unlocked reads: they refuse early and decide nothing final.
PromoteRead(p) ==
    LET r == task[p].rev IN
    /\ At(p, "promote_read")
    /\ IF r # NoRev /\ MayPromote(r)
       THEN Goto(p, "promote_lock") /\ UNCHANGED holder
       ELSE Stop(p)
    /\ UNCHANGED <<revisions, pointer, intent, settings, bounds>>

\* Take the lock and verify the stored tree, before any row is locked.
PromoteVerify(p) ==
    /\ At(p, "promote_lock") /\ holder = Nobody
    /\ holder' = p
    /\ Goto(p, "promote_commit")
    /\ UNCHANGED <<revisions, pointer, intent, settings, bounds>>

PromoteCorrupt(p) ==
    /\ At(p, "promote_lock") /\ holder = Nobody
    /\ FaultOnly
    /\ Stop(p)
    /\ UNCHANGED <<revisions, pointer, intent, settings>>

\* What a validation Job must still find true under the row locks.
AutomaticStands(r) ==
    /\ source = r
    /\ requested \/ policy = "automatic_if_valid"
    /\ selection = r[2]

\* The locked row is checked again, and against what the caller asked for.
Promotable(p, r) ==
    /\ r # NoRev
    /\ p \in Job => AutomaticStands(r)
    /\ MayPromote(r)
    /\ task[p].mode = "repair" => active = r

\* Variant of SynchronizeScripts: Scripts the snapshot no longer names stay.
SynchronizeAdding(r, records) ==
    /\ live' = live \cup records
    /\ seen' = [x \in Script |-> IF x \in records THEN r ELSE seen[x]]

\* Publish the records of r and retire every other Script, which keeps
\* naming the last revision that published it.
SynchronizeScripts(r, records) ==
    /\ live' = records
    /\ seen' = [x \in Script |-> IF x \in records THEN r ELSE seen[x]]

\* Variant of Promoted: the revision served before is not retired.
PromotedBeside(r) == [rows EXCEPT ![r] = "active"]

Promoted(r) ==
    [q \in Rev |-> IF q = r THEN "active"
                   ELSE IF q = active THEN "retired" ELSE rows[q]]

\* One transaction: the Scripts, the request, both statuses, the pointer.
PromoteCommit(p) ==
    LET r == task[p].rev IN
    /\ At(p, "promote_commit") /\ Promotable(p, r)
    /\ SynchronizeScripts(r, Publishes[r])
    /\ requested' = (requested /\ source # r)
    /\ asked' = asked \ {active, r}
    /\ rows' = Promoted(r)
    /\ active' = r
    /\ Release(p)
    /\ UNCHANGED <<owner, lapsed, source, settings, bounds>>

PromoteRefuse(p) ==
    /\ At(p, "promote_commit") /\ ~Promotable(p, task[p].rev)
    /\ Release(p)
    /\ UNCHANGED <<revisions, pointer, intent, settings, bounds>>

\* An empty snapshot retires every Script.  The request and the policy stand.
Deactivate ==
    /\ holder = Nobody /\ active # NoRev
    /\ SynchronizeScripts(active, {})
    /\ SetRow(active, "retired")
    /\ active' = NoRev
    /\ asked' = asked \ {active}
    /\ UNCHANGED <<owner, lapsed, source, requested, settings, holder, task, bounds>>

-----------------------------------------------------------------------------
(* Environment *)

\* A row deleted through the ORM takes every reference with it, the pointers
\* by SET_NULL.  It holds no project lock and leaves the Script rows be.
DeleteRevision(r) ==
    /\ rows[r] # "absent" /\ deletes < MaxDeletes
    /\ deletes' = deletes + 1
    /\ SetRow(r, "absent")
    /\ owner' = [owner EXCEPT ![r] = NoJob]
    /\ lapsed' = [lapsed EXCEPT ![r] = FALSE]
    /\ active' = IF active = r THEN NoRev ELSE active
    /\ source' = IF source = r THEN NoRev ELSE source
    /\ asked' = asked \ {r}
    /\ seen' = [x \in Script |-> IF seen[x] = r THEN NoRev ELSE seen[x]]
    /\ task' = [p \in Process |->
                  IF task[p].rev = r THEN [task[p] EXCEPT !.rev = NoRev]
                  ELSE task[p]]
    /\ UNCHANGED <<live, requested, settings, holder, requests, edits, faults>>

\* A process dies; its session closes and frees the lock.
Crash(p) ==
    /\ task[p].pc \notin {"idle", "queued", "ended"}
    /\ FaultOnly
    /\ Release(p)
    /\ UNCHANGED <<revisions, pointer, intent, settings>>

-----------------------------------------------------------------------------
Stage(o) ==
    \/ \E d \in Digest, mode \in {"plain", "once"} : StageIdentify(o, d, mode)
    \/ StageSettle(o) \/ StageFail(o) \/ Accept(o) \/ Enqueue(o)

Validate(j) ==
    JobStart(j) \/ JobClaim(j) \/ JobVerdict(j) \/ JobVanished(j) \/ JobRevert(j)

Promote(p) ==
    \/ PromoteRead(p) \/ PromoteVerify(p) \/ PromoteCorrupt(p)
    \/ PromoteCommit(p) \/ PromoteRefuse(p)

Next ==
    \/ \E o \in Operator : \/ Stage(o) \/ Refresh(o) \/ AskRepair(o)
                           \/ \E r \in Rev : AskActivate(o, r)
    \/ \E j \in Job : Validate(j)
    \/ \E p \in Process : Promote(p) \/ Crash(p)
    \/ \E s \in Selection : EditSelection(s)
    \/ \E q \in {"manual", "automatic_if_valid"} : EditPolicy(q)
    \/ \E r \in Rev : LeaseExpires(r) \/ DeleteRevision(r)
    \/ RefreshFail \/ Deactivate

Spec == Init /\ [][Next]_vars

\* Operations and Jobs that hold the lock or wait for it finish: PostgreSQL
\* queues the waiters of an advisory lock and workers drain the queue of
\* Jobs.  Nothing makes an operator act, a lease lapse or a step fail.
Fairness ==
    /\ \A o \in Operator :
          WF_vars(StageSettle(o) \/ Accept(o) \/ Enqueue(o))
    /\ \A j \in Job :
          WF_vars(JobStart(j) \/ JobClaim(j) \/ JobVerdict(j) \/ JobVanished(j))
    /\ \A p \in Process :
          /\ WF_vars(PromoteRead(p) \/ PromoteCommit(p) \/ PromoteRefuse(p))
          /\ SF_vars(PromoteVerify(p))

FairSpec == Spec /\ Fairness

-----------------------------------------------------------------------------
(* Properties *)

\* The project's pointer and the revision statuses tell one story: the
\* revision pointed at, and no other, is active, across promotions,
\* deactivations and deletions (service._promote, deactivate_revision).
PointerAgreesWithStatus ==
    \A r \in Rev : (active = r) <=> (rows[r] = "active")

\* The published Scripts are those of the revision in force and are stamped
\* with it.  After its row was deleted they are stamped with none, which is
\* what refuses to run them (activation.synchronize_scripts).
PublishedMatchesServing ==
    /\ active # NoRev => live = Publishes[active]
    /\ \A x \in live : seen[x] = active

\* A one-off activation request never stands on the source already served,
\* where nothing would ever clear it: it would stay armed until a validation
\* queued long after the project was stood down (service._accept_source).
NoRequestOnServed ==
    requested /\ source # NoRev => active # source

\* A claim ends by a step of the Job that owns it, never by one whose lease
\* another run took over (validation.validate_revision).
OnlyOwnerSettles ==
    [][\A r \in Rev :
          rows[r] = "validating" /\ rows'[r] \notin {"validating", "absent"}
             => \E j \in Job : owner[r] = j /\ task'[j] # task[j]]_vars

\* Under the manual policy a validation Job puts in force only a revision
\* somebody asked to activate since it was last in force and with no other
\* source accepted since.  The project keeps one bit for this: neither another
\* source, nor a project stood down, nor a request already served may find it
\* armed, however late the Job comes (service._accept_source, _promote).
ManualServesAsked ==
    [][\A j \in Job :
          active' \notin {active, NoRev} /\ task'[j] # task[j] /\ policy = "manual"
             => active' \in asked]_vars

\* When nothing fails, an upload's request to activate once comes to its end:
\* its source is served, found invalid or superseded, or the declarations
\* moved on (ingestion.ingest_upload, jobs._activate_if_requested).
RequestSettles ==
    \A r \in Rev :
        (requested /\ source = r)
          ~> \/ ~requested \/ source # r
             \/ rows[r] = "invalid" \/ selection # r[2]
             \/ faults > 0

Lifecycle == INSTANCE RevisionLifecycle WITH Revision <- Rev, status <- rows

\* Whatever Job comes late, its lease taken over by another, each revision
\* follows the lifecycle: a verdict is final, no activation passes one by,
\* and staging takes nothing from validation (validation._finalize,
\* _revert_to_materialized, service._promote).
FollowsLifecycle == Lifecycle!Spec

Contract == INSTANCE ServingContract WITH
    Revision   <- Rev,
    NoRevision <- NoRev,
    approved   <- {r \in Rev : rows[r] \in {"valid", "active", "retired"}},
    serving    <- active,
    published  <- live

\* With its locks, leases and late Jobs the project still keeps the promise
\* of ServingContract: only approved revisions are served, and the published
\* Scripts change with the pointer.
ImplementsContract == Contract!Spec
=============================================================================
