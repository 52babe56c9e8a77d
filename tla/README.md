# A formal model of netbox-scripts

TLA+ modules that model the core of this NetBox plugin, the TLC configurations
that check them on small instances, and TLAPS proofs for every instance. Paths
below are relative to `src/netbox_scripts/` unless they start with `docs/`.

## The system

A *Script Project* owns *revisions*: immutable source trees, addressed by
digest, each frozen together with the selection of Script Files that was enabled
when it was staged. A revision's tree is stored in a file backend, validated by
importing it in a worker, and activated, which publishes its Scripts. Scripts are
then run by Jobs against the revision that was in force when they were queued.

| Component | State | Operations | Correct when |
| --- | --- | --- | --- |
| Stored content lifecycle (`storage/service.py`, `storage/store.py`, `storage/locks.py`) | revision rows with a status, files in the backend, a session advisory lock per project | `stage_revision`, `refresh_revision_script_files`, `promote_revision` | a row that left its write window names a whole tree, and late writers change nothing |
| Deletion and cleanup (`signals.py`, `jobs.py`) | cleanup Jobs and their payload | the delete receivers, `ProjectStorageCleanupJob`, the daily sweep | trees are removed only while unnamed, and never stranded |
| Ingestion (`ingestion.py`, `models/projects.py`, the forms and serializers that call them) | accepted source, one-off activation request, policy, gated fields, declarations | upload, data source reconciliation, script file refresh, edits | the latest accepted source wins, no upload or edit undoes another, its processing is queued |
| Validation (`validation.py`, `jobs.py`) | owner and lease of a claim, verdict, discovered Scripts | `RevisionValidationJob`, `validate_revision` | one verdict, by the owner, for good |
| Activation (`activation.py`) | active pointer, Script rows | `activate_revision`, `deactivate_revision`, repair | pointer, statuses and Scripts change together, only validated code is served |
| Script runs (`jobs.py`, `runtime/resolution.py`, `event_rules.py`, the command) | the Job rows with their pin and record, schedules and the policy asked of them | enqueue, run, next occurrence | a run executes what was pinned and says so, or refuses; a schedule neither stops nor doubles |
| Script execution (`execution.py`, `branching.py`) | request processors entered, active branch, transactions, event queue | `run_script`, `_execute` | changes are kept or reverted whole, and events tell of kept ones only |
| Runtime cache and loader (`runtime/`) | the slot, staging directories and file lock of a revision, imported modules, sessions | `materialize_revision`, `import_script_file`, `unload_revision` | code is imported from a verified, protected tree, a good tree is not thrown away, modules live as long as their session |
| Migration (`migration/`, `models/migration.py`) | the migration run and its journal; built-in Scripts, Jobs, Event Rules and permissions | stage, `enter_cutover`, `activate_staged`, the four reference passes, `retire_legacy`, verification | resumable, nothing lost or run on both sides, nothing deleted that is still needed |
| Pure algorithms (`storage/manifest.py`, `storage/paths.py`, `storage/script_files.py`, `validators.py`, `utils.py`) | none | manifests, path policy, snapshots, overlap | agree with their definition |
| Around it | | permissions, REST, GraphQL, views, forms, compatibility, management command | presentation, or a second caller of the above |

How they interact: web and API requests and background Jobs call the same
services. The *project lock* serialises staging, refresh, promotion,
deactivation and cleanup; edits of declarations and of the project take the same
key for the length of their transaction. Validation takes no project lock: it
claims the row with a conditional update, under a lease, and fences every later
write with its own Job. Deleting a row takes no project lock either: its
receivers record a cleanup Job in the deleting transaction, and the Job checks
again under the lock. The database and the file backend share no transaction.

What is hard here, and what the properties are aimed at:

- an interleaving between a check and the step it authorises (refresh, cleanup, promotion);
- two validations of one revision, after a lease ran out under a Job that still runs;
- a Job that activates on what was true when it was queued;
- crashes and failures in the middle of a write, of a removal, between acceptance and queueing;
- rows deleted under any of these; a session lock lost under a process that lives on;
- a run that waits while its Script, its project or the revision in force change under it;
- a schedule whose occurrences fail, or whose Script cannot run for a while;
- a processor, a commit or a release of Branching that fails around a script;
- an upload checked before another was stored; a form saved from a row that has since changed;
- a directory that a synchronization rewrites under the Job that reads it;
- builders of one cache slot that die between a rename and the protection of what they renamed;
- a migration pass that dies between two of its commits, with workers starting the very
  Jobs it cancels, and what is queued or written between its look and its deletion;
- liveness of cleanups, requests, synchronizations, sessions and the cutover when everybody
  contends for one lock.

`PROJECT.json` lists each hazard at its line, with the properties that cover it.

## Modules

| Module | Models |
| --- | --- |
| `RevisionStatus` | the statuses of `choices.py` and the groupings of `constants.py`; "absent" stands for no row |
| `RevisionLifecycle` | the abstract lifecycle of a project's revisions that `StoredContent` and `ProjectServing` both implement |
| `StoredContent` | one project's rows and stored files; workers, deleters, cleanup Jobs, crashes, lost sessions |
| `StoredContentProofs` | the proofs about it |
| `ProjectServing` | one project's road from a staged source to published Scripts; operators and validation Jobs |
| `ProjectServingProofs` | the proofs about it, and that it implements `ServingContract` |
| `ServingContract` | the abstract promise: serve at most one revision, an approved one, and publish what it publishes |
| `ScriptRun` | one project's runs from the request to the recorded result, and schedules; the project is its `ServingContract` |
| `ScriptRunProofs` | the proofs about it |
| `ScriptExecution` | what surrounds one call of a script |
| `ScriptExecutionProofs` | the proofs about it |
| `SourceIntake` | how source and declarations reach one project, and who may edit it |
| `SourceIntakeProofs` | the proofs about it |
| `RuntimeCache` | one revision's slot in a shared cache, and the sessions that import from it |
| `RuntimeCacheProofs` | the proofs about it |
| `MigrationState` | what a migration reads and writes, and the run with its journal |
| `MigrationJobs` | what goes on beside a pass: workers, submissions, people |
| `MigrationCutover` | staging, the fence and activation |
| `MigrationReferences` | the four reference passes |
| `Migration` | the cleanup, the verification report, the specification and its properties |
| `MigrationProofs`, `MigrationRecordProofs` | the proofs about schedules and the report, and about restoration and the cleanup |
| `MCStoredContent`, `MCProjectServing`, `MCScriptRun`, `MCScriptExecution`, `MCSourceIntake`, `MCRuntimeCache`, `MCMigration` | instances for TLC |

The definitions named "Variant of ..." next to a definition are faulty forms of
it. Each one breaks a property of a run, which is how we know the property can
fail; nothing else uses them.

### RevisionLifecycle

The statuses of a project's revisions and nothing else: a table of single moves (`Stored`,
`Judged`, as the model's reference documentation tabulates them), activation, which retires what
was in force in the same step, deactivation and deletion. `StoredContent` and `ProjectServing` cut the code in
two, and each lets the other's half move statuses: `ValidationMoves` there, storage that works or
fails here. That both implement one lifecycle (`FollowsLifecycle`) is what makes the two halves fit.

### StoredContent

`rows` maps an identity (digest and selection, the unique constraint of the
revision model) to a status; `store` the files each tree has in the backend;
`holder` is the project lock; `task` what each worker does, one control state
per database statement or stored file of the operation. Content is abstracted
to a set of paths: a file is there with its right content or it is not.

- Staging: `StageLock`, `StageIdentify` (get_or_create and the branch on the
  status), `StageClaim` (the conditional update that enters the write window),
  `StageWrite` (one file), `StageFail`, `StageSettle`. A vanished row ends the call.
- Refresh: `RefreshLock`, `RefreshVerify`, `RefreshCandidate`.
- Activation, as far as content is concerned: `PromoteRead` (unlocked),
  `PromoteLock`, `PromoteVerify`, `PromoteCommit`, `Deactivate`.
- Validation only moves a row (`ValidationMoves`).
- Deletion is a transaction of two steps: `DeleteRows`, whose receivers read the
  committed rows and decide what is owed (`Owed`), and `DeleteCommit` or
  `DeleteRollback`. Rows being deleted stay visible and locked until then. A
  project delete takes all rows and the project.
- Cleanup: `CleanupLock`, `CleanupRecheck`, `CleanupRemove` (one key),
  `CleanupFail`, and `CleanupRequeue` by an operator. `pending` and `stalled`
  count the Jobs that wait, and those that failed or died.
- `Crash` frees the lock; `ConnectionDrop` frees it under a process that goes on
  until its next database statement (`ConnectionError`).

### ProjectServing

`rows`, `owner` and `lapsed` are a revision's status, claim and lease; `source`
and `requested` the accepted source and the one-off request; `active`, `live` and
`seen` the pointer, the Scripts not retired and their `last_seen_revision`;
`selection` and `policy` what edits change. `asked` is history: the revisions somebody asked
to activate, each until another source is accepted or it is put in force, leaves it or
is deleted; the project keeps no more of it than the bit `requested`. Time is one bit per claim: a lease
may lapse at any moment after the claim, whether or not its owner still runs.
Storage steps work or fail, since `StoredContent` is about what they leave.

- An *operator* stages (upload or reconciliation), accepts and queues
  (`StageIdentify`, `StageSettle`, `StageFail`, `Accept`, `Enqueue`), refreshes,
  asks for an activation or a repair, deactivates, edits.
- A *validation Job* reads the status (`JobStart`), claims (`JobClaim`), imports,
  and settles through the fence `Owns` (`JobVerdict`, `JobRevert`); then it tries
  to activate, even when it lost its claim, as the code does.
- Promotion is the same for both: the unlocked read, the lock and the
  verification, and one transaction that reads everything again
  (`PromoteCommit`, `Promotable`), with `AutomaticStands` for Jobs only.
- What discovery finds in a revision is the constant `Publishes`; a verdict is a
  choice within what that allows (`Verdicts`).
- A digestless row, left by a tree that cannot be stored, is never accepted and
  changes none of these variables; it is left out.

### ScriptRun

`ScriptRun` takes the project as `ServingContract` describes it, so what
`ProjectServing` does in many steps is one step here (`ProjectMoves`); the
refinement `Implements` is what allows it. `on`, `projectOn`, `policy` and
`sound` are the settings of a Script as its row and the enabled flags give them:
`sound` is false when the recorded metadata cannot queue a run. Edits change them
at any moment.

- A *request* reads, then queues. The run form, the REST action and the command
  read Script, project and revision at once (`RequestReads`); an Event Rule reads
  the Script row first and the project later (`EventReadsScript`,
  `EventReadsProject`). `EnqueueOnce` pins what was *read*; `EnqueueRecurring`
  pins nothing and refuses nothing but settings that cannot queue.
- A *run* is a Job row: `Start` (the Script row is read again), `Admit` (its
  project, and `RevisionFor`), `Fetch` (the revision row may be gone), `Import`
  (`Resolves`), `Finish` (the result joins the record). The three reads are
  separate statements in the code, so edits fall between them.
- `Trouble` is storage trouble or a timeout that the Job records; `Die` is a
  process that goes down, in a worker or, for a run in the caller's own process,
  there.
- `Successor` is the external `JobRunner.handle`: after an occurrence ended, well or
  not, it calls `NetBoxScriptJob.enqueue` with the same arguments.
  `SuccessorPolicy` is what that method makes of them, `SuccessorRefused` its
  failure. `Cancel` is an operator who deletes a row.

### ScriptExecution

One run of a script, since runs share nothing here but the database. `stack` and
`next` are the `ExitStack` and the position in NetBox's registry of request
processors; `branch` whether a branch is active; `wrote` what became of the
script's writes in the main database and in the branch's; `result` is history, how the
script itself ended.

- `Enter` enters one processor, skips event tracking on a dry run, survives a
  failing one unless it is event tracking; `Shield` is `main_schema_only`, entered
  last; `Probe` asks where change-logged models go and refuses when it cannot know.
- `Call` is the script: it returns, raises, or raises something that is no
  `Exception`; a dry run ends in the exception that reverts it. `CommitInner`,
  `CommitOuter` and `Unwind` are the ends of the two transactions.
- `Caught` is the handler in `run_script`; `Exit` leaves the processors, the last
  one first.

The processors, event tracking, `transaction.atomic` and Branching's routing are
external; they are modelled by what the code relies on.

### SourceIntake

`project` is the row: the accepted source (a tree and the declarations that were
enabled when it was staged) and the fields only somebody who may activate it can
move. `declared` is the Script File rows, `directory` a Data Source's files,
each marked with the synchronization that wrote it, `holder` the project lock.

- A *browser's upload* is three steps: the form is checked without a lock
  (`Clean`), `stage_project_upload` checks again and declares (`SaveUpload`), and
  merges and stages under the lock (`Ingest`). One by the REST API holds the lock
  from its read to its end (`PutUpload`). `ahead` remembers what was prepared
  before each upload, since a browser's check may be older than that.
- A *synchronization* writes file after file (`BeginSync`, `SyncFile`, `EndSync`), may die
  in between, and queues a reconciliation when it ends. `Reconcile` reads the
  directory under the lock and leaves compiled files out. `AskReconcile` is an operator's.
- `Accept` and `Fail` end whichever of these holds the lock.
- *Selections and Script Files*: `SelectScriptFiles` (the tab, with its three
  conflict checks), `OpenFile` and `SaveFile` (which judges whether enabled may
  move against the stored row), `Refresh` (the Job that restages). A Script File
  row goes only with its Project, so none is deleted.
- *Saves of the Project*: `OpenForm`, `OpenBulk` and `ClearForm` (the gate) read,
  `SaveForm` saves what the form holds over what is stored by then, less what
  the save restores; `PutProject` is the REST API's, under the lock.

### RuntimeCache

`slot` is the tree at the revision's path and `staging` what each thread builds
beside it; a tree has the manifest's files or some of them, a foreign entry,
compiled files, its protection, and the threads that verified it since anybody
else touched it. `flock` is the slot's file lock, which the system frees when its
holder dies, `session` the lock of a process on the revision.

- A *session* imports some script files one after another (`BeginSession`, `BeginImport`,
  `Import`, `FailImport` with its sweep, `EndSession`).
- Each import *settles the slot*: `TakeSlotLock`, `Purge`, `Judge`, and where the tree
  does not verify `SetAside`, `Fill` (one file), `CheckStaging`, `Publish`, `Seal`.
- `Kill` takes a process with all its threads; `Meddle` is whatever cleans a temporary
  directory or adds to one that is not protected; `PublishElsewhere` another host, for
  which the file lock does not count.

### Migration

Passes are Jobs that hold the migration lock from start to end, so at most one
is under way: `pass` holds its place (`pc`), what it has left to go through and
what it read and has not written. Every action is a statement that commits, so workers
and people come between any two, and `PassDies` between any two as well.

- `MigrationState`: the run's states and completed steps (`Moved`, `Complete`), the `journal`,
  the rows. A built-in Job is its row and its queue task, which are not one: a saved row
  owes its task until the commit hook queues it, never gets it when the process dies before
  that, and a deleted or failed row may still have a worker at it. `ran`, `tampered` and `touched` are history.
- `MigrationJobs`: a worker takes, starts, ends and dies; a successor, like a submission, is
  a row first (`SaveSuccessor`, `Submit`) and a task later (`Queue`) or never (`NeverQueued`, or
  `WorkerDies` in between), and its worker is free after that (`FreeWorker`); people
  submit, delete and requeue Jobs, move Projects, write rules. A pass is a Job, so it
  keeps one worker busy (`Busy`).
- `MigrationCutover`: `enter_cutover` refuses over running Jobs (`CheckRunning`) and
  Projects that could serve nothing (`CheckServable`), captures (`Capture`),
  advances, closes permissions and rules, then cancels each captured Job in up to four commits
  (`CancelEntry`, `RevokeTask`, `FailJob`, `RecordCancelled` or `RereadJob`), drops
  synchronization and completes if nothing waits or runs. `Activation` promotes one Project at a time.
- `MigrationReferences`: rules, permissions, history and schedules in that order, with the
  Script rows each step resolves at its start (`seen`). Recreating a schedule is two commits: the
  new Job with its journal entry (`Recreate`), and its task (`HandOver`).
- `Migration`: `BeginCleanup` reads what may go, `CheckModule` and `DeleteModule` are two
  statements, so rows come under a module in between; the report (`VerifyModules` to `VerifyJobs`).

Names, inputs and due times of Jobs are abstracted to whether a replay is
possible (`Unreplayable`); a permission to what the pass can do with it (`Kind`).

## Runs

| Run | Instance | Checks | Shows |
| --- | --- | --- | --- |
| `stored_content` | 1 tree of 2 files, 2 selections, 2 workers, 1 deleter, 1 fault, 2 deletes | `SettledContentComplete`, `ContentAccountedFor`, `CleanupSparesNamed`, `FollowsLifecycle` | content is whole while a row settled on it, removed only while unnamed, never stranded while deletes do not overlap; rows implement `RevisionLifecycle` |
| `stored_content_live` | the same with 1 file, 1 delete, 1 lost session, fair | `CleanupSettles` | a queued cleanup ends |
| `concurrent_deletes` | 2 deleters | `ContentAccountedFor`, violated | the finding |
| `project_serving` | 2 trees, 1 selection, 2 Jobs, 2 operators, 1 fault, 1 edit, 1 deletion | `PointerAgreesWithStatus`, `PublishedMatchesServing`, `NoRequestOnServed`, `FollowsLifecycle`, `OnlyOwnerSettles`, `ImplementsContract`, `ManualServesAsked` | late Jobs change nothing and act on no request that lapsed; pointer, statuses and Scripts agree; the project implements `RevisionLifecycle` and `ServingContract` |
| `project_serving_live` | 1 tree, 2 selections, one of them empty, 2 Jobs, 1 edit, 1 fault, fair | `RequestSettles` | with declarations changing under Jobs, a request comes to its end unless something fails |
| `script_run` | 2 revisions, 1 Script, 2 Job rows, 1 request, 1 schedule, 2 policies, 1 edit, 1 fault | `RunsWhatWasServed`, `RecordTellsWhatRan`, `OneOccurrence`, `ChosenPolicyStays`, `StartDecidesFresh` | what executes, what its Job says, and how a schedule repeats |
| `script_run_live` | 2 Scripts of which one revision publishes one, 1 Job row, 1 edit, fair | `ScheduleGoesOn`, `WaitingExecutes` | a schedule outlives failed occurrences and executes again once its Script can |
| `script_execution` | 3 processors, every release, 2 faults | `RevertedWhole`, `WritesCovered`, `EventsTellOfKept`, `KeptIsTold` | whatever fails around a script, its changes are kept or reverted and told accordingly, but for one case with two databases, which `RevertedWhole` delimits |
| `source_intake` | 4 uploads of 2 paths, 1 Script File edit, 3 Project saves, 2 synchronizations, 1 fault, fair | `UploadsKept`, `TwinsApart`, `SelectionAccounted`, `EditsMoveOnlyTheirs`, `SyncSettles` | uploads and edits do not undo each other, and what a synchronization left is accepted in the end |
| `runtime_cache` | 3 threads of 2 processes, 2 files, 2 changes by others, 1 kill, 2 sessions, fair | `ImportsProven`, `GoodTreeStays`, `SessionsKeepModules`, `SessionsEnd` | code runs from verified trees, builders do not undo each other, every session ends |
| `migration_schedules` | 1 Script, a recurring Job, its successor and a plain one, 1 or 2 workers, 1 death, fair | `NeverBothSides`, `NothingLost`, `ReadyIsHonest`, `CutoverCompletes` | no schedule is lost or run on both sides, and a cutover completes unless one of two kinds of dead row holds it |
| `migration_records` | 2 modules of 1 Project, 3 Scripts, 2 Jobs, 2 rules, 2 permissions, 2 mishaps | `RestoredAsCaptured`, `DeletionSparesCaptured`, `RunnableSomewhere` | what was captured comes back as it was, and the cleanup deletes nothing that is needed |

Type invariants are not among the runs: each is proved for its module.

### Bounds

Digests, selections, workers and Jobs are sets of one to three members. One tree
suffices for `StoredContent`, because trees never interact: every step
concerns the rows and files of one digest, apart from the promotion that retires
the row in force. Two selections make two rows share a tree, which all the hard
cases need, and two files make a tree that is partly there. `MaxFaults` bounds
failures and crashes, `MaxDeletes` committed deletes, `MaxDrops` lost sessions,
`MaxRequests` stagings, `MaxEdits` edits. Each Job of `ProjectServing` is used
once, and an operation that may queue one starts only while one is left. Two
Jobs suffice for a takeover of a lease, since only owner and late owner matter.
`project_serving` may stop once its requests are used up, as a project does that
nobody touches, so its deadlock check is off; the runs of `StoredContent`, where
operations can always start, keep it. In `script_run` two rows are an
occurrence and its successor, or a schedule and a one-shot run; rows are used
again once they ended, so a schedule repeats without end. One revision publishes
the Script and the other does not, so a recurring run meets both. `script_run_live`
has one row, which the successor takes over; a row less free only slows the rest down. Both
may stop when no more is asked. `ScriptExecution` ends with its run; its
three processors put event tracking before the one that selects a branch, with
one between that may fail.

In `source_intake` three uploads are of one path, one of them confirmed and one
by the REST API, and the fourth collides with a third path; the directory also holds a compiled
file. `MaxSyncs` is 2 because the first synchronization came before the Project, so one
more runs under it; `MaxAsks` is one reconciliation an operator asks for, `MaxSaves`
two saves of any sort and `MaxFaults` one failure or crash. In
`runtime_cache` two threads of one process compete for its session and one of another for
the slot; `MaxMeddles` bounds what others and the host do to the slot, `MaxKills` killed processes,
`MaxSessions` sessions. `MaxAttempts` is 2 where the code builds up to three stagings, so that
the two changes by others can spoil every one of them; the theorems hold for any number. In
the migration `MaxCrashes`, `MaxTampers` and `MaxEdits` bound dead passes, workers and
submitters, Jobs deleted or requeued by hand, and moved Projects and failed validations, and
`MaxMishaps` all of these together. `migration_schedules` starts without a Project and
has what races the fence: a worker beside the pass, a recurrence, a submission. Nobody deletes or
requeues a row there (the theorems allow it): somebody who requeues what the fence cancelled can
keep a cutover from completing, since nothing says when a worker takes that task;
`migration_records` has one worker, a class that left its file, a revision that drops a Script and
rules and permissions of the kinds the passes tell apart, one permission written disabled. These runs stop when a
migration, a project or a cache has nothing left to do, so they have no deadlock check.

### Fairness

Nothing makes an operator act, a backend fail, a lease lapse or a process die.
A process inside the lock's block gets weak fairness: it runs on, or
dies, or its lease does not matter to it. Waiting for the lock gets strong fairness:
PostgreSQL queues the waiters of an advisory lock, so a waiter that finds it free
again and again is granted it; and workers take Jobs off a queue. `RequestSettles`
excuses runs in which something failed, since a crash between acceptance and queueing
does leave a revision with no Job (see below). In `FairSpec` of `StoredContent`
a process whose session was lost meets its database error in the end, since every
operation ends in a statement. In that of `ScriptRun` workers drain the queue and
core queues successors; nobody has to ask for a run, serve anything or change a
setting, and `WaitingExecutes` assumes only that the Script can run for good from
some time on.

In `SourceIntake` a synchronization goes on until it ends or dies, and a queued
reconciliation is run and comes to the end of its block. In `RuntimeCache`
a thread that waits for no lock runs on; nothing is assumed of the order of those that wait, because the
sessions are bounded. In `Migration` a pass under way goes on, workers
finish what they took, and an operator enters an unfinished
cutover again and again and in the end accepts the workers it has. Who saved a row queues its task
unless that process dies first: `Queue` is weakly fair, and `NeverQueued` and `WorkerDies` end
what it owes. Two rows hold a cutover until somebody deletes them, as the migration guide
describes under *Missing queue tasks*, and `CutoverCompletes` names both (`Stale`): a row left running
by a dead worker, and a row that waits and never gets its task, whose input no capture can read.

## Findings

*Overlapping deletes strand a tree* (`concurrent_deletes`).
`docs/administration/configuration.md:290` promises that a delete records its cleanup.
The receiver skips it when another row names the tree (`signals.py:132`), and
two overlapping transactions that delete the last two rows each still see the
other's. Neither records a Job and the sweep, which goes by Jobs, does not see
the tree. No view or route deletes single revisions, so this takes ORM code.

### Disagreements

Met while modelling, and described without a run of their own:

- *A cleanup outlives its lock.* `storage/locks.py:6` has all storage work of a
  project in a defined order, by a session lock that is freed when the connection
  drops. `delete_revision` uses no database between keys, so a cleanup that lost
  its connection goes on removing a tree staged again in the meantime. Later
  verification finds the tree corrupt; no bad code is run. This is why the theorems on
  `SettledContentComplete` assume `MaxDrops = 0`.
- *A request pins what it read.* `jobs.py:538` pins a one-shot run "to the
  revision its project serves now". The project was read before the class was
  imported and the inputs validated, so a run queued after a deactivation or another
  activation is pinned to what was in force before. The run itself is sound: it
  executes reviewed code, or fails if the revision went.
- *A run may write to a branch.* `docs/administration/branching.md:8` says runs
  always write to the main schema. With a release of Branching that has no call to
  leave a branch, and whose routing can be told, they write to the branch selected
  by the request, under a transaction of its own.
- *Grants wait for Projects.* `docs/administration/migration.md:386-390` and
  `migration/references.py:490-492` have permissions wait for no Project.
  `MigrationReferencesJob.run` (`jobs.py:1131`) calls `repoint_event_rules` first, whose
  refusal ends the pass, so `repoint_permissions` never runs while a mapped Project serves
  nothing (`BeginRules`).
- *A late upload replaces unasked.* `ScriptProjectAddScriptForm` says that replacing a file
  needs the tick. The check is made before the lock is taken, and the one under it lets
  through what the first allowed, so an upload that came late may replace one confirmed
  since (`UploadsKept` names the case: `ahead`).
- *A refresh creates stored revisions.* The table of status transitions in
  `docs/reference/models/scriptprojectrevision.md:157` has a new row start in `staging`, or
  `invalid` when it was rejected. A Script File refresh creates its candidate
  `materialized` at once (`storage/service.py:249`), after verifying the tree.
  `RevisionLifecycle` has that transition; rejected rows carry no identity and are left out.

## Proofs

`StoredContentProofs` proves, for all sets of digests, selections, files,
workers and deleters and any number of faults and deletes:

- `TypeCorrect`: `Spec => []TypeOK`.
- `StoringFollows`: `Spec => FollowsLifecycle`, even with lost sessions.
- `ContentInvariant` and `SettledContentSafe`: with `MaxDrops = 0`,
  `Spec => []SettledContentComplete`.
- `CleanupSpares`: with `MaxDrops = 0`, `Spec => CleanupSparesNamed`.
- `NothingStranded`: with `MaxDrops = 0`, `Spec /\ []DeletesApart => []ContentAccountedFor`,
  and `OneDeleterStrandsNothing`, the same of one deleter with no such hypothesis.

`SettledContentComplete` is not inductive: a step that settles a row does not
look at the store, it relies on what an earlier step saw. `ContentInv` adds
`LockHeld` (whoever is inside the block holds the lock), `ClaimProven` (a tree
about to be claimed is whole) and `RemovalProven` (a tree being removed has no
row). `LockStep` carries the first, `Exclusion` draws from it that no two
workers are inside. Most steps are *quiet* (`QuietStep`): they neither touch
the store nor create or settle a row. The seven others are taken one by one in
`ContentStep`. The assumption `MaxDrops = 0` is the first of the disagreements.
The only other assumption is `StoredContentConstants`.

`ContentAccountedFor` needs `AccountInv`: `WriterAccounted` (a tree being written is accounted
for before a file of it is there, although its row may go meanwhile) and `DebtsRight` (an open
delete that takes the last rows of a tree owes its cleanup). `DeletesApart` says that two open
deletes name no tree in common, which is just what `concurrent_deletes` violates: while
no session is lost, the finding is the only way to strand a tree. That hypothesis is not about the code's own steps but about
who deletes, and `OneDeleterStrandsNothing` discharges it.

`ProjectServingProofs` proves every safety property its runs check, for all
sets of sources, selections, Scripts, Jobs and operators and any number of
requests, edits, failures and deletions, from `ProjectServingConstants` alone:
`TypeCorrect`, `PointerAgrees`, `PublishedMatches`, `RequestsMean`,
`OwnerSettles`, `ManualAsked`, and two refinements, `ServingFollows` of
`RevisionLifecycle` and `Implements` of `ServingContract`. The invariant, `ServingInv`, adds to
the checked ones `LockHeld`, `StagedRow` (a row being staged is still in its write
window, which is why a failed write may set its status without looking) and
`AcceptedRow` (the status read at staging still tells whether the source is served).
`StepKinds` sorts the steps by what they do to statuses and pointer, and the
rest argues by kind. `ManualAsked` has a small invariant of its own, `RequestWasAsked`: while the
bit is set, the accepted source is one that was asked for (`AskedStep`).

`ScriptRunProofs` proves every safety property `script_run` checks, for all sets
of revisions, Scripts, requests, Job rows, schedules and policies and any number of
edits and faults, from `ScriptRunConstants` alone: `TypeCorrect`, `RunsServed`,
`RecordTells`, `OneAtATime`, `PolicyStays` and `StartFresh`. The invariant,
`RunInv`, has `RowInv` for each Job row (how state, pin, resolved revision and record
belong together: a one-shot row has a pin and a recurring one none, and what is
resolved agrees with the pin), `ServedInv` (what a request read was in force), and
for schedules `OneOccurrence` and `PolicyInv` (the policy asked of a schedule is the policy of
the occurrence that is under way or owes a successor, which is what the successor copies).
`RowMoves` says what a step may make of one row, either `Moved` or `Queued`; only the
steps that queue an occurrence look at other rows. Type correctness needs `RowInv`,
because a row that owes a successor has a schedule.

`KeepsContract` closes the circle with `ProjectServing`: a project with its runs does only
what `ServingContract` allows, and `Implements` has the project's own machinery do nothing else.
`ServesApproved` is what the contract is for, and gives `RunsServed` its first clause: whatever
executes passed validation.

`ScriptExecutionProofs` proves every property `script_execution` checks, for
every registry of processors and any number of faults: `Reverting`, `Covering`,
`TellingOfKept`, `KeptTold`. Its invariant, `Inv`, is `TypeOK`, `TrackInv` (where event tracking
stands among the processors entered), `WriteInv` (what may be written to a database, by
what encloses it) and `EventInv` (what the queue holds, by how the run is ending). The
assumption is `ScriptExecutionConstants`.

`SourceIntakeProofs` proves the safety properties of `source_intake` for any
sets of paths, twins, uploads, edits and forms, from `SourceIntakeConstants` and `NoneIsNoSource`:
`TwinsStayApart`, `SelectionsAccounted`, `EditsMoveTheirs`, `UploadsStay`. The first two
are inductive with little beside them. `EditsMoveOnlyTheirs` needs `ClearedByRight`: what a
form carries as cleared, from its gate to its save, was granted to a holder of the
permission. `UploadsKept` needs `IntakeInv`: `KindInv` (a project of one kind has nothing of
the other), `LockInv` (who is inside, and what it read), `OrderInv` (a path is declared with
its preparation, so what is not confirmed was prepared before its rivals) and `TreeInv`
(neither the accepted tree nor the one being staged has lost an upload).

`RuntimeCacheProofs` proves those of `runtime_cache` for any threads, processes and files and
any number of changes, kills and sessions, from `CacheConstants` and `NoneIsNoTree`:
`ImportsStayProven`, `GoodTreesStay`, `ModulesKept`. `Base` has the types, the holder of the
slot's lock and the staging trees; `TreeInv` what a builder or an importer relies on of the
shared slot, each clause conditional on nobody else having touched it; `SessionInv` the
modules. `GoodTreeStays` speaks of steps of this host: what another host publishes between a judgment
and the rename that acts on it may be set aside, for its own builder is not under this lock.
Likewise a thread that was handed the path may import from a tree that is verified and not
yet protected when others meddle, which is why `ImportsProven` has two clauses.

`MigrationProofs` proves, from `MigrationConstants` alone and for any number of Scripts, modules, Jobs,
workers, rules, permissions and mishaps, `TypeCorrect`, `OneSideOnly` (`NeverBothSides`),
`SchedulesKept` (`NothingLost`) and `ReadyTells` (`ReadyIsHonest`). `LedgerInv` is the agreement they rest on. `JobInv`: an
untampered row tells whether a worker ran its Job. `JournalInv` and `CancelInv`: what the
journal, and what the pass's memory, say of a Job is so (`Tells`), and the journal is final past the
fence. `ReplayInv`: one recreation per journal entry, only of a cancelled Job, and a replay
about to end with nothing open passes none over that is due. `PhaseInv` keeps cancelling and
replaying on their sides of the fence. Steps are sorted by what they do to schedules:
`JobsMove` for the environment, `Walks` for a pass that leaves them alone, and a section each for the
fence, the replay and a deletion.

`MigrationRecordProofs` proves `DeletionSpares` and `LastCopyStays`, that what `retire_legacy`
judged of a module holds until it deletes it. `DeletionInv` has `KeptInv` (a module not in
`kept` is replaced, or its Project was touched), `ClearInv` (at the deletion nothing
captured comes under it) and `GoneInv` (a captured rule that is gone went with its module, so
nobody writes it again).

The same module proves `CapturedRestored` (`RestoredAsCaptured`), from `RestoreInv`. A
replay writes back a flag it reads in the journal, so what it writes is right only if the
journal was filled before anything was closed (`CapturedInv`), and it ends only if no rule
or grant was passed over, by this pass or by one that died (`RulesInv`, `PermsInv`). `ClosedInv`
keeps a closed rule closed while it names the built-in feature; by `SyncInv` the journal names a
module before its synchronization is withdrawn. A split grant is the hard case: old and new row are written with the journal
entry in one transaction, so a repeated pass must not split it again. Each group of
conjuncts has a lemma for the steps that leave it alone (`...Calm`) and one for each step that does not
(`...Restores`).

Only model-checked: liveness (`CleanupSettles`, `RequestSettles`, `ScheduleGoesOn`,
`WaitingExecutes`, `CutoverCompletes`, `SessionsEnd`, `SyncSettles`), which is beyond the prover, as are
ENABLED and induction over recursive data. Every other property of a passing run is a theorem.
Each rests on the named assumptions of its module and nothing else, but for `MaxDrops = 0` and
`DeletesApart` where they are stated.

## Not modelled

- *Computation without state*: manifests, path policy, script file snapshots, overlap,
  dotted names, the plan's rewriting of sources (`migration/plan.py`, `migration/dialects.py`),
  script discovery. The modules take their results as constants (`Publishes`, `Twins`,
  `Compiled`, `Departed`, `ModuleOf`); unit tests of the repository cover them.
- *Presentation and read-only access*: serialisation, GraphQL, search, tables, navigation,
  object permission queries, the authoring API, the compatibility aliases. Of the views and
  forms the order of checks and saves is modelled, not what they show.
- *Preconditions*: the refusal of storage operations under unsafe routing of Branching, and
  field validation.
- *Data*: inputs, uploads, log and output of a run; archives and limits of an upload; the
  deletion of a Script row under its Jobs.
- *Display data*: the discovery outcomes written on Script Files (`validation.py:391`) are shown
  and never read back to decide anything.
- A process that dies between accepting a source and queueing its validation
  (`ingestion.py:185`) leaves a materialized revision until the source is staged again.
  `ProjectServing` has that crash; the code promises nothing about it, so no property does.
- The daily sweep reports and changes nothing but its own Job row.
