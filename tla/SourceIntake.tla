---------------------------- MODULE SourceIntake ----------------------------
(***************************************************************************)
(* How source reaches one Script Project, and who may move what decides    *)
(* it: uploads merged into the accepted tree, a Data Source directory that *)
(* synchronizations rewrite under reconciliation Jobs, selections and file *)
(* edits applied by refresh Jobs, and edit forms saved from stale rows.    *)
(*                                                                         *)
(* A revision is what staging made of a tree and of the declarations       *)
(* enabled then; storing and judging it is StoredContent's and             *)
(* ProjectServing's concern, so here staging works or fails.  A browser    *)
(* checks, then saves under the project lock, then stores; a REST request  *)
(* holds the lock from its read to its end.                                *)
(***************************************************************************)
EXTENDS Naturals

CONSTANTS
    File,         \* canonical source paths
    Compiled,     \* those of compiled artifacts, which only a directory holds
    Twins,        \* pairs of paths that differ by case or import as one module
    Upload,       \* upload requests, each with its content
    FileOf,       \* the path each uploads
    Holdings,     \* what a Data Source may hold when its Project is made
    Confirmed,    \* those whose user confirmed replacement
    FileEdit,     \* Script File saves
    MayMove,      \* those whose user may change the Project
    Form,         \* Script Project saves
    MayActivate,  \* those whose user may activate the Project
    Api,          \* the uploads and Project saves that come through the REST API
    Gated,        \* the gated source fields
    Reconciler, Nobody, None, Over,
    MaxSyncs,     \* bound: synchronizations, the first before the Project is made
    MaxAsks,      \* bound: reconciliations an operator asks for
    MaxSaves,     \* bound: saves of selections, Script Files and the Project
    MaxFaults     \* bound: failures and crashes

ASSUME SourceIntakeConstants ==
    /\ Compiled \subseteq File
    /\ Twins \subseteq SUBSET File /\ \A f \in File : {f} \notin Twins
    /\ Holdings \subseteq SUBSET File
    /\ FileOf \in [Upload -> File \ Compiled] /\ Confirmed \subseteq Upload
    /\ Api \subseteq Upload \cup Form
    /\ MayMove \subseteq FileEdit /\ MayActivate \subseteq Form
    /\ Reconciler \notin Upload /\ Nobody \notin Upload \cup {Reconciler}
    /\ MaxSyncs \in Nat \ {0} /\ MaxAsks \in Nat
    /\ MaxSaves \in Nat /\ MaxFaults \in Nat

VARIABLES
    kind,        \* source_type, frozen at creation
    project,     \* the Project's row: accepted source and gated fields
    declared,    \* the Script File rows
    refreshDue,  \* a script file refresh Job is queued
    holder,      \* who holds the project lock
    files,       \* the tree the holder read to stage
    upload,      \* where each upload is
    ahead,       \* the uploads prepared before each (history)
    directory,   \* the Data Source's files: the sync that wrote each, 0 absent
    unsynced,    \* files the sync under way has left to write
    due,         \* reconciliation Jobs queued
    edit, form,  \* saves under way
    missed,      \* an intake failed since the last one began (history)
    syncs, asks, saved, faults

uploads == <<upload, ahead>>
sync    == <<directory, unsynced, due>>
edits   == <<edit, form>>
bounds  == <<syncs, asks, saved, faults>>
vars    == <<kind, project, declared, refreshDue, holder, files, uploads,
             sync, edits, missed, bounds>>

Tree == [File -> Upload \cup 0..MaxSyncs]

Source == [tree : Tree, frozen : SUBSET File]

ASSUME NoneIsNoSource == None \notin Source

Row == [source : Source \cup {None}, gated : [Gated -> BOOLEAN]]

Pc == {"idle", "clean", "committed", "ingesting", "stored", "failed",
       "refused"}

TypeOK ==
    /\ kind \in {"upload", "data_source"}
    /\ project \in Row
    /\ declared \in [File -> {"none", "on", "off"}]
    /\ refreshDue \in BOOLEAN /\ missed \in BOOLEAN
    /\ holder \in Upload \cup {Reconciler, Nobody}
    /\ files \in Tree \cup {None}
    /\ upload \in [Upload -> Pc] /\ ahead \in [Upload -> SUBSET Upload]
    /\ directory \in [File -> 0..MaxSyncs]
    /\ unsynced \in (SUBSET File) \cup {None}
    /\ due \in Nat
    /\ edit \in [FileEdit -> [file : File, on : BOOLEAN] \cup {None, Over}]
    /\ form \in [Form -> [instance : Row, touched : SUBSET Gated,
                           cleared : (SUBSET Gated) \cup {None}] \cup {None, Over}]
    /\ syncs \in 0..MaxSyncs
    /\ asks \in Nat /\ saved \in Nat /\ faults \in Nat

-----------------------------------------------------------------------------
Enabled == {f \in File : declared[f] = "on"}

Declared == {f \in File : declared[f] # "none"}

Absent == [f \in File |-> 0]

\* The accepted source, whatever is served; empty before the first.
CurrentTree == IF project.source = None THEN Absent ELSE project.source.tree

\* A declaration no other may stand beside.
Collides(f, others) == \E g \in others : {f, g} \in Twins

\* Why an upload is refused: it replaces unasked what the Project holds or
\* is still storing, or its declaration collides.
Conflict(u) ==
    LET f == FileOf[u] IN
    \/ u \notin Confirmed /\ (CurrentTree[f] # 0 \/ f \in Declared)
    \/ f \notin Declared /\ Collides(f, Declared)

Goto(u, place) == upload' = [upload EXCEPT ![u] = place]

Fault == faults < MaxFaults /\ faults' = faults + 1

NoFault == UNCHANGED faults

Another == saved < MaxSaves /\ saved' = saved + 1

-----------------------------------------------------------------------------
(* Uploads *)

\* The form is clean, or tells its user why not.  Nothing is locked.
Clean(u) ==
    /\ kind = "upload" /\ u \notin Api /\ upload[u] = "idle"
    /\ Goto(u, IF Conflict(u) THEN "refused" ELSE "clean")
    /\ UNCHANGED <<kind, project, declared, refreshDue, holder, files, ahead,
                   sync, edits, missed, bounds>>

\* An upload's declaration, made or enabled again.
Declare(f) == declared' = [declared EXCEPT ![f] = "on"]

\* Judged again under the lock, and declared before any content is written.
PrepareUpload(u) ==
    IF Conflict(u)
      THEN Goto(u, "refused") /\ UNCHANGED <<declared, ahead>>
      ELSE /\ Goto(u, "committed")
           /\ Declare(FileOf[u])
           /\ ahead' = [ahead EXCEPT ![u] = {v \in Upload :
                upload[v] \in {"committed", "ingesting", "stored", "failed"}}]

\* The form's save: its transaction holds the lock until it commits.
SaveUpload(u) ==
    /\ upload[u] = "clean" /\ holder = Nobody
    /\ PrepareUpload(u)
    /\ UNCHANGED <<kind, project, refreshDue, holder, files, sync, edits, missed,
                   bounds>>

\* A variant that takes the lock for its preparation alone.
PutUploadReleasing(u) ==
    /\ kind = "upload" /\ u \in Api /\ upload[u] = "idle" /\ holder = Nobody
    /\ PrepareUpload(u)
    /\ UNCHANGED <<kind, project, refreshDue, holder, files, sync, edits, missed,
                   bounds>>

\* The REST route keeps the lock for the ingestion that follows.
PutUpload(u) ==
    /\ kind = "upload" /\ u \in Api /\ upload[u] = "idle" /\ holder = Nobody
    /\ PrepareUpload(u)
    /\ holder' = IF Conflict(u) THEN Nobody ELSE u
    /\ UNCHANGED <<kind, project, refreshDue, files, sync, edits, missed, bounds>>

\* The hook that runs once the request committed: the accepted tree is read
\* under the lock and the file merged into it.
Ingest(u) ==
    /\ upload[u] = "committed" /\ holder \in {Nobody, u}
    /\ Goto(u, "ingesting")
    /\ holder' = u /\ files' = [CurrentTree EXCEPT ![FileOf[u]] = u]
    /\ missed' = FALSE
    /\ UNCHANGED <<kind, project, declared, refreshDue, ahead, sync, edits, bounds>>

-----------------------------------------------------------------------------
(* The Data Source and its reconciliation *)

\* A synchronization rewrites the files it found changed, one at a time.
BeginSync ==
    /\ kind = "data_source" /\ unsynced = None /\ syncs < MaxSyncs
    /\ syncs' = syncs + 1
    /\ unsynced' \in SUBSET File
    /\ UNCHANGED <<kind, project, declared, refreshDue, holder, files, uploads,
                   directory, due, edits, missed, asks, saved, faults>>

SyncFile ==
    /\ unsynced # None
    /\ \E f \in unsynced : \E now \in {0, syncs} \ {directory[f]} :
         /\ directory' = [directory EXCEPT ![f] = now]
         /\ unsynced' = unsynced \ {f}
    /\ UNCHANGED <<kind, project, declared, refreshDue, holder, files, uploads,
                   due, edits, missed, bounds>>

\* A variant that leaves the queue alone while a Job runs.
QueuedOnce == IF holder = Reconciler THEN due ELSE due + 1

\* One Job more, whatever is queued or running.
Queued == due + 1

\* post_sync is the last statement of a synchronization.  A failure to
\* queue is swallowed; a synchronization that dies never gets here.
EndSync ==
    /\ unsynced # None /\ unsynced' = None
    /\ \/ unsynced = {} /\ due' = Queued /\ NoFault /\ UNCHANGED missed
       \/ Fault /\ missed' = TRUE /\ UNCHANGED due
    /\ UNCHANGED <<kind, project, declared, refreshDue, holder, files, uploads,
                   directory, edits, syncs, asks, saved>>

AskReconcile ==
    /\ kind = "data_source" /\ asks < MaxAsks /\ asks' = asks + 1
    /\ due' = Queued
    /\ UNCHANGED <<kind, project, declared, refreshDue, holder, files, uploads,
                   directory, unsynced, edits, missed, syncs, saved, faults>>

\* The rows as a source tree: compiled artifacts are not source.
DirectoryTree == [f \in File |-> IF f \in Compiled THEN 0 ELSE directory[f]]

\* The Job reads the directory as one snapshot under the lock, which no
\* synchronization takes.
Reconcile ==
    /\ due > 0 /\ holder = Nobody
    /\ due' = due - 1
    /\ holder' = Reconciler /\ files' = DirectoryTree
    /\ missed' = FALSE
    /\ UNCHANGED <<kind, project, declared, refreshDue, uploads, directory,
                   unsynced, edits, bounds>>

-----------------------------------------------------------------------------
(* Acceptance and failure *)

\* What staging a tree now freezes.
Staged(tree) == [tree |-> tree, frozen |-> Enabled]

Accept(p) ==
    /\ holder = p /\ files # None
    /\ project' = [project EXCEPT !.source = Staged(files)]
    /\ holder' = Nobody /\ files' = None
    /\ upload' = [u \in Upload |-> IF u = p THEN "stored" ELSE upload[u]]
    /\ UNCHANGED <<kind, declared, refreshDue, ahead, sync, edits, missed, bounds>>

\* Staging refuses the tree or cannot write it, or its process dies: the
\* lock is free and nothing was accepted.  A declaration stays.
Fail(p) ==
    /\ IF p = Reconciler THEN holder = p
                         ELSE upload[p] \in {"committed", "ingesting"}
    /\ Fault /\ missed' = TRUE
    /\ holder' = IF holder = p THEN Nobody ELSE holder
    /\ files' = IF holder = p THEN None ELSE files
    /\ upload' = [u \in Upload |-> IF u = p THEN "failed" ELSE upload[u]]
    /\ UNCHANGED <<kind, project, declared, refreshDue, ahead, sync, edits,
                   syncs, asks, saved>>

-----------------------------------------------------------------------------
(* Selections *)

\* The source the Project has now: a directory before anything is staged.
\* For uploads the code lists the served tree where there is one; every
\* file of either was declared when it was uploaded.
SourcePaths ==
    LET tree == IF kind = "upload" THEN CurrentTree ELSE directory
    IN {f \in File : tree[f] # 0}

\* The importable modules of the source, and what is declared already.
Declarable == Declared \cup (SourcePaths \ Compiled)

\* A variant that judges each new declaration against the stored ones.
CollidesStored(selected) == \E f \in selected : Collides(f, Declared)

\* Every declaration a selection leaves is judged against all of them.
CollidesAmong(selected) ==
    \E f \in selected \ Declared : Collides(f, Declared \cup selected)

\* A variant that forgets the declarations it creates.
ChangesStored(selected) == Declared \cap selected # Enabled

\* Whether a selection creates a declaration or changes one.
Changes(selected) == selected # Enabled

\* A refresh Job is queued in the transaction that changed the declarations.
QueueRefreshIf(changed) == refreshDue' = (refreshDue \/ changed)

\* The Script Files tab: the declarations and the Job that applies them
\* commit together.
SelectScriptFiles(selected) ==
    /\ holder = Nobody /\ Another
    /\ selected \subseteq Declarable
    /\ ~CollidesAmong(selected)
    /\ declared' = [f \in File |->
         IF f \in selected THEN "on"
         ELSE IF f \in Declared THEN "off" ELSE "none"]
    /\ QueueRefreshIf(Changes(selected))
    /\ UNCHANGED <<kind, project, holder, files, uploads, sync, edits, missed,
                   syncs, asks, faults>>

\* A Script File form is submitted for the row as it was loaded.  (The REST
\* update takes the lock first: the same two steps with nothing between.)
OpenFile(e) ==
    /\ edit[e] = None /\ Another
    /\ \E f \in Declared, on \in BOOLEAN :
         edit' = [edit EXCEPT ![e] = [file |-> f, on |-> on]]
    /\ UNCHANGED <<kind, project, declared, refreshDue, holder, files, uploads,
                   sync, form, missed, syncs, asks, faults>>

\* Under the lock the stored row decides whether a save moves enabled.
MovesEnabled(e) == edit[e].on # (edit[e].file \in Enabled)

\* Moving it costs the change of the Project as well.
Unpermitted(e) == MovesEnabled(e) /\ e \notin MayMove

SaveFile(e) ==
    /\ edit[e] \notin {None, Over} /\ holder = Nobody
    /\ edit' = [edit EXCEPT ![e] = Over]
    /\ IF Unpermitted(e)
         THEN UNCHANGED <<declared, refreshDue>>
         ELSE /\ declared' = [declared EXCEPT ![edit[e].file] =
                                IF edit[e].on THEN "on" ELSE "off"]
              /\ QueueRefreshIf(MovesEnabled(e))
    /\ UNCHANGED <<kind, project, holder, files, uploads, sync, form, missed,
                   bounds>>

\* The refresh Job holds the lock from its read of the accepted source to
\* its acceptance under the declarations of now.
Refresh ==
    /\ refreshDue /\ holder = Nobody
    /\ refreshDue' = FALSE
    /\ \/ /\ project' = IF project.source = None THEN project
                        ELSE [project EXCEPT !.source = Staged(CurrentTree)]
          /\ NoFault /\ UNCHANGED missed
       \/ Fault /\ missed' = TRUE /\ UNCHANGED project
    /\ UNCHANGED <<kind, declared, holder, files, uploads, sync, edits, syncs,
                   asks, saved>>

-----------------------------------------------------------------------------
(* Project edits *)

Moved(row) == {g \in Gated : row.gated[g] # project.gated[g]}

\* An edit form, or a record of an import, submits every gated field.
OpenForm(m) ==
    /\ form[m] = None /\ Another
    /\ m \notin Api
    /\ \E gated \in [Gated -> BOOLEAN] :
         form' = [form EXCEPT ![m] = [instance |-> [project EXCEPT !.gated = gated],
                                      touched |-> Gated, cleared |-> None]]
    /\ UNCHANGED <<kind, project, declared, refreshDue, holder, files, uploads,
                   sync, edit, missed, syncs, asks, faults>>

\* A bulk edit submits those it touches; the instance keeps the others as
\* they were loaded.
OpenBulk(m) ==
    /\ form[m] = None /\ Another
    /\ m \notin Api
    /\ \E touched \in SUBSET Gated, value \in BOOLEAN :
         form' = [form EXCEPT ![m] =
           [instance |-> [project EXCEPT !.gated =
              [g \in Gated |-> IF g \in touched THEN value ELSE @[g]]],
            touched |-> touched, cleared |-> None]]
    /\ UNCHANGED <<kind, project, declared, refreshDue, holder, files, uploads,
                   sync, edit, missed, syncs, asks, faults>>

\* The gate compares with the stored row, and records what it let through.
ClearForm(m) ==
    /\ form[m] \notin {None, Over} /\ form[m].cleared = None
    /\ LET moved == Moved(form[m].instance) \cap form[m].touched IN
       form' = IF moved # {} /\ m \notin MayActivate
                 THEN [form EXCEPT ![m] = Over]
                 ELSE [form EXCEPT ![m].cleared = moved]
    /\ UNCHANGED <<kind, project, declared, refreshDue, holder, files, uploads,
                   sync, edit, missed, bounds>>

\* The instance is as old as the request: the markers the source operations
\* own are taken from the row it overwrites.
Restored(instance) == [instance EXCEPT !.source = project.source]

\* A variant that trusts the gate.
OvertakenNever(m) == {}

\* What the save would move that the gate never saw move.
Overtaken(m) == Moved(form[m].instance) \ form[m].cleared

SaveForm(m) ==
    /\ form[m] \notin {None, Over} /\ form[m].cleared # None
    /\ holder = Nobody
    /\ form' = [form EXCEPT ![m] = Over]
    /\ project' = IF Overtaken(m) = {} THEN Restored(form[m].instance)
                                       ELSE project
    /\ UNCHANGED <<kind, declared, refreshDue, holder, files, uploads, sync,
                   edit, missed, bounds>>

\* The REST update locks the Project before its row is read, so nothing
\* comes between the gate and the save.
PutProject(m) ==
    /\ m \in Api /\ form[m] = None /\ Another /\ holder = Nobody
    /\ form' = [form EXCEPT ![m] = Over]
    /\ \E gated \in [Gated -> BOOLEAN] :
         LET put == [project EXCEPT !.gated = gated] IN
         project' = IF Moved(put) = {} \/ m \in MayActivate THEN put ELSE project
    /\ UNCHANGED <<kind, declared, refreshDue, holder, files, uploads, sync,
                   edit, missed, syncs, asks, faults>>

-----------------------------------------------------------------------------
Init ==
    /\ kind \in {"upload", "data_source"}
    /\ project = [source |-> None, gated |-> [g \in Gated |-> FALSE]]
    /\ declared = [f \in File |-> "none"]
    /\ refreshDue = FALSE /\ missed = FALSE
    /\ holder = Nobody /\ files = None
    /\ upload = [u \in Upload |-> "idle"] /\ ahead = [u \in Upload |-> {}]
    /\ \E held \in IF kind = "upload" THEN {{}} ELSE Holdings :
         directory = [f \in File |-> IF f \in held THEN 1 ELSE 0]
    /\ unsynced = None /\ due = 0
    /\ edit = [e \in FileEdit |-> None] /\ form = [m \in Form |-> None]
    /\ syncs = 1 /\ asks = 0 /\ saved = 0 /\ faults = 0

Next ==
    \/ \E u \in Upload : Clean(u) \/ SaveUpload(u) \/ PutUpload(u) \/ Ingest(u)
    \/ BeginSync \/ SyncFile \/ EndSync \/ AskReconcile \/ Reconcile
    \/ \E p \in Upload \cup {Reconciler} : Accept(p) \/ Fail(p)
    \/ \E selected \in SUBSET File : SelectScriptFiles(selected)
    \/ \E e \in FileEdit : OpenFile(e) \/ SaveFile(e)
    \/ Refresh
    \/ \E m \in Form : \/ OpenForm(m) \/ OpenBulk(m) \/ ClearForm(m)
                        \/ SaveForm(m) \/ PutProject(m)

Spec == Init /\ [][Next]_vars

\* A synchronization goes on until it ends or dies, the queue runs its Jobs,
\* and PostgreSQL grants a free lock to who waits for it.
Fairness ==
    /\ WF_vars(SyncFile) /\ WF_vars(EndSync)
    /\ WF_vars(Reconcile) /\ WF_vars(Accept(Reconciler))

FairSpec == Spec /\ Fairness

-----------------------------------------------------------------------------
(* Properties *)

\* An upload that was stored stays in the accepted source until an upload
\* of its path replaces it that was confirmed, or was let through before it:
\* no operation loses another's file, and only a browser's, which gives up
\* the lock between its check and its merge, may come late.
UploadsKept ==
    \A u \in Upload : upload[u] = "stored" =>
        LET now == CurrentTree[FileOf[u]] IN
        \/ now = u
        \/ now \in Confirmed
        \/ now \in ahead[u] \ Api

\* Two paths that differ by case or import as one module are never declared
\* together, though each upload was clean when its form was checked.
TwinsApart == \A f \in Declared : ~Collides(f, Declared)

\* While the accepted revision froze other declarations than are enabled
\* now, something is queued or under way that restages it, or an intake
\* failed.
SelectionAccounted ==
    \/ project.source = None
    \/ project.source.frozen = Enabled
    \/ refreshDue \/ missed \/ holder # Nobody
    \/ \E u \in Upload : upload[u] = "committed"

\* A gated field moves only by the save of a user who may activate the
\* Project, and never from a value its gate had not seen; no save of the
\* Project moves its accepted source.
EditsMoveOnlyTheirs ==
    [][\A m \in Form : form[m] # Over /\ form'[m] = Over =>
         /\ project'.source = project.source
         /\ \A g \in Gated : project'.gated[g] # project.gated[g] =>
              /\ m \in MayActivate
              /\ form[m] # None => g \in form[m].cleared]_vars

\* What a synchronization left is what the Project accepts in the end,
\* however its Jobs fall against others, unless an intake failed.
SyncSettles ==
    unsynced = {} ~> \/ missed
                     \/ unsynced = None /\ CurrentTree = DirectoryTree
=============================================================================
