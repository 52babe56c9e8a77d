------------------------ MODULE MigrationRecordProofs ------------------------
(***************************************************************************)
(* What becomes of the records a migration does not own.  retire_legacy    *)
(* never deletes a Job or rule the fence captured, nor the last place a    *)
(* Script can run; and the rules and permissions the fence closed come     *)
(* back as they were written.                                              *)
(*                                                                         *)
(* The pass judges a module in one statement and deletes it in another, so *)
(* the invariant keeps what was judged true until the deletion: what may   *)
(* come under the module meanwhile is not captured, and whoever moves its  *)
(* Project leaves a trace.                                                 *)
(*                                                                         *)
(* What comes back is a matter of three times: what stood before the       *)
(* capture (CapturedInv), what is closed behind the fence (ClosedInv), and *)
(* what a pass has gone through (RulesInv, PermsInv), which has to outlast *)
(* a dead pass because the next one starts over.                           *)
(***************************************************************************)
EXTENDS MigrationProofs

Cleaning == {"modules", "delete"}

\* No Script of m depends on it, short of somebody moving its Project.
Replaced(m) ==
    \/ ProjectOf[m] \in touched \/ ~proj[ProjectOf[m]].present
    \/ \A s \in Within(m) \cap Mapped : row[s] = "live"

KeptInv == pass.pc \in Cleaning => \A m \in module : m \in pass.kept \/ Replaced(m)

\* What the deletion of m may take.
Clear(m) ==
    /\ JobsUnder(m) \cap CapturedJobs \subseteq tampered
    /\ \A r \in RulesUnder(m) : journal.rule[r] = "absent"

ClearInv ==
    pass.pc = "delete" => \A m \in Module : pass.at = m => m \notin pass.kept /\ Clear(m)

\* A captured rule that went, went with its module, so nobody writes it again.
GoneInv ==
    \A r \in Rule : rule[r].action = "absent" =>
        /\ rule[r].watches = "none"
        /\ \/ journal.rule[r] = "absent"
           \/ RuleNames[r] \in Target /\ Home(RuleNames[r]) \notin module

DeletionInv == KeptInv /\ ClearInv /\ GoneInv

-----------------------------------------------------------------------------
(* Beside the cleanup *)

\* A module is replaced for as long as nobody moves its Project.
LEMMA EnvironmentReplaces ==
  ASSUME TypeOK, Environment, NEW m \in Module, Replaced(m)
  PROVE  Replaced(m)'
<1> USE DEF history, bounds, refs, plugin, Replaced
<1>1. ASSUME UNCHANGED <<proj, row, touched>>
      PROVE  Replaced(m)'
  BY <1>1
<1>2. ASSUME NEW p \in Project, Judge(p)
      PROVE  Replaced(m)'
  <2>1. /\ \A q \in Project : proj'[q].present = proj[q].present
        /\ UNCHANGED <<row, touched>>
    BY <1>2 DEF Judge, TypeOK, ProjectRows, ProjectRow
  <2> QED
    BY <2>1, MigrationConstants
<1>3. ASSUME NEW p \in Project, MoveProject(p)
      PROVE  Replaced(m)'
  <2>1. touched' = touched \cup {p}
    BY <1>3 DEF MoveProject
  <2>2. CASE ProjectOf[m] = p
    BY <2>1, <2>2
  <2>3. CASE ProjectOf[m] # p
    <3>1. proj'[ProjectOf[m]] = proj[ProjectOf[m]]
      BY <1>3, <2>3, MigrationConstants DEF MoveProject, Promote, TypeOK
    <3>2. \A s \in Within(m) : row'[s] = row[s]
      BY <1>3, <2>3 DEF MoveProject, Promote, Synchronized, Within, Mine, TypeOK
    <3> QED
      BY <2>1, <3>1, <3>2
  <2> QED
    BY <2>2, <2>3
<1> QED
  BY <1>1, <1>2, <1>3 DEF Environment, Submit, Queue, NeverQueued, Take, StartRun,
     RefuseRun, EndRun, SaveSuccessor, FreeWorker, WorkerDies, DeleteJob, RequeueJob, WriteRule

\* A Job that is there comes under no module it was not under, short of somebody
\* deleting or requeueing it.
LEMMA EnvironmentUnder ==
  ASSUME TypeOK, Environment, NEW m \in Module, NEW j \in Job,
         job[j].status # "absent", j \notin tampered', j \in JobsUnder(m)'
  PROVE  j \in JobsUnder(m)
<1> USE DEF history, bounds, refs, plugin
<1>0. \A k \in Job : job[k] \in JobRow
  BY DEF TypeOK
<1> SUFFICES ASSUME job[j].status = "gone" \/ ~job[j].legacy
             PROVE  job'[j].status = "gone" \/ ~job'[j].legacy
  BY DEF JobsUnder, LegacyJobs
<1>1. ASSUME job' = job
      PROVE  job'[j].status = "gone" \/ ~job'[j].legacy
  BY <1>1
<1>2. ASSUME NEW k \in Job, k # j \/ k \in tampered', NEW e, job' = [job EXCEPT ![k] = e]
      PROVE  job'[j].status = "gone" \/ ~job'[j].legacy
  BY <1>2 DEF TypeOK
<1>3. ASSUME \/ Submit(j) \/ Queue(j) \/ NeverQueued(j) \/ Take(j) \/ StartRun(j)
             \/ RefuseRun(j) \/ EndRun(j) \/ FreeWorker(j)
      PROVE  job'[j].status = "gone" \/ ~job'[j].legacy
  <2>1. CASE Submit(j)
    BY <2>1 DEF Submit
  <2>2. CASE Queue(j) \/ NeverQueued(j) \/ Take(j)
    BY <1>0, <2>2 DEF TypeOK, Queue, NeverQueued, Take, SetJob, JobRow
  <2>3. CASE StartRun(j)
    BY <1>0, <2>3 DEF TypeOK, StartRun, MayStart, SetJob, JobRow
  <2>4. CASE RefuseRun(j) \/ FreeWorker(j)
    BY <1>0, <2>4 DEF TypeOK, RefuseRun, FreeWorker, SetJob, JobRow
  <2>5. CASE EndRun(j)
    BY <1>0, <2>5 DEF TypeOK, EndRun, SetJob, JobRow
  <2> QED
    BY <1>3, <2>1, <2>2, <2>3, <2>4, <2>5
<1>4. ASSUME NEW k \in Job, SaveSuccessor(k) \/ WorkerDies(k)
      PROVE  job'[j].status = "gone" \/ ~job'[j].legacy
  <2>1. CASE SaveSuccessor(k)
    <3>1. job[Successor[k]].status = "absent" /\ SetJob(Successor[k], Fresh("owed"))
      BY <2>1 DEF SaveSuccessor
    <3> QED
      BY <3>1 DEF SetJob, TypeOK
  <2>2. CASE WorkerDies(k)
    BY <1>0, <2>2 DEF WorkerDies, JobRow
  <2> QED
    BY <1>4, <2>1, <2>2
<1>5. ASSUME NEW k \in Job, DeleteJob(k) \/ RequeueJob(k)
      PROVE  job'[j].status = "gone" \/ ~job'[j].legacy
  <2>1. k \in tampered'
    BY <1>5 DEF DeleteJob, RequeueJob
  <2> QED
    BY <1>2, <1>5, <2>1 DEF DeleteJob, RequeueJob, SetJob
<1>6. ASSUME NEW k \in Job, k # j,
             \/ Submit(k) \/ Queue(k) \/ NeverQueued(k) \/ Take(k) \/ StartRun(k)
             \/ RefuseRun(k) \/ EndRun(k) \/ FreeWorker(k)
      PROVE  job'[j].status = "gone" \/ ~job'[j].legacy
  BY <1>2, <1>6 DEF Submit, Queue, NeverQueued, Take, StartRun, RefuseRun, EndRun,
                    FreeWorker, SetJob
<1>7. ASSUME NEW p \in Project, Judge(p) \/ MoveProject(p)
      PROVE  job' = job
  BY <1>7 DEF Judge, MoveProject
<1>8. ASSUME NEW r \in Rule, WriteRule(r)
      PROVE  job' = job
  BY <1>8 DEF WriteRule
<1> QED
  BY <1>1, <1>3, <1>4, <1>5, <1>6, <1>7, <1>8 DEF Environment

\* A rule somebody writes is none the fence captured.
LEMMA EnvironmentRules ==
  ASSUME TypeOK, GoneInv, Environment
  PROVE  /\ GoneInv'
         /\ \A r \in Rule : \/ rule'[r] = rule[r] \/ journal.rule[r] = "absent"
<1> USE DEF history, bounds, refs, plugin
<1>1. UNCHANGED <<module, journal>>
  BY EnvironmentMoves DEF Environment, Submit, Queue, NeverQueued, Take, StartRun,
     RefuseRun, EndRun, SaveSuccessor, FreeWorker, WorkerDies, DeleteJob, RequeueJob, Judge, MoveProject, WriteRule
<1>2. CASE UNCHANGED rule
  BY <1>1, <1>2 DEF GoneInv
<1>3. ASSUME NEW r \in Rule, WriteRule(r)
      PROVE  /\ GoneInv'
             /\ \A q \in Rule : \/ rule'[q] = rule[q] \/ journal.rule[q] = "absent"
  <2>1. /\ journal.rule[r] = "absent" /\ rule'[r].action = "legacy"
        /\ \A q \in Rule \ {r} : rule'[q] = rule[q]
    BY <1>3 DEF WriteRule, GoneInv, TypeOK
  <2> QED
    BY <1>1, <2>1 DEF GoneInv
<1> QED
  BY <1>2, <1>3 DEF Environment, Submit, Queue, NeverQueued, Take, StartRun,
     RefuseRun, EndRun, SaveSuccessor, FreeWorker, WorkerDies, DeleteJob, RequeueJob, Judge, MoveProject

LEMMA EnvironmentDeletion ==
  ASSUME TypeOK, LedgerInv, DeletionInv, Environment
  PROVE  DeletionInv'
<1> USE DEF DeletionInv
<1>1. UNCHANGED <<module, journal, pass>>
  BY EnvironmentMoves DEF Environment, Submit, Queue, NeverQueued, Take, StartRun,
     RefuseRun, EndRun, SaveSuccessor, FreeWorker, WorkerDies, DeleteJob, RequeueJob, Judge, MoveProject, WriteRule,
     history, bounds, refs, plugin
<1>2. KeptInv'
  <2>1. \A m \in Module : Replaced(m) => Replaced(m)'
    BY EnvironmentReplaces
  <2>2. module \subseteq Module
    BY DEF TypeOK
  <2> QED
    BY <1>1, <2>1, <2>2 DEF KeptInv
<1>3. GoneInv' /\ \A r \in Rule : rule'[r] = rule[r] \/ journal.rule[r] = "absent"
  BY EnvironmentRules
<1>4. ASSUME NEW m \in Module, Clear(m)
      PROVE  Clear(m)'
  <2>1. tampered \subseteq tampered'
    BY EnvironmentMoves DEF JobsMove, AllStill, Begins, Starts, Ends, Tampers
  <2>2. \A j \in CapturedJobs : j \in Job /\ job[j].status # "absent"
    BY DEF CapturedJobs, LedgerInv, JournalInv, Tells
  <2>3. CapturedJobs' = CapturedJobs
    BY <1>1 DEF CapturedJobs
  <2>4. JobsUnder(m)' \cap CapturedJobs' \subseteq tampered'
    BY <1>4, <2>1, <2>2, <2>3, EnvironmentUnder DEF Clear
  <2>5. \A r \in RulesUnder(m)' : journal'.rule[r] = "absent"
    BY <1>1, <1>3, <1>4 DEF Clear, RulesUnder
  <2> QED
    BY <2>4, <2>5 DEF Clear
<1>5. ClearInv'
  BY <1>1, <1>4 DEF ClearInv
<1> QED
  BY <1>2, <1>3, <1>5

-----------------------------------------------------------------------------
(* The other passes *)

\* No cleanup is under way, and captured rules stay captured and there.
Aside ==
    /\ pass'.pc \notin Cleaning /\ module' = module
    /\ \A r \in Rule : rule'[r].action = "absent" =>
          /\ rule[r].action = "absent"
          /\ rule[r].watches = "none" =>
                /\ rule'[r].watches = "none"
                /\ journal.rule[r] = "absent" => journal'.rule[r] = "absent"

LEMMA AsideKeeps ==
  ASSUME DeletionInv, Aside
  PROVE  DeletionInv'
BY DEF DeletionInv, KeptInv, ClearInv, GoneInv, Aside, Cleaning

LEMMA KeptAside ==
  ASSUME UNCHANGED <<rule, module>>, journal'.rule = journal.rule, pass'.pc \notin Cleaning
  PROVE  Aside
BY DEF Aside

LEMMA StagingAside ==
  ASSUME TypeOK, Staging \/ PassDies
  PROVE  Aside
<1> USE DEF Elsewhere, refs, Cleaning
<1>1. CASE EnterStaging \/ EndStaging \/ PassDies
  <2>1. UNCHANGED <<rule, module, journal>>
    BY <1>1 DEF EnterStaging, EndStaging, PassDies
  <2>2. pass'.pc \in {"stage", "idle"}
    BY <1>1, RestPc DEF EnterStaging, EndStaging, PassDies, Leave, Begin, Rest
  <2> QED
    BY <2>1, <2>2, KeptAside
<1>2. ASSUME NEW p \in Project, StageProject(p)
      PROVE  Aside
  BY <1>2, KeptAside DEF StageProject, At, TypeOK, Pass
<1> QED
  BY <1>1, <1>2 DEF Staging

LEMMA CutoverAside ==
  ASSUME TypeOK, GoneInv, EnterCutover \/ CutoverSteps
  PROVE  Aside
<1> USE DEF Elsewhere, refs, Cleaning
<1>0. /\ journal \in Journal /\ pass \in Pass /\ rule \in [Rule -> RuleRow]
  BY DEF TypeOK
<1>1. CASE EnterCutover \/ CompleteCutover
  <2>1. UNCHANGED <<rule, module, journal>>
    BY <1>1 DEF EnterCutover, CompleteCutover
  <2>2. pass'.pc \in {"check", "idle"}
    BY <1>1, RestPc DEF EnterCutover, CompleteCutover, Leave, Begin, Rest
  <2> QED
    BY <2>1, <2>2, KeptAside
<1>2. CASE CheckRunning
  <2>1. pass'.pc \in {"gate", "idle"}
    BY <1>2, GotoPc, RestPc DEF CheckRunning, Leave
  <2>2. journal'.rule = journal.rule
    BY <1>0, <1>2 DEF CheckRunning, Journal
  <2> QED
    BY <1>2, <2>1, <2>2, KeptAside DEF CheckRunning
<1>3. CASE CheckServable \/ CheckUnfinished
  <2>1. pass'.pc \in {"capture", "complete", "idle"}
    BY <1>3, GotoPc, RestPc DEF CheckServable, CheckUnfinished, Leave
  <2> QED
    BY <1>3, <2>1, KeptAside DEF CheckServable, CheckUnfinished
\* A rule that is gone names nothing built in, so it is not captured.
<1>4. CASE Capture
  <2>1. pass'.pc = "advance"
    BY <1>4, GotoPc DEF Capture
  <2>2. ASSUME NEW r \in Rule, rule[r].action = "absent", rule[r].watches = "none",
               journal.rule[r] = "absent"
        PROVE  journal'.rule[r] = "absent"
    <3>1. r \notin LegacyRules
      BY <2>2 DEF LegacyRules
    <3>2. journal'.rule[r] = Recorded(journal.rule[r], Flag(rule[r].enabled), r \in LegacyRules)
      BY <1>0, <1>4 DEF Capture, Journal
    <3> QED
      BY <2>2, <3>1, <3>2 DEF Recorded
  <2> QED
    BY <1>4, <2>1, <2>2 DEF Capture, Aside
<1>5. CASE AdvanceToCutover \/ ClosePermissions \/ DropSync
  <2>1. pass'.pc \in {"perms", "rules", "finish"}
    BY <1>5, GotoPc DEF AdvanceToCutover, ClosePermissions, DropSync
  <2> QED
    BY <1>5, <2>1, KeptAside DEF AdvanceToCutover, ClosePermissions, DropSync
<1>6. CASE CloseRules
  <2>1. pass'.pc = "cancel"
    BY <1>0, <1>6 DEF CloseRules, Pass
  <2>2. \A r \in Rule : rule'[r].action = rule[r].action /\ rule'[r].watches = rule[r].watches
    BY <1>0, <1>6 DEF CloseRules, RuleRow
  <2> QED
    BY <1>6, <2>1, <2>2 DEF CloseRules, Aside
<1>7. CASE RecordOutcomes \/ RecordSynced
  <2>1. pass'.pc \in {"list", "drop"}
    BY <1>7, GotoPc DEF RecordOutcomes, RecordSynced
  <2>2. journal'.rule = journal.rule
    BY <1>0, <1>7 DEF RecordOutcomes, RecordSynced, Journal
  <2> QED
    BY <1>7, <2>1, <2>2, KeptAside DEF RecordOutcomes, RecordSynced
<1>8. ASSUME NEW j \in Job, CancelEntry(j)
      PROVE  Aside
  <2>1. pass'.pc \in {"cancel", "revoke"}
    BY <1>0, <1>8 DEF CancelEntry, CancelResolve, Journaled, Noted, Pass
  <2>2. journal'.rule = journal.rule
    BY <1>0, <1>8 DEF CancelEntry, CancelResolve, Journaled, Journal
  <2> QED
    BY <1>8, <2>1, <2>2, KeptAside DEF CancelEntry, CancelResolve
<1>9. ASSUME NEW j \in Job, RevokeTask(j) \/ FailJob(j)
      PROVE  Aside
  <2>1. pass'.pc \in {"fail", "record", "reread"}
    BY <1>9, GotoPc DEF RevokeTask, FailJob
  <2> QED
    BY <1>9, <2>1, KeptAside DEF RevokeTask, FailJob
<1>10. ASSUME NEW j \in Job, RecordCancelled(j) \/ RereadJob(j)
       PROVE  Aside
  <2>1. pass'.pc = "cancel"
    BY <1>0, <1>10 DEF RecordCancelled, RereadJob, Journaled, Noted, Pass
  <2>2. journal'.rule = journal.rule
    BY <1>0, <1>10 DEF RecordCancelled, RereadJob, Journaled, Journal
  <2> QED
    BY <1>10, <2>1, <2>2, KeptAside DEF RecordCancelled, RereadJob
<1> QED
  BY <1>1, <1>2, <1>3, <1>4, <1>5, <1>6, <1>7, <1>8, <1>9, <1>10 DEF CutoverSteps

LEMMA ActivationAside ==
  ASSUME TypeOK, Activation
  PROVE  Aside
<1> USE DEF Elsewhere, refs, Cleaning
<1>0. journal \in Journal /\ pass \in Pass
  BY DEF TypeOK
<1>1. CASE EnterActivation
  BY <1>1, KeptAside DEF EnterActivation, Begin, Rest
<1>2. ASSUME NEW p \in Project, ActivateProject(p)
      PROVE  Aside
  <2>1. pass'.pc = "activate"
    BY <1>0, <1>2 DEF ActivateProject, At, Pass
  <2> QED
    BY <1>2, <2>1, KeptAside DEF ActivateProject
<1>3. CASE CompleteActivation
  <2>1. journal'.rule = journal.rule
    BY <1>0, <1>3 DEF CompleteActivation, Journal
  <2> QED
    BY <1>3, <2>1, RestPc, KeptAside DEF CompleteActivation, Leave
<1> QED
  BY <1>1, <1>2, <1>3 DEF Activation

LEMMA ReferencesAside ==
  ASSUME TypeOK, References
  PROVE  Aside
<1> USE DEF Elsewhere, refs, Cleaning, At
<1>0. journal \in Journal /\ pass \in Pass /\ rule \in [Rule -> RuleRow]
  BY DEF TypeOK
<1>1. CASE EnterReferences
  BY <1>1, KeptAside DEF EnterReferences, Begin, Rest
<1>2. CASE BeginRules \/ BeginHistory \/ BeginSchedules
  <2>1. pass'.pc \in {"idle", "grants", "repoint", "schedules", "move", "replay"}
    BY <1>2, GotoPc, RestPc, ResolvePc DEF BeginRules, BeginHistory, BeginSchedules, Leave
  <2> QED
    BY <1>2, <2>1, KeptAside DEF BeginRules, BeginHistory, BeginSchedules
<1>3. CASE EndRules \/ EndPermissions \/ EndHistory \/ EndSchedules
  <2>1. pass'.pc \in {"grants", "history", "schedules", "idle"}
    BY <1>3, GotoPc, RestPc DEF EndRules, EndPermissions, EndHistory, EndSchedules, Leave
  <2> QED
    BY <1>3, <2>1, KeptAside DEF EndRules, EndPermissions, EndHistory, EndSchedules
<1>4. CASE BeginPermissions
  <2>1. pass'.pc \in {"history", "swap"}
    <3>1. CASE Done("permissions")
      BY <1>4, <3>1, GotoPc DEF BeginPermissions
    <3>2. CASE ~Done("permissions")
      BY <1>4, <3>2 DEF BeginPermissions, Begin, Rest
    <3> QED
      BY <3>1, <3>2
  <2> QED
    BY <1>4, <2>1, KeptAside DEF BeginPermissions
<1>5. ASSUME NEW r \in Rule, RepointRule(r)
      PROVE  Aside
  <2>1. pass'.pc = "repoint" /\ UNCHANGED <<module, journal>>
    BY <1>5, FinishedPc DEF RepointRule
  <2>2. \/ UNCHANGED rule
        \/ /\ rule[r].action # "absent"
           /\ \E moved \in BOOLEAN : rule' = [rule EXCEPT ![r] = Repointed(r, moved)]
    BY <1>5 DEF RepointRule
  <2>3. \A moved \in BOOLEAN : rule[r].action # "absent" => Repointed(r, moved).action # "absent"
    BY DEF Repointed
  <2> QED
    BY <1>0, <2>1, <2>2, <2>3 DEF Aside
<1>6. ASSUME NEW q \in Perm, MovePermission(q)
      PROVE  Aside
  <2>1. pass'.pc = "swap" /\ UNCHANGED <<module, rule>>
    BY <1>6, FinishedPc DEF MovePermission
  <2>2. journal' = journal \/ journal' = [journal EXCEPT !.split = @ \cup {q}]
    BY <1>6 DEF MovePermission, Swapped, SplitOff
  <2>3. journal'.rule = journal.rule
    BY <1>0, <2>2 DEF Journal
  <2> QED
    BY <2>1, <2>3, KeptAside
<1>7. ASSUME NEW s \in Script, MoveHistory(s)
      PROVE  Aside
  <2>1. pass'.pc = "move"
    BY <1>7, FinishedPc DEF MoveHistory
  <2> QED
    BY <1>7, <2>1, KeptAside DEF MoveHistory
<1>8. ASSUME NEW j \in Job, ReplayEntry(j)
      PROVE  Aside
  <2>1. pass'.pc \in {"replay", "enqueue"}
    BY <1>0, <1>8, FinishedPc DEF ReplayEntry, Pass
  <2> QED
    BY <1>8, <2>1, KeptAside DEF ReplayEntry
<1>9. ASSUME NEW j \in Job, Recreate(j)
      PROVE  Aside
  <2>1. pass'.pc = "handoff"
    BY <1>9, GotoPc DEF Recreate
  <2>2. journal'.rule = journal.rule
    BY <1>0, <1>9 DEF Recreate, RecordCopy, Journal
  <2> QED
    BY <1>9, <2>1, <2>2, KeptAside DEF Recreate
<1>10. ASSUME NEW j \in Job, HandOver(j)
       PROVE  Aside
  <2>1. pass'.pc = "replay"
    BY <1>0, <1>10 DEF HandOver, Pass
  <2> QED
    BY <1>10, <2>1, KeptAside DEF HandOver
<1> QED
  BY <1>1, <1>2, <1>3, <1>4, <1>5, <1>6, <1>7, <1>8, <1>9, <1>10 DEF References

-----------------------------------------------------------------------------
(* The cleanup *)

LEMMA CleanupBegins ==
  ASSUME TypeOK, DeletionInv, BeginCleanup \/ EndCleanup
  PROVE  DeletionInv'
<1> USE DEF Elsewhere, refs, plugin, history, bounds, DeletionInv
<1>1. UNCHANGED <<module, rule, journal>>
  BY DEF BeginCleanup, EndCleanup
<1>2. GoneInv'
  BY <1>1 DEF GoneInv
<1>3. CASE BeginCleanup
  <2>1. /\ pass'.pc = "modules" /\ pass'.kept = {m \in module : Stranded(m)}
        /\ UNCHANGED <<proj, row>>
    BY <1>3 DEF BeginCleanup, Rest
  <2>2. KeptInv'
    BY <1>1, <2>1 DEF KeptInv, Stranded, Replaced
  <2>3. ClearInv'
    BY <2>1 DEF ClearInv
  <2> QED
    BY <1>2, <2>2, <2>3
<1>4. CASE EndCleanup
  BY <1>2, <1>4, RestPc DEF EndCleanup, Leave, KeptInv, ClearInv, Cleaning
<1> QED
  BY <1>3, <1>4

LEMMA CleanupJudges ==
  ASSUME TypeOK, DeletionInv, NEW m \in Module, CheckModule(m)
  PROVE  DeletionInv'
<1> USE DEF Elsewhere, refs, plugin, history, bounds, DeletionInv
<1>0. /\ UNCHANGED <<module, rule, journal, job, proj, row, touched, tampered>>
      /\ pass.pc = "modules" /\ pass \in Pass
  BY DEF CheckModule, At, TypeOK
<1>1. GoneInv'
  BY <1>0 DEF GoneInv
<1>2. pass'.kept = pass.kept
  BY <1>0 DEF CheckModule, Finished, Pass
<1>3. KeptInv'
  BY <1>0, <1>2 DEF KeptInv, Cleaning, Replaced
<1>4. CASE \E held \in BOOLEAN : Finished(m, held)
  <2>1. pass'.pc = "modules"
    BY <1>0, <1>4 DEF Finished, Pass
  <2> QED
    BY <1>1, <1>3, <2>1 DEF ClearInv
<1>5. CASE MayGo(m) /\ pass' = [pass EXCEPT !.pc = "delete", !.at = m]
  <2>1. pass'.at = m
    BY <1>0, <1>5 DEF Pass
  <2>2. m \notin pass.kept /\ Clear(m)
    BY <1>5 DEF MayGo, Clear
  <2>3. Clear(m)'
    BY <1>0, <2>2 DEF Clear, JobsUnder, LegacyJobs, RulesUnder, CapturedJobs
  <2>4. ClearInv'
    BY <1>2, <2>1, <2>2, <2>3 DEF ClearInv
  <2> QED
    BY <1>1, <1>3, <2>4
<1> QED
  BY <1>4, <1>5 DEF CheckModule, HeldForGood

LEMMA CleanupDeletes ==
  ASSUME TypeOK, DeletionInv, NEW m \in Module, DeleteModule(m)
  PROVE  DeletionInv'
<1> USE DEF refs, plugin, history, bounds, DeletionInv
<1>0. /\ UNCHANGED <<journal, proj, row, touched, tampered>>
      /\ pass.pc = "delete" /\ pass \in Pass /\ module' = module \ {m}
  BY DEF DeleteModule, At, TypeOK
<1>1. pass'.pc = "modules" /\ pass'.kept = pass.kept
  BY <1>0 DEF DeleteModule, Pass
<1>2. KeptInv'
  BY <1>0, <1>1 DEF KeptInv, Cleaning, Replaced
<1>3. ClearInv'
  BY <1>1 DEF ClearInv
<1>4. GoneInv'
  <2>1. \A r \in RulesUnder(m) : RuleNames[r] \in Target /\ Home(RuleNames[r]) = m
    BY MigrationConstants DEF RulesUnder, Within, Target, Home
  <2>2. \A r \in Rule : rule'[r] = IF r \in RulesUnder(m)
             THEN [enabled |-> FALSE, action |-> "absent", watches |-> "none"]
             ELSE rule[r]
    BY DEF DeleteModule
  <2> QED
    BY <1>0, <2>1, <2>2 DEF GoneInv
<1> QED
  BY <1>2, <1>3, <1>4

-----------------------------------------------------------------------------
(* Together *)

LEMMA DeletionInit == Init => DeletionInv
<1> SUFFICES ASSUME Init PROVE DeletionInv
  OBVIOUS
<1>1. pass.pc = "idle"
  BY DEF Init, Rest
<1>2. GoneInv
  <2>1. \A r \in Rule : FirstRule(r).action # "absent"
    BY DEF FirstRule
  <2> QED
    BY <2>1 DEF Init, Unrecorded, GoneInv
<1> QED
  BY <1>1, <1>2 DEF DeletionInv, KeptInv, ClearInv, Cleaning

LEMMA DeletionStep ==
  TypeOK /\ LedgerInv /\ DeletionInv /\ [Next]_vars => DeletionInv'
<1> SUFFICES ASSUME TypeOK, LedgerInv, DeletionInv, [Next]_vars PROVE DeletionInv'
  OBVIOUS
<1>1. CASE UNCHANGED vars
  BY <1>1 DEF vars, history, refs, plugin, DeletionInv, KeptInv, ClearInv, GoneInv,
     Replaced, Clear, JobsUnder, LegacyJobs, RulesUnder, CapturedJobs
<1>2. CASE Environment
  BY <1>2, EnvironmentDeletion
<1>3. CASE Cleanup
  BY <1>3, CleanupBegins, CleanupJudges, CleanupDeletes DEF Cleanup
<1>4. CASE EnterCutover \/ Staging \/ CutoverSteps \/ Activation \/ References \/ PassDies
  BY <1>4, StagingAside, CutoverAside, ActivationAside, ReferencesAside, AsideKeeps
     DEF DeletionInv
<1> QED
  BY <1>1, <1>2, <1>3, <1>4 DEF Next, Passes

\* What the cleanup judged of a module holds until it deletes it.
THEOREM DeletionCorrect == Spec => []DeletionInv
<1>1. /\ TypeOK /\ LedgerInv /\ DeletionInv /\ [Next]_vars
        => (TypeOK /\ LedgerInv /\ DeletionInv)'
  BY TypeStep, LedgerStep, DeletionStep
<1> QED
  BY <1>1, InitTypes, LedgerInit, DeletionInit, PTL DEF Spec

\* Only the deletion of a module takes one away.
LEMMA OnlyDeletions ==
  ASSUME TypeOK, DeletionInv, [Next]_vars, NEW m \in module, m \notin module'
  PROVE  DeleteModule(m)
<1> USE DEF refs, plugin, history, bounds, Elsewhere
<1>1. CASE UNCHANGED vars
  BY <1>1 DEF vars
<1>2. CASE Environment
  BY <1>2 DEF Environment, Submit, Queue, NeverQueued, Take, StartRun,
     RefuseRun, EndRun, SaveSuccessor, FreeWorker, WorkerDies, DeleteJob, RequeueJob, Judge, MoveProject, WriteRule
<1>3. CASE EnterCutover \/ Staging \/ CutoverSteps \/ Activation \/ References \/ PassDies
  BY <1>3, StagingAside, CutoverAside, ActivationAside, ReferencesAside
     DEF DeletionInv, Aside
<1>4. CASE Cleanup
  BY <1>4 DEF Cleanup, BeginCleanup, EndCleanup, CheckModule, DeleteModule
<1> QED
  BY <1>1, <1>2, <1>3, <1>4 DEF Next, Passes

\* retire_legacy deletes no module a captured Job or rule still comes under,
\* whatever was queued or written since it looked.
THEOREM DeletionSpares == Spec => DeletionSparesCaptured
<1>1. TypeOK /\ DeletionInv /\ [Next]_vars =>
        [\A m \in module \ module' :
           /\ JobsUnder(m) \cap CapturedJobs \subseteq tampered
           /\ \A r \in RulesUnder(m) : journal.rule[r] = "absent"]_vars
  <2> SUFFICES ASSUME TypeOK, DeletionInv, [Next]_vars, NEW m \in module \ module'
               PROVE  Clear(m)
    BY DEF Clear
  <2>1. DeleteModule(m) /\ m \in Module
    BY OnlyDeletions DEF TypeOK
  <2> QED
    BY <2>1 DEF DeletionInv, ClearInv, DeleteModule, At
<1> QED
  BY <1>1, TypeCorrect, DeletionCorrect, PTL DEF Spec, DeletionSparesCaptured

\* It deletes none a Script needs to run, unless somebody moved its Project under
\* it or had deleted it before.
THEOREM LastCopyStays == Spec => RunnableSomewhere
<1>1. TypeOK /\ DeletionInv /\ [Next]_vars =>
        [\A m \in module \ module' :
           \/ ProjectOf[m] \in touched \/ ~proj[ProjectOf[m]].present
           \/ \A s \in Within(m) \cap Mapped : row[s] = "live"]_vars
  <2> SUFFICES ASSUME TypeOK, DeletionInv, [Next]_vars, NEW m \in module \ module'
               PROVE  Replaced(m)
    BY DEF Replaced
  <2>1. DeleteModule(m) /\ m \in Module
    BY OnlyDeletions DEF TypeOK
  <2> QED
    BY <2>1 DEF DeletionInv, ClearInv, KeptInv, Cleaning, DeleteModule, At
<1> QED
  BY <1>1, TypeCorrect, DeletionCorrect, PTL DEF Spec, RunnableSomewhere

-----------------------------------------------------------------------------
(* What the fence captured comes back *)

\* The fence is behind, or at the statements that follow CloseRules.
Fenced == pass.pc \in CancelPcs \cup FinalPcs \/ Done("cutover")

KnownRules == {r \in Rule : journal.rule[r] # "absent"}
KnownPerms == {q \in Perm : journal.perm[q] # "absent"}

\* What is deregistered is named before it goes.
SyncInv ==
    /\ pass.pc = "drop" => journal.listed
    /\ IF journal.listed THEN journal.synced = Module ELSE autosync = Module

\* Nothing is closed before the capture, so the capture read what was written.
CapturedInv ==
    /\ pass.pc \in {"advance", "perms", "rules"} \/ Fenced => journal.frozen
    /\ \A r \in Rule : rule[r].enabled => r \notin Disabled
    /\ ~journal.frozen =>
          /\ \A r \in Rule : rule[r].action # "absent" => rule[r].enabled = (r \notin Disabled)
          /\ \A q \in Perm : perm[q].enabled = (q \notin Disabled)
    /\ \A r \in KnownRules : journal.rule[r] = Flag(r \notin Disabled)
    /\ \A q \in KnownPerms : journal.perm[q] = Flag(q \notin Disabled)

\* A captured rule the fence closed opens only once it names the plugin.
ClosedInv ==
    Fenced => \A r \in KnownRules : ~(rule[r].enabled /\ rule[r].action = "legacy")

\* A rule a replay is possible for, back as it was written.
RuleBack(r) ==
    rule[r].action # "absent" /\ RuleNames[r] \in Mapped \cup {Nothing}
       => rule[r].enabled = (r \notin Disabled)

\* Unless the step stays open, every rule gone through is back.
RulesInv ==
    /\ \A r \in Rule : RuleNames[r] = Nothing => rule[r].action \in {"absent", "none"}
    /\ pass.pc = "repoint" /\ ~pass.open => \A r \in KnownRules \ pass.todo : RuleBack(r)
    /\ Done("rules") => Done("cutover") /\ \A r \in KnownRules : RuleBack(r)

SplitBack(q) ==
    perm[q] = [enabled |-> q \notin Disabled, types |-> {"other"},
               sibling |-> Flag(q \notin Disabled), siblings |-> 1]

PermBack(q) ==
    CASE Kind[q] = "swap" -> /\ perm[q].types = {"plugin"}
                             /\ perm[q].enabled = (q \notin Disabled)
      [] Kind[q] = "split" -> q \in journal.split
      [] OTHER -> TRUE

\* A grant is split once, with its journal entry, and one that cannot move
\* stays withdrawn.
PermsInv ==
    /\ \A q \in journal.split : Kind[q] = "split" /\ SplitBack(q)
    /\ \A q \in Perm \ journal.split :
          Kind[q] = "split" => perm[q].types = {"legacy", "other"} /\ perm[q].siblings = 0
    /\ journal.split # {} => Done("cutover")
    /\ pass.pc = "rules" \/ Fenced =>
          \A q \in KnownPerms : Kind[q] \in {"swap", "split"} \/ ~perm[q].enabled
    /\ pass.pc = "swap" => /\ pass.todo \subseteq KnownPerms
                           /\ \A q \in KnownPerms \ pass.todo : PermBack(q)
    /\ Done("permissions") => Done("cutover") /\ \A q \in KnownPerms : PermBack(q)

RestoreInv == SyncInv /\ CapturedInv /\ ClosedInv /\ RulesInv /\ PermsInv
\* A step that leaves what the fence closed, and what it knows of it, alone.
Restoring == {"drop", "advance", "perms", "rules", "repoint", "swap"}

SameJournal ==
    /\ journal'.frozen = journal.frozen
    /\ journal'.rule = journal.rule /\ journal'.perm = journal.perm
    /\ journal'.listed = journal.listed /\ journal'.synced = journal.synced
    /\ journal'.split = journal.split

Undisturbed ==
    /\ UNCHANGED <<rule, perm, autosync>> /\ SameJournal
    /\ Done("cutover") => Done("cutover")'
    /\ Done("rules")' => Done("rules")
    /\ Done("permissions")' => Done("permissions")
    /\ pass' = pass \/ pass'.pc \notin Restoring
    /\ Fenced' => Fenced

LEMMA UndisturbedKeeps ==
  ASSUME RestoreInv, Undisturbed
  PROVE  RestoreInv'
<1> USE DEF RestoreInv, Undisturbed, SameJournal, Restoring
<1>1. KnownRules' = KnownRules /\ KnownPerms' = KnownPerms
  BY DEF KnownRules, KnownPerms
<1>2. SyncInv'
  BY DEF SyncInv
<1>3. CapturedInv'
  BY <1>1 DEF CapturedInv
<1>4. ClosedInv'
  BY <1>1 DEF ClosedInv
<1>5. \A r : RuleBack(r)' <=> RuleBack(r)
  BY DEF RuleBack
<1>6. RulesInv'
  BY <1>1, <1>5 DEF RulesInv
<1>7. \A q : /\ SplitBack(q)' <=> SplitBack(q)
             /\ PermBack(q)' <=> PermBack(q)
  BY DEF SplitBack, PermBack
<1>8. PermsInv'
  BY <1>1, <1>7 DEF PermsInv
<1> QED
  BY <1>2, <1>3, <1>4, <1>6, <1>8

\* Plain steps enter the fence's end only from it, and record no step but those named.
LEMMA CalmWalks ==
  ASSUME TypeOK, PhaseInv, Walks, UNCHANGED <<rule, perm, autosync>>, SameJournal,
         pass'.pc \notin Restoring,
         Done("rules")' => Done("rules"), Done("permissions")' => Done("permissions")
  PROVE  Undisturbed
BY DEF Walks, Undisturbed, Fenced, Done

LEMMA SameStays ==
  ASSUME UNCHANGED journal
  PROVE  SameJournal
BY DEF SameJournal

LEMMA EntrySame ==
  ASSUME TypeOK, NEW f, journal' = [journal EXCEPT !.job = f]
  PROVE  SameJournal
BY DEF TypeOK, Journal, SameJournal

LEMMA StagingCalm ==
  ASSUME TypeOK, PhaseInv, Staging \/ PassDies \/ EnterCutover
  PROVE  Undisturbed
<1> USE DEF refs, plugin, history, bounds, Elsewhere, Restoring
<1>0. pass \in Pass /\ run \in RunRow /\ Walks
  BY StagingWalks DEF TypeOK
<1>1. UNCHANGED <<rule, perm, autosync, journal>> /\ run'.steps = run.steps
  BY <1>0 DEF Staging, EnterStaging, EndStaging, StageProject, PassDies, EnterCutover, RunRow
<1>2. pass'.pc \in {"idle", "stage", "check"}
  <2>1. ASSUME NEW p \in Project, StageProject(p)
        PROVE  pass'.pc = "stage"
    BY <1>0, <2>1 DEF StageProject, At, Pass
  <2> QED
    BY <2>1, RestPc DEF Staging, EnterStaging, EndStaging, PassDies, EnterCutover, Leave,
       Begin, Rest
<1> QED
  BY <1>0, <1>1, <1>2, CalmWalks, SameStays DEF Done

LEMMA ActivationCalm ==
  ASSUME TypeOK, PhaseInv, Activation
  PROVE  Undisturbed
<1> USE DEF refs, plugin, history, bounds, Elsewhere, Restoring
<1>0. pass \in Pass /\ run \in RunRow /\ journal \in Journal /\ Walks
  BY ActivationWalks DEF TypeOK
<1>1. UNCHANGED <<rule, perm, autosync>> /\ SameJournal
  <2>1. CASE CompleteActivation
    BY <1>0, <2>1 DEF CompleteActivation, Journal, SameJournal
  <2> QED
    BY <2>1, SameStays DEF Activation, EnterActivation, ActivateProject
<1>2. run'.steps = run.steps \/ run'.steps = run.steps \cup {"activate"}
  BY CompletesStep DEF Activation, EnterActivation, ActivateProject, CompleteActivation
<1>3. pass'.pc \in {"idle", "activate"}
  <2>1. ASSUME NEW p \in Project, ActivateProject(p)
        PROVE  pass'.pc = "activate"
    BY <1>0, <2>1 DEF ActivateProject, At, Pass
  <2> QED
    BY <2>1, RestPc DEF Activation, EnterActivation, CompleteActivation, Leave, Begin, Rest
<1> QED
  BY <1>0, <1>1, <1>2, <1>3, CalmWalks DEF Done

LEMMA CleanupCalm ==
  ASSUME TypeOK, PhaseInv, PlainCleanup
  PROVE  Undisturbed
<1> USE DEF refs, plugin, history, bounds, Elsewhere, Restoring
<1>0. pass \in Pass /\ run \in RunRow /\ Walks
  BY CleanupWalks DEF TypeOK
<1>1. UNCHANGED <<rule, perm, autosync, journal>>
  BY DEF PlainCleanup, BeginCleanup, EndCleanup, CheckModule
<1>2. run'.steps \subseteq run.steps \cup {"cleanup"}
  BY <1>0 DEF PlainCleanup, BeginCleanup, EndCleanup, CheckModule, Moved, RunRow
<1>3. pass'.pc \in {"idle", "modules", "delete"}
  <2>1. ASSUME NEW m \in Module, CheckModule(m)
        PROVE  pass'.pc \in {"modules", "delete"}
    BY <1>0, <2>1, FinishedPc DEF CheckModule, At, Pass
  <2> QED
    BY <2>1, RestPc DEF PlainCleanup, BeginCleanup, EndCleanup, Leave, Rest
<1> QED
  BY <1>0, <1>1, <1>2, <1>3, CalmWalks, SameStays DEF Done

CalmReferences ==
    \/ EnterReferences \/ BeginHistory \/ EndHistory
    \/ \E s \in Script : MoveHistory(s)

LEMMA ReferencesCalm ==
  ASSUME TypeOK, PhaseInv, CalmReferences
  PROVE  Undisturbed
<1> USE DEF refs, plugin, history, bounds, Elsewhere, Restoring, CalmReferences
<1>0. Walks
  BY ReferencesWalk DEF PlainReferences
<1>1. UNCHANGED <<rule, perm, autosync, journal>>
  BY DEF EnterReferences, BeginHistory, EndHistory, MoveHistory
<1>2. run'.steps = run.steps \/ run'.steps = run.steps \cup {"history"}
  BY CompletesStep DEF EnterReferences, BeginHistory, EndHistory, MoveHistory
<1>3. pass'.pc \in {"idle", "resolve", "schedules", "move"}
  BY GotoPc, RestPc, ResolvePc, FinishedPc DEF EnterReferences, BeginHistory, EndHistory,
     MoveHistory, Leave, Begin, Rest, At
<1> QED
  BY <1>0, <1>1, <1>2, <1>3, CalmWalks, SameStays DEF Done

LEMMA ReplayCalm ==
  ASSUME TypeOK, PhaseInv, ReplaySteps
  PROVE  Undisturbed
<1> USE DEF refs, plugin, history, bounds, Elsewhere, Restoring
<1>0. pass \in Pass /\ journal \in Journal /\ Done("cutover")
  BY DEF TypeOK, PhaseInv, ReplaySteps, BeginSchedules, EndSchedules, ReplayEntry, Recreate,
     HandOver, At, Late, ReplayPcs
<1>1. UNCHANGED <<rule, perm, autosync>>
  BY DEF ReplaySteps, BeginSchedules, EndSchedules, ReplayEntry, Recreate, HandOver
<1>2. SameJournal
  <2>1. ASSUME NEW j \in Job, Recreate(j)
        PROVE  SameJournal
    BY <1>0, <2>1 DEF Recreate, RecordCopy, Journal, SameJournal
  <2> QED
    BY <2>1, SameStays DEF ReplaySteps, BeginSchedules, EndSchedules, ReplayEntry, HandOver
<1>3. run'.steps = run.steps \/ run'.steps = run.steps \cup {"schedules"}
  BY CompletesStep DEF ReplaySteps, BeginSchedules, EndSchedules, ReplayEntry, Recreate,
     HandOver, Settle
<1>4. pass'.pc \in {"idle", "replay", "enqueue", "handoff"}
  <2>1. ASSUME NEW j \in Job, ReplayEntry(j)
        PROVE  pass'.pc \in {"replay", "enqueue"}
    BY <1>0, <2>1, FinishedPc DEF ReplayEntry, At, Pass
  <2>2. ASSUME NEW j \in Job, HandOver(j)
        PROVE  pass'.pc = "replay"
    BY <1>0, <2>2 DEF HandOver, Pass
  <2> QED
    BY <2>1, <2>2, GotoPc, RestPc, ResolvePc DEF ReplaySteps, BeginSchedules, EndSchedules,
       Recreate, Leave
<1> QED
  BY <1>0, <1>1, <1>2, <1>3, <1>4 DEF Undisturbed, Fenced, Done
CalmFence ==
    \/ CheckRunning \/ CheckServable \/ RecordOutcomes \/ CheckUnfinished
    \/ CompleteCutover
    \/ \E j \in Job : \/ CancelEntry(j) \/ RevokeTask(j) \/ FailJob(j)
                      \/ RecordCancelled(j) \/ RereadJob(j)

LEMMA FenceCalm ==
  ASSUME TypeOK, CalmFence
  PROVE  Undisturbed
<1> USE DEF refs, plugin, history, bounds, Elsewhere, Restoring, At
<1>0. pass \in Pass /\ journal \in Journal
  BY DEF TypeOK
<1>1. CASE CheckRunning
  <2>1. pass'.pc \in {"gate", "idle"}
    BY <1>1, GotoPc, RestPc DEF CheckRunning, Leave
  <2>2. SameJournal
    BY <1>1, EntrySame, SameStays DEF CheckRunning
  <2> QED
    BY <1>1, <2>1, <2>2 DEF CheckRunning, Undisturbed, Fenced, Done, CancelPcs, FinalPcs
<1>2. CASE CheckServable
  <2>1. pass'.pc \in {"capture", "idle"}
    BY <1>2, GotoPc, RestPc DEF CheckServable, Leave
  <2> QED
    BY <1>2, <2>1, SameStays
       DEF CheckServable, Undisturbed, Fenced, Done, CancelPcs, FinalPcs
<1>3. CASE RecordOutcomes
  <2>1. pass'.pc = "list" /\ Fenced
    BY <1>3, GotoPc DEF RecordOutcomes, Fenced, CancelPcs
  <2> QED
    BY <1>3, <2>1, EntrySame DEF RecordOutcomes, Undisturbed, Done
<1>4. CASE CheckUnfinished \/ CompleteCutover
  <2>1. pass'.pc \in {"complete", "idle"} /\ Fenced
    BY <1>4, GotoPc, RestPc
       DEF CheckUnfinished, CompleteCutover, Leave, Fenced, FinalPcs
  <2>2. run'.steps = run.steps \/ run'.steps = run.steps \cup {"cutover"}
    BY <1>4, CompletesStep DEF CheckUnfinished, CompleteCutover
  <2> QED
    BY <1>4, <2>1, <2>2, SameStays DEF CheckUnfinished, CompleteCutover, Undisturbed, Done
<1>5. ASSUME NEW j \in Job, CancelEntry(j)
      PROVE  Undisturbed
  <2>1. pass'.pc \in {"cancel", "revoke"} /\ Fenced
    BY <1>0, <1>5 DEF CancelEntry, CancelResolve, Journaled, Noted, Pass, Fenced, CancelPcs
  <2>2. SameJournal
    BY <1>5, EntrySame, SameStays DEF CancelEntry, CancelResolve, Journaled
  <2> QED
    BY <1>5, <2>1, <2>2 DEF CancelEntry, CancelResolve, Undisturbed, Done
<1>6. ASSUME NEW j \in Job, RevokeTask(j) \/ FailJob(j)
      PROVE  Undisturbed
  <2>1. pass'.pc \in {"fail", "record", "reread"} /\ Fenced
    BY <1>6, GotoPc DEF RevokeTask, FailJob, Fenced, CancelPcs
  <2> QED
    BY <1>6, <2>1, SameStays DEF RevokeTask, FailJob, Undisturbed, Done
<1>7. ASSUME NEW j \in Job, RecordCancelled(j) \/ RereadJob(j)
      PROVE  Undisturbed
  <2>1. pass'.pc = "cancel" /\ Fenced
    BY <1>0, <1>7 DEF RecordCancelled, RereadJob, Journaled, Noted, Pass, Fenced, CancelPcs
  <2>2. SameJournal
    BY <1>7, EntrySame, SameStays DEF RecordCancelled, RereadJob, Journaled
  <2> QED
    BY <1>7, <2>1, <2>2 DEF RecordCancelled, RereadJob, Undisturbed, Done
<1> QED
  BY <1>1, <1>2, <1>3, <1>4, <1>5, <1>6, <1>7 DEF CalmFence

\* A rule somebody writes was not captured, and is written as the others were.
LEMMA EnvironmentRestores ==
  ASSUME TypeOK, GoneInv, RestoreInv, Environment
  PROVE  RestoreInv'
<1> USE DEF refs, plugin, history, bounds
<1>1. CASE UNCHANGED <<run, journal, pass, rule, perm, autosync>>
  <2>1. Undisturbed
    BY <1>1 DEF Undisturbed, SameJournal, Fenced, Done
  <2> QED
    BY <2>1, UndisturbedKeeps
<1>2. ASSUME NEW r \in Rule, WriteRule(r)
      PROVE  RestoreInv'
  <2> USE DEF RestoreInv
  <2>1. /\ UNCHANGED <<run, journal, pass, perm, autosync>>
        /\ journal.rule[r] = "absent" /\ RuleNames[r] # Nothing
        /\ rule'[r].enabled = (r \notin Disabled) /\ rule'[r].action = "legacy"
        /\ \A k \in Rule \ {r} : rule'[k] = rule[k]
    BY <1>2, MigrationConstants DEF WriteRule, GoneInv, TypeOK
  <2>2. Fenced' = Fenced /\ KnownRules' = KnownRules /\ KnownPerms' = KnownPerms
    BY <2>1 DEF Fenced, Done, KnownRules, KnownPerms
  <2>3. SyncInv'
    BY <2>1 DEF SyncInv
  <2>4. CapturedInv'
    BY <2>1, <2>2 DEF CapturedInv
  <2>5. \A k \in KnownRules : k \in Rule /\ rule'[k] = rule[k]
    BY <2>1 DEF KnownRules
  <2>6. ClosedInv'
    BY <2>1, <2>2, <2>5 DEF ClosedInv
  <2>7. \A k \in KnownRules : RuleBack(k)' <=> RuleBack(k)
    BY <2>5 DEF RuleBack
  <2>8. \A k \in Rule : RuleNames[k] = Nothing => rule'[k].action \in {"absent", "none"}
    BY <2>1 DEF RulesInv
  <2>9. RulesInv'
    BY <2>1, <2>2, <2>7, <2>8 DEF RulesInv, Done
  <2>10. \A q : /\ SplitBack(q)' <=> SplitBack(q)
                /\ PermBack(q)' <=> PermBack(q)
    BY <2>1 DEF SplitBack, PermBack
  <2>11. PermsInv'
    BY <2>1, <2>2, <2>10 DEF PermsInv, Done
  <2> QED
    BY <2>3, <2>4, <2>6, <2>9, <2>11
<1> QED
  BY <1>1, <1>2 DEF Environment, Submit, Queue, NeverQueued, Take, StartRun,
     RefuseRun, EndRun, SaveSuccessor, FreeWorker, WorkerDies, DeleteJob, RequeueJob, Judge, MoveProject
\* Before the cutover is recorded nothing has moved yet.
LEMMA FenceRules ==
  ASSUME RulesInv, ~Done("cutover"), run'.steps = run.steps, pass'.pc # "repoint",
         \A r \in Rule : rule'[r].action = rule[r].action
  PROVE  RulesInv'
BY DEF RulesInv, Done

LEMMA FencePerms ==
  ASSUME PermsInv, ~Done("cutover"), run'.steps = run.steps, pass'.pc # "swap",
         journal'.split = journal.split,
         \A q \in Perm : /\ perm'[q].types = perm[q].types
                         /\ perm'[q].siblings = perm[q].siblings,
         pass'.pc \in {"rules"} \cup CancelPcs \cup FinalPcs =>
            \A q \in KnownPerms' : Kind[q] \in {"swap", "split"} \/ ~perm'[q].enabled
  PROVE  PermsInv'
BY DEF PermsInv, Done, Fenced

\* The first capture reads what was written, a later one writes it again.
LEMMA CaptureRestores ==
  ASSUME TypeOK, PhaseInv, GoneInv, RestoreInv, Capture
  PROVE  RestoreInv'
<1> USE DEF RestoreInv, refs, Elsewhere, At
<1>0. /\ pass \in Pass /\ journal \in Journal
      /\ UNCHANGED <<run, rule, perm, autosync>> /\ ~Done("cutover")
      /\ pass'.pc = "advance"
  BY GotoPc DEF TypeOK, Capture, PhaseInv, Early
<1>1. /\ journal'.frozen /\ journal'.split = journal.split
      /\ journal'.listed = journal.listed /\ journal'.synced = journal.synced
      /\ \A r \in Rule : journal'.rule[r] =
            Recorded(journal.rule[r], Flag(rule[r].enabled), r \in LegacyRules)
      /\ \A q \in Perm : journal'.perm[q] =
            Recorded(journal.perm[q], Flag(perm[q].enabled), q \in LegacyPerms)
  BY <1>0 DEF Capture, Journal
<1>2. ~Fenced'
  BY <1>0 DEF Fenced, Done, CancelPcs, FinalPcs
<1>3. SyncInv'
  BY <1>0, <1>1 DEF SyncInv
<1>4. ASSUME NEW r \in Rule, journal'.rule[r] # "absent"
      PROVE  journal'.rule[r] = Flag(r \notin Disabled)
  <2>1. CASE journal.frozen
    BY <1>1, <1>4, <2>1 DEF Recorded, CapturedInv, KnownRules
  <2>2. CASE ~journal.frozen
    <3>1. r \in LegacyRules /\ journal'.rule[r] = Flag(rule[r].enabled)
      BY <1>1, <1>4, <2>2 DEF Recorded
    <3>2. rule[r].action # "absent"
      BY <3>1 DEF LegacyRules, GoneInv
    <3> QED
      BY <2>2, <3>1, <3>2 DEF CapturedInv
  <2> QED
    BY <2>1, <2>2
<1>5. ASSUME NEW q \in Perm, journal'.perm[q] # "absent"
      PROVE  journal'.perm[q] = Flag(q \notin Disabled)
  <2>1. CASE journal.frozen
    BY <1>1, <1>5, <2>1 DEF Recorded, CapturedInv, KnownPerms
  <2>2. CASE ~journal.frozen
    BY <1>1, <1>5, <2>2 DEF Recorded, CapturedInv
  <2> QED
    BY <2>1, <2>2
<1>6. CapturedInv'
  BY <1>0, <1>1, <1>4, <1>5 DEF CapturedInv, KnownRules, KnownPerms
<1>7. ClosedInv'
  BY <1>2 DEF ClosedInv
<1>8. RulesInv'
  BY <1>0, FenceRules
<1>9. PermsInv'
  BY <1>0, <1>1, FencePerms DEF CancelPcs, FinalPcs
<1> QED
  BY <1>3, <1>6, <1>7, <1>8, <1>9

LEMMA AdvanceRestores ==
  ASSUME TypeOK, PhaseInv, RestoreInv, AdvanceToCutover
  PROVE  RestoreInv'
<1> USE DEF RestoreInv, refs, Elsewhere, At
<1>0. /\ UNCHANGED <<journal, rule, perm, autosync>> /\ ~Done("cutover")
      /\ pass.pc = "advance" /\ pass'.pc = "perms" /\ run'.steps = run.steps
  BY GotoPc DEF TypeOK, AdvanceToCutover, PhaseInv, Early, Moved, RunRow
<1>1. /\ ~Fenced' /\ KnownRules' = KnownRules /\ KnownPerms' = KnownPerms
  BY <1>0 DEF Fenced, Done, CancelPcs, FinalPcs, KnownRules, KnownPerms
<1>2. SyncInv'
  BY <1>0 DEF SyncInv
<1>3. CapturedInv'
  BY <1>0, <1>1 DEF CapturedInv
<1>4. ClosedInv'
  BY <1>1 DEF ClosedInv
<1>5. RulesInv'
  BY <1>0, FenceRules
<1>6. PermsInv'
  BY <1>0, FencePerms DEF CancelPcs, FinalPcs
<1> QED
  BY <1>2, <1>3, <1>4, <1>5, <1>6

LEMMA ClosePermissionsRestores ==
  ASSUME TypeOK, PhaseInv, RestoreInv, ClosePermissions
  PROVE  RestoreInv'
<1> USE DEF RestoreInv, refs, Elsewhere, At
<1>0. /\ UNCHANGED <<run, journal, rule, autosync>> /\ ~Done("cutover")
      /\ pass.pc = "perms" /\ pass'.pc = "rules" /\ perm \in [Perm -> PermRow]
  BY GotoPc DEF TypeOK, ClosePermissions, PhaseInv, Early
<1>1. \A q \in Perm :
         /\ perm'[q].types = perm[q].types /\ perm'[q].siblings = perm[q].siblings
         /\ journal.perm[q] # "absent" => ~perm'[q].enabled
  BY <1>0 DEF ClosePermissions, PermRow
<1>2. /\ ~Fenced' /\ KnownRules' = KnownRules /\ KnownPerms' = KnownPerms
      /\ journal.frozen
  BY <1>0 DEF Fenced, Done, CancelPcs, FinalPcs, KnownRules, KnownPerms, CapturedInv
<1>3. SyncInv'
  BY <1>0 DEF SyncInv
<1>4. CapturedInv'
  BY <1>0, <1>2 DEF CapturedInv
<1>5. ClosedInv'
  BY <1>2 DEF ClosedInv
<1>6. RulesInv'
  BY <1>0, FenceRules
<1>7. PermsInv'
  BY <1>0, <1>1, <1>2, FencePerms DEF KnownPerms
<1> QED
  BY <1>3, <1>4, <1>5, <1>6, <1>7

LEMMA CloseRulesRestores ==
  ASSUME TypeOK, PhaseInv, RestoreInv, CloseRules
  PROVE  RestoreInv'
<1> USE DEF RestoreInv, refs, Elsewhere, At
<1>0. /\ UNCHANGED <<run, journal, perm, autosync>> /\ ~Done("cutover")
      /\ pass.pc = "rules" /\ pass'.pc = "cancel" /\ rule \in [Rule -> RuleRow]
  BY DEF TypeOK, CloseRules, PhaseInv, Early, Pass
<1>1. \A r \in Rule :
         /\ rule'[r].action = rule[r].action
         /\ rule'[r].enabled => rule[r].enabled
         /\ journal.rule[r] # "absent" => ~rule'[r].enabled
  BY <1>0 DEF CloseRules, RuleRow
<1>2. KnownRules' = KnownRules /\ KnownPerms' = KnownPerms /\ journal.frozen
  BY <1>0 DEF KnownRules, KnownPerms, CapturedInv
<1>3. SyncInv'
  BY <1>0 DEF SyncInv
<1>4. CapturedInv'
  BY <1>0, <1>1, <1>2 DEF CapturedInv
<1>5. ClosedInv'
  BY <1>1, <1>2 DEF ClosedInv, KnownRules
<1>6. RulesInv'
  BY <1>0, <1>1, FenceRules
<1>7. PermsInv'
  <2>1. \A q \in KnownPerms : Kind[q] \in {"swap", "split"} \/ ~perm[q].enabled
    BY <1>0 DEF PermsInv
  <2> QED
    BY <1>0, <1>2, <2>1, FencePerms
<1> QED
  BY <1>3, <1>4, <1>5, <1>6, <1>7

LEMMA SyncRestores ==
  ASSUME TypeOK, PhaseInv, RestoreInv, RecordSynced \/ DropSync
  PROVE  RestoreInv'
<1> USE DEF RestoreInv, refs, Elsewhere, At
<1>0. /\ UNCHANGED <<run, rule, perm>> /\ ~Done("cutover") /\ Fenced
      /\ pass'.pc \in {"drop", "finish"} /\ journal \in Journal
  BY GotoPc DEF TypeOK, RecordSynced, DropSync, PhaseInv, Early, Fenced, FinalPcs
<1>1. /\ journal'.frozen = journal.frozen /\ journal'.rule = journal.rule
      /\ journal'.perm = journal.perm /\ journal'.split = journal.split
  BY <1>0 DEF RecordSynced, DropSync, Journal
<1>2. KnownRules' = KnownRules /\ KnownPerms' = KnownPerms
  BY <1>1 DEF KnownRules, KnownPerms
<1>3. SyncInv'
  <2>1. CASE RecordSynced
    <3>1. journal'.listed /\ journal'.synced = ListSynced
      BY <1>0, <2>1 DEF RecordSynced, Journal
    <3> QED
      BY <3>1 DEF SyncInv, ListSynced
  <2>2. CASE DropSync
    BY <2>2, GotoPc DEF DropSync, SyncInv
  <2> QED
    BY <2>1, <2>2
<1>4. CapturedInv'
  BY <1>0, <1>1, <1>2 DEF CapturedInv
<1>5. ClosedInv'
  BY <1>0, <1>2 DEF ClosedInv
<1>6. RulesInv'
  BY <1>0, FenceRules
<1>7. PermsInv'
  <2>1. \A q \in KnownPerms : Kind[q] \in {"swap", "split"} \/ ~perm[q].enabled
    BY <1>0 DEF PermsInv
  <2> QED
    BY <1>0, <1>1, <1>2, <2>1, FencePerms
<1> QED
  BY <1>3, <1>4, <1>5, <1>6, <1>7
\* A step of the reference pass that leaves the permissions alone.
LEMMA SamePerms ==
  ASSUME PermsInv, UNCHANGED perm, Done("cutover"), Done("cutover")',
         journal'.perm = journal.perm, journal'.split = journal.split,
         Done("permissions")' => Done("permissions"), pass'.pc # "swap"
  PROVE  PermsInv'
<1>1. KnownPerms' = KnownPerms
  BY DEF KnownPerms
<1>2. \A q : /\ SplitBack(q)' <=> SplitBack(q)
             /\ PermBack(q)' <=> PermBack(q)
  BY DEF SplitBack, PermBack
<1> QED
  BY <1>1, <1>2 DEF PermsInv, Fenced

LEMMA BeginRulesRestores ==
  ASSUME TypeOK, PhaseInv, RestoreInv, BeginRules
  PROVE  RestoreInv'
<1> USE DEF RestoreInv, refs, Elsewhere, At
<1>0. /\ UNCHANGED <<run, journal, rule, perm, autosync>> /\ Done("cutover")
      /\ pass'.pc \in {"idle", "grants", "repoint"}
  BY GotoPc, RestPc, ResolvePc DEF BeginRules, Leave, PhaseInv, Late
<1>1. CASE pass'.pc # "repoint"
  <2>1. Undisturbed
    BY <1>0, <1>1, SameStays DEF Undisturbed, Restoring, Fenced, Done
  <2> QED
    BY <2>1, UndisturbedKeeps
<1>2. CASE pass'.pc = "repoint"
  <2>1. Resolve("repoint", {r \in Rule : journal.rule[r] # "absent"})
    BY <1>2, GotoPc, RestPc DEF BeginRules, Leave
  <2>2. pass'.todo = KnownRules
    BY <2>1 DEF Resolve, Rest, KnownRules
  <2>3. /\ KnownRules' = KnownRules /\ KnownPerms' = KnownPerms /\ Fenced /\ Fenced'
        /\ \A r : RuleBack(r)' <=> RuleBack(r)
    BY <1>0 DEF KnownRules, KnownPerms, RuleBack, Fenced, Done
  <2>4. SyncInv' /\ CapturedInv' /\ ClosedInv'
    BY <1>0, <1>2, <2>3 DEF SyncInv, CapturedInv, ClosedInv
  <2>5. RulesInv'
    BY <1>0, <2>2, <2>3 DEF RulesInv, Done
  <2>6. PermsInv'
    BY <1>0, <1>2, SamePerms DEF Done
  <2> QED
    BY <2>4, <2>5, <2>6
<1> QED
  BY <1>1, <1>2

\* What one repointed rule looks like.
LEMMA RepointedBack ==
  ASSUME TypeOK, CapturedInv, ClosedInv, RulesInv, Done("cutover"),
         NEW r \in Rule, NEW moved \in BOOLEAN, rule'[r] = Repointed(r, moved)
  PROVE  /\ rule'[r].enabled => r \notin Disabled
         /\ r \in KnownRules => ~(rule'[r].enabled /\ rule'[r].action = "legacy")
         /\ RuleNames[r] = Nothing => rule'[r].action \in {"absent", "none"}
         /\ r \in KnownRules /\ RuleBack(r) => RuleBack(r)'
         /\ r \in KnownRules /\ moved => RuleBack(r)'
<1>0. rule[r] \in RuleRow
  BY DEF TypeOK
<1>1. /\ rule'[r].enabled = (rule[r].enabled \/ (moved /\ journal.rule[r] = "enabled"))
      /\ rule'[r].action = IF moved /\ rule[r].action = "legacy" THEN "plugin"
                           ELSE rule[r].action
  BY DEF Repointed
<1>2. rule[r].enabled => r \notin Disabled
  BY DEF CapturedInv
<1>3. journal.rule[r] = "enabled" => r \in KnownRules /\ r \notin Disabled
  BY DEF CapturedInv, KnownRules, Flag
<1>4. r \in KnownRules => (journal.rule[r] = "enabled" <=> r \notin Disabled)
  BY DEF CapturedInv, Flag
<1>5. r \in KnownRules => ~(rule[r].enabled /\ rule[r].action = "legacy")
  BY DEF ClosedInv, Fenced
<1>6. RuleNames[r] = Nothing => rule[r].action \in {"absent", "none"}
  BY DEF RulesInv
<1> QED
  BY <1>0, <1>1, <1>2, <1>3, <1>4, <1>5, <1>6 DEF RuleBack, RuleRow

LEMMA RepointRestores ==
  ASSUME TypeOK, PhaseInv, RestoreInv, NEW r \in Rule, RepointRule(r)
  PROVE  RestoreInv'
<1> USE DEF RestoreInv, refs, Elsewhere, At
<1>0. /\ UNCHANGED <<run, journal, perm, autosync>> /\ Done("cutover")
      /\ pass.pc = "repoint" /\ pass'.pc = "repoint"
      /\ pass \in Pass /\ rule \in [Rule -> RuleRow]
  BY FinishedPc DEF TypeOK, RepointRule, PhaseInv, Late
<1>1. \/ UNCHANGED rule
      \/ \E moved \in BOOLEAN : rule' = [rule EXCEPT ![r] = Repointed(r, moved)]
  BY DEF RepointRule
<1>2. \A k \in Rule \ {r} : rule'[k] = rule[k]
  BY <1>0, <1>1
<1>3. rule'[r] = rule[r] \/ \E moved \in BOOLEAN : rule'[r] = Repointed(r, moved)
  BY <1>0, <1>1
<1>4. /\ KnownRules' = KnownRules /\ KnownPerms' = KnownPerms
      /\ Fenced /\ Fenced' /\ journal.frozen
  BY <1>0 DEF KnownRules, KnownPerms, Fenced, Done, CapturedInv
<1>5. /\ rule'[r].enabled => r \notin Disabled
      /\ r \in KnownRules => ~(rule'[r].enabled /\ rule'[r].action = "legacy")
      /\ RuleNames[r] = Nothing => rule'[r].action \in {"absent", "none"}
      /\ r \in KnownRules /\ RuleBack(r) => RuleBack(r)'
  <2>1. CASE rule'[r] = rule[r]
    BY <1>4, <2>1 DEF CapturedInv, ClosedInv, RulesInv, RuleBack
  <2>2. ASSUME NEW moved \in BOOLEAN, rule'[r] = Repointed(r, moved)
        PROVE  /\ rule'[r].enabled => r \notin Disabled
               /\ r \in KnownRules => ~(rule'[r].enabled /\ rule'[r].action = "legacy")
               /\ RuleNames[r] = Nothing => rule'[r].action \in {"absent", "none"}
               /\ r \in KnownRules /\ RuleBack(r) => RuleBack(r)'
    BY <1>0, <2>2, RepointedBack
  <2> QED
    BY <1>3, <2>1, <2>2
<1>6. SyncInv' /\ CapturedInv' /\ ClosedInv'
  <2>1. SyncInv'
    BY <1>0 DEF SyncInv
  <2>2. CapturedInv'
    BY <1>0, <1>2, <1>4, <1>5 DEF CapturedInv
  <2>3. \A k \in KnownRules : ~(rule'[k].enabled /\ rule'[k].action = "legacy")
    BY <1>2, <1>4, <1>5 DEF ClosedInv, KnownRules
  <2> QED
    BY <1>4, <2>1, <2>2, <2>3 DEF ClosedInv
<1>7. \A k \in KnownRules \ {r} : RuleBack(k)' <=> RuleBack(k)
  BY <1>2 DEF RuleBack, KnownRules
\* A refusal that leaves the rule withdrawn holds the step open.
<1>8. r \in KnownRules /\ ~pass'.open => RuleBack(r)'
  <2>1. CASE rule[r].action = "absent" /\ UNCHANGED rule
    BY <2>1 DEF RuleBack
  <2>2. CASE rule' = [rule EXCEPT ![r] = Repointed(r, TRUE)]
    <3>1. rule'[r] = Repointed(r, TRUE)
      BY <1>0, <2>2
    <3> QED
      BY <1>0, <3>1, RepointedBack
  <2>3. CASE Finished(r, ~NeverMovable(r))
    <3>1. pass'.open = (pass.open \/ ~NeverMovable(r))
      BY <1>0, <2>3 DEF Finished, Pass
    <3>2. NeverMovable(r) => RuleNames[r] \notin Mapped \cup {Nothing}
      BY MigrationConstants DEF NeverMovable, Mapped, Target
    <3> QED
      BY <3>1, <3>2 DEF RuleBack
  <2> QED
    BY <2>1, <2>2, <2>3 DEF RepointRule
<1>9. pass'.todo = pass.todo \ {r} /\ (pass.open => pass'.open)
  BY <1>0 DEF RepointRule, Finished, Pass
<1>10. RulesInv'
  BY <1>0, <1>2, <1>4, <1>5, <1>7, <1>8, <1>9 DEF RulesInv, Done
<1>11. PermsInv'
  BY <1>0, SamePerms DEF Done
<1> QED
  BY <1>6, <1>10, <1>11

LEMMA EndRulesRestores ==
  ASSUME TypeOK, PhaseInv, RestoreInv, EndRules
  PROVE  RestoreInv'
<1> USE DEF RestoreInv, refs, Elsewhere, At
<1>0. /\ UNCHANGED <<journal, rule, perm, autosync>> /\ Done("cutover")
      /\ pass.pc = "repoint" /\ pass.todo = {} /\ pass'.pc = "grants"
  BY GotoPc DEF TypeOK, EndRules, PhaseInv, Late
<1>1. \/ run' = run
      \/ ~pass.open /\ run'.steps = run.steps \cup {"rules"}
  BY CompletesStep DEF EndRules, Settle
<1>2. /\ KnownRules' = KnownRules /\ KnownPerms' = KnownPerms
      /\ Fenced /\ Fenced' /\ Done("cutover")'
      /\ \A r : RuleBack(r)' <=> RuleBack(r)
  BY <1>0, <1>1 DEF KnownRules, KnownPerms, Fenced, Done, RuleBack
<1>3. SyncInv' /\ CapturedInv' /\ ClosedInv'
  BY <1>0, <1>2 DEF SyncInv, CapturedInv, ClosedInv
<1>4. RulesInv'
  BY <1>0, <1>1, <1>2 DEF RulesInv, Done
<1>5. PermsInv'
  BY <1>0, <1>1, <1>2, SamePerms DEF Done
<1> QED
  BY <1>3, <1>4, <1>5
\* A step of the reference pass that leaves the rules alone.
LEMMA SameRules ==
  ASSUME TypeOK, SyncInv, CapturedInv, ClosedInv, RulesInv,
         UNCHANGED <<rule, autosync>>, Done("cutover"), Done("cutover")',
         journal'.frozen = journal.frozen, journal'.rule = journal.rule,
         journal'.perm = journal.perm, journal'.listed = journal.listed,
         journal'.synced = journal.synced,
         Done("rules")' => Done("rules"), pass'.pc \notin {"drop", "repoint"}
  PROVE  SyncInv' /\ CapturedInv' /\ ClosedInv' /\ RulesInv'
<1>1. /\ KnownRules' = KnownRules /\ KnownPerms' = KnownPerms /\ journal.frozen
      /\ Fenced /\ Fenced' /\ \A r : RuleBack(r)' <=> RuleBack(r)
  BY DEF KnownRules, KnownPerms, Fenced, RuleBack, CapturedInv
<1>2. SyncInv'
  BY DEF SyncInv
<1>3. CapturedInv'
  BY <1>1 DEF CapturedInv
<1>4. ClosedInv'
  BY <1>1 DEF ClosedInv
<1>5. RulesInv'
  BY <1>1 DEF RulesInv
<1> QED
  BY <1>2, <1>3, <1>4, <1>5

LEMMA BeginPermissionsRestores ==
  ASSUME TypeOK, PhaseInv, RestoreInv, BeginPermissions
  PROVE  RestoreInv'
<1> USE DEF RestoreInv, refs, Elsewhere, At
<1>0. /\ UNCHANGED <<run, journal, rule, perm, autosync>> /\ Done("cutover")
  BY DEF BeginPermissions, PhaseInv, Late
<1>1. CASE Done("permissions")
  <2>1. pass'.pc = "history"
    BY <1>1, GotoPc DEF BeginPermissions
  <2>2. Undisturbed
    BY <1>0, <2>1, SameStays DEF Undisturbed, Restoring, Fenced, Done
  <2> QED
    BY <2>2, UndisturbedKeeps
<1>2. CASE ~Done("permissions")
  <2>1. pass'.pc = "swap" /\ pass'.todo = KnownPerms
    BY <1>2 DEF BeginPermissions, Begin, Rest, KnownPerms
  <2>2. SyncInv' /\ CapturedInv' /\ ClosedInv' /\ RulesInv'
    BY <1>0, <2>1, SameRules DEF Done
  <2>3. /\ KnownPerms' = KnownPerms /\ Fenced /\ Fenced'
        /\ \A q : SplitBack(q)' <=> SplitBack(q)
    BY <1>0 DEF KnownPerms, Fenced, Done, SplitBack
  <2>4. PermsInv'
    BY <1>0, <1>2, <2>1, <2>3 DEF PermsInv, Done
  <2> QED
    BY <2>2, <2>4
<1> QED
  BY <1>1, <1>2

LEMMA MovePermissionRestores ==
  ASSUME TypeOK, PhaseInv, RestoreInv, NEW q \in Perm, MovePermission(q)
  PROVE  RestoreInv'
<1> USE DEF RestoreInv, At
<1>0. /\ UNCHANGED <<run, rule, autosync>> /\ Done("cutover")
      /\ pass.pc = "swap" /\ pass'.pc = "swap" /\ q \in pass.todo
      /\ pass \in Pass /\ journal \in Journal /\ perm \in [Perm -> PermRow]
  BY FinishedPc DEF TypeOK, MovePermission, PhaseInv, Late
<1>1. journal' = journal \/ journal' = [journal EXCEPT !.split = @ \cup {q}]
  BY DEF MovePermission, Swapped, SplitOff
<1>2. /\ journal'.frozen = journal.frozen /\ journal'.rule = journal.rule
      /\ journal'.perm = journal.perm /\ journal'.listed = journal.listed
      /\ journal'.synced = journal.synced
      /\ journal.split \subseteq journal'.split /\ journal'.split \subseteq journal.split \cup {q}
  BY <1>0, <1>1 DEF Journal
<1>3. SyncInv' /\ CapturedInv' /\ ClosedInv' /\ RulesInv'
  BY <1>0, <1>2, SameRules DEF Done
<1>4. /\ KnownPerms' = KnownPerms /\ Fenced /\ Fenced'
      /\ q \in KnownPerms /\ journal.perm[q] = Flag(q \notin Disabled)
      /\ journal.perm[q] = "enabled" <=> q \notin Disabled
  BY <1>0, <1>2 DEF KnownPerms, Fenced, Done, PermsInv, CapturedInv, Flag
<1>5. \A k \in Perm \ {q} : perm'[k] = perm[k]
  BY <1>0 DEF MovePermission, Swapped, SplitOff
<1>6. \A k \in Perm \ {q} : /\ SplitBack(k)' <=> SplitBack(k)
                            /\ PermBack(k)' <=> PermBack(k)
  BY <1>2, <1>5 DEF SplitBack, PermBack
<1>7. pass'.todo = pass.todo \ {q}
  BY <1>0 DEF MovePermission, Finished, Pass
\* What becomes of the one moved.
<1>8. /\ PermBack(q)'
      /\ q \in journal'.split => Kind[q] = "split" /\ SplitBack(q)'
      /\ q \notin journal'.split /\ Kind[q] = "split"
            => perm'[q].types = {"legacy", "other"} /\ perm'[q].siblings = 0
      /\ Kind[q] \in {"swap", "split"} \/ ~perm'[q].enabled
  <2>1. CASE Kind[q] = "swap"
    <3>1. /\ perm'[q].types = {"plugin"} /\ journal' = journal
          /\ perm'[q].enabled = (journal.perm[q] = "enabled")
      BY <1>0, <2>1 DEF MovePermission, Swapped, PermRow
    <3> QED
      BY <1>4, <2>1, <3>1 DEF PermBack, PermsInv
  <2>2. CASE Kind[q] = "split"
    <3>1. CASE AlreadySplit(q)
      <4>1. UNCHANGED <<perm, journal>> /\ q \in journal.split
        BY <2>2, <3>1 DEF MovePermission, SplitOff, AlreadySplit
      <4>2. SplitBack(q)' <=> SplitBack(q)
        BY <4>1 DEF SplitBack
      <4> QED
        BY <2>2, <4>1, <4>2 DEF PermBack, PermsInv
    <3>2. CASE ~AlreadySplit(q)
      <4>1. /\ perm' = [perm EXCEPT ![q].types = @ \ {"legacy"},
                          ![q].enabled = journal.perm[q] = "enabled",
                          ![q].sibling = journal.perm[q], ![q].siblings = @ + 1]
            /\ journal' = [journal EXCEPT !.split = @ \cup {q}]
            /\ q \notin journal.split
        BY <2>2, <3>2 DEF MovePermission, SplitOff, AlreadySplit
      <4>2. perm[q].types = {"legacy", "other"} /\ perm[q].siblings = 0
        BY <2>2, <4>1 DEF PermsInv
      <4>3. {"legacy", "other"} \ {"legacy"} = {"other"}
        OBVIOUS
      <4>4. perm'[q] = [enabled  |-> journal.perm[q] = "enabled", types |-> {"other"},
                        sibling |-> journal.perm[q], siblings |-> 1]
        BY <1>0, <4>1, <4>2, <4>3 DEF PermRow
      <4>5. SplitBack(q)' /\ q \in journal'.split
        BY <1>0, <1>4, <4>1, <4>4 DEF SplitBack, Journal
      <4> QED
        BY <2>2, <4>5 DEF PermBack
    <3> QED
      BY <3>1, <3>2
  <2>3. CASE Kind[q] \notin {"swap", "split"}
    <3>1. UNCHANGED <<perm, journal>>
      BY <2>3 DEF MovePermission
    <3> QED
      BY <1>4, <2>3, <3>1 DEF PermBack, PermsInv
  <2> QED
    BY <2>1, <2>2, <2>3
<1>9. PermsInv'
  <2>1. \A k \in journal'.split : Kind[k] = "split" /\ SplitBack(k)'
    <3>1. \A k \in journal'.split \ {q} : k \in Perm /\ k \in journal.split
      BY <1>0, <1>2 DEF Journal
    <3> QED
      BY <1>6, <1>8, <3>1 DEF PermsInv
  <2>2. \A k \in Perm \ journal'.split :
           Kind[k] = "split" => perm'[k].types = {"legacy", "other"} /\ perm'[k].siblings = 0
    BY <1>2, <1>5, <1>8 DEF PermsInv
  <2>3. \A k \in KnownPerms : Kind[k] \in {"swap", "split"} \/ ~perm'[k].enabled
    BY <1>4, <1>5, <1>8 DEF PermsInv, KnownPerms
  <2>4. \A k \in KnownPerms \ pass'.todo : PermBack(k)'
    BY <1>0, <1>6, <1>7, <1>8 DEF PermsInv, KnownPerms
  <2>5. pass'.todo \subseteq KnownPerms
    BY <1>0, <1>7 DEF PermsInv
  <2>6. Done("permissions")' => \A k \in KnownPerms : PermBack(k)'
    BY <1>0, <1>6, <1>8 DEF PermsInv, KnownPerms, Done
  <2>7. Done("cutover")'
    BY <1>0 DEF Done
  <2> QED
    BY <1>4, <2>1, <2>2, <2>3, <2>4, <2>5, <2>6, <2>7 DEF PermsInv
<1> QED
  BY <1>3, <1>9

LEMMA EndPermissionsRestores ==
  ASSUME TypeOK, PhaseInv, RestoreInv, EndPermissions
  PROVE  RestoreInv'
<1> USE DEF RestoreInv, refs, Elsewhere, At
<1>0. /\ UNCHANGED <<journal, rule, perm, autosync>> /\ Done("cutover")
      /\ pass.pc = "swap" /\ pass.todo = {} /\ pass'.pc = "history"
      /\ run'.steps = run.steps \cup {"permissions"}
  BY GotoPc, CompletesStep DEF EndPermissions, PhaseInv, Late
<1>1. SyncInv' /\ CapturedInv' /\ ClosedInv' /\ RulesInv'
  BY <1>0, SameRules DEF Done
<1>2. /\ KnownPerms' = KnownPerms /\ Fenced
      /\ \A q : /\ SplitBack(q)' <=> SplitBack(q)
                /\ PermBack(q)' <=> PermBack(q)
  BY <1>0 DEF KnownPerms, Fenced, SplitBack, PermBack
<1>3. PermsInv'
  BY <1>0, <1>2 DEF PermsInv, Done
<1> QED
  BY <1>1, <1>3

\* A rule that goes with its module is back nowhere, and opens nowhere.
LEMMA DeletionRestores ==
  ASSUME TypeOK, PhaseInv, RestoreInv, NEW m \in Module, DeleteModule(m)
  PROVE  RestoreInv'
<1> USE DEF RestoreInv, refs, plugin, history, bounds, At
<1>0. /\ UNCHANGED <<run, journal, perm, autosync>> /\ Done("cutover")
      /\ pass'.pc = "modules"
  BY DEF TypeOK, DeleteModule, PhaseInv, Late, Pass
<1>1. \A r \in Rule : \/ rule'[r] = rule[r]
                      \/ rule'[r].action = "absent" /\ ~rule'[r].enabled
  BY DEF DeleteModule
<1>2. /\ KnownRules' = KnownRules /\ KnownPerms' = KnownPerms
      /\ Fenced /\ Fenced' /\ journal.frozen
  BY <1>0 DEF KnownRules, KnownPerms, Fenced, Done, CapturedInv
<1>3. SyncInv'
  BY <1>0 DEF SyncInv
<1>4. CapturedInv'
  BY <1>0, <1>1, <1>2 DEF CapturedInv
<1>5. ClosedInv'
  BY <1>1, <1>2 DEF ClosedInv, KnownRules
<1>6. \A r \in KnownRules : RuleBack(r) => RuleBack(r)'
  BY <1>1 DEF KnownRules, RuleBack
<1>7. RulesInv'
  BY <1>0, <1>1, <1>2, <1>6 DEF RulesInv, Done
<1>8. PermsInv'
  BY <1>0, SamePerms DEF Done
<1> QED
  BY <1>3, <1>4, <1>5, <1>7, <1>8

LEMMA RestoreInit == Init => RestoreInv
<1> SUFFICES ASSUME Init PROVE RestoreInv
  OBVIOUS
<1> USE DEF Init, Unrecorded, Rest, Fenced, CancelPcs, FinalPcs, Done
<1>1. SyncInv
  BY DEF SyncInv
<1>2. \A r \in Rule :
         \/ rule[r] = FirstRule(r)
         \/ rule[r].action = "absent" /\ ~rule[r].enabled
  OBVIOUS
<1>3. CapturedInv
  <2>1. KnownRules = {} /\ KnownPerms = {}
    BY DEF KnownRules, KnownPerms
  <2>2. \A r : FirstRule(r).enabled = (r \notin Disabled)
    BY DEF FirstRule
  <2>3. \A r \in Rule : rule[r].enabled => r \notin Disabled
    BY <1>2, <2>2
  <2>4. \A r \in Rule : rule[r].action # "absent" => rule[r].enabled = (r \notin Disabled)
    BY <1>2, <2>2
  <2>5. \A q \in Perm : perm[q].enabled = (q \notin Disabled)
    OBVIOUS
  <2>6. pass.pc \in {"advance", "perms", "rules"} \/ Fenced => journal.frozen
    OBVIOUS
  <2>7. /\ \A r \in KnownRules : journal.rule[r] = Flag(r \notin Disabled)
        /\ \A q \in KnownPerms : journal.perm[q] = Flag(q \notin Disabled)
    BY <2>1
  <2> HIDE DEF Init, Unrecorded, Rest, Fenced, CancelPcs, FinalPcs, Done
  <2> QED
    BY <2>3, <2>4, <2>5, <2>6, <2>7, Zenon DEF CapturedInv
<1>4. ClosedInv
  BY DEF ClosedInv
<1>5. RulesInv
  BY <1>2 DEF RulesInv, FirstRule
<1>6. PermsInv
  BY DEF PermsInv, FirstTypes
<1> QED
  BY <1>1, <1>3, <1>4, <1>5, <1>6 DEF RestoreInv

LEMMA RestoreStep ==
  TypeOK /\ PhaseInv /\ GoneInv /\ RestoreInv /\ [Next]_vars => RestoreInv'
<1> SUFFICES ASSUME TypeOK, PhaseInv, GoneInv, RestoreInv, [Next]_vars PROVE RestoreInv'
  OBVIOUS
<1>1. CASE UNCHANGED vars
  <2>1. Undisturbed
    BY <1>1 DEF vars, refs, Undisturbed, SameJournal, Fenced, Done
  <2> QED
    BY <2>1, UndisturbedKeeps
<1>2. CASE Environment
  BY <1>2, EnvironmentRestores
<1>3. CASE \/ EnterCutover \/ Staging \/ PassDies \/ Activation \/ PlainCleanup
           \/ CalmFence \/ CalmReferences \/ ReplaySteps
  BY <1>3, StagingCalm, ActivationCalm, CleanupCalm, FenceCalm, ReferencesCalm,
     ReplayCalm, UndisturbedKeeps
<1>4. CASE \/ Capture \/ AdvanceToCutover \/ ClosePermissions \/ CloseRules
           \/ RecordSynced \/ DropSync
  BY <1>4, CaptureRestores, AdvanceRestores, ClosePermissionsRestores,
     CloseRulesRestores, SyncRestores
<1>5. CASE \/ BeginRules \/ EndRules \/ BeginPermissions \/ EndPermissions
           \/ (\E r \in Rule : RepointRule(r)) \/ \E q \in Perm : MovePermission(q)
  BY <1>5, BeginRulesRestores, EndRulesRestores, BeginPermissionsRestores,
     EndPermissionsRestores, RepointRestores, MovePermissionRestores
<1>6. CASE Deletes
  BY <1>6, DeletionRestores DEF Deletes
<1> QED
  BY <1>1, <1>2, <1>3, <1>4, <1>5, <1>6 DEF Next, Passes, CutoverSteps, References, Cleanup,
     PlainCleanup, CalmFence, CalmReferences, ReplaySteps, Deletes

\* Whatever the fence closed is accounted for: named before it closes, closed
\* until it names the plugin, and back as it was written once its step is over.
THEOREM RestoreCorrect == Spec => []RestoreInv
<1>1. /\ TypeOK /\ LedgerInv /\ DeletionInv /\ RestoreInv /\ [Next]_vars
        => (TypeOK /\ LedgerInv /\ DeletionInv /\ RestoreInv)'
  BY TypeStep, LedgerStep, DeletionStep, RestoreStep DEF LedgerInv, DeletionInv
<1> QED
  BY <1>1, InitTypes, LedgerInit, DeletionInit, RestoreInit, PTL DEF Spec

\* Every rule and grant the migration captured comes back as it was, a split one
\* with one sibling, and never while it names the built-in feature; every module
\* taken out of synchronization stays named.
THEOREM CapturedRestored == Spec => []RestoredAsCaptured
<1>1. TypeOK /\ RestoreInv => RestoredAsCaptured
  <2> SUFFICES ASSUME TypeOK, RestoreInv PROVE RestoredAsCaptured
    OBVIOUS
  <2> USE DEF RestoreInv
  <2>1. Module \ autosync \subseteq journal.synced
    BY DEF SyncInv
  <2>2. Done("cutover") =>
          \A r \in Rule : journal.rule[r] # "absent" =>
             ~(rule[r].enabled /\ rule[r].action = "legacy")
    BY DEF ClosedInv, Fenced, KnownRules
  <2>3. Done("rules") =>
          \A r \in Rule :
             /\ journal.rule[r] # "absent" /\ rule[r].action # "absent"
             /\ RuleNames[r] \in Mapped \cup {Nothing}
             => rule[r].enabled = (r \notin Disabled)
    BY DEF RulesInv, RuleBack, KnownRules
  <2>4. ASSUME Done("permissions"), NEW q \in Perm, journal.perm[q] # "absent"
        PROVE  CASE Kind[q] = "swap" -> /\ perm[q].types = {"plugin"}
                                        /\ perm[q].enabled = (q \notin Disabled)
                 [] Kind[q] = "split" -> /\ perm[q].types = {"other"}
                                         /\ perm[q].enabled = (q \notin Disabled)
                                         /\ perm[q].sibling = Flag(q \notin Disabled)
                                         /\ perm[q].siblings = 1
                 [] OTHER -> ~perm[q].enabled
    <3>1. /\ PermBack(q)
          /\ Kind[q] \in {"swap", "split"} \/ ~perm[q].enabled
          /\ q \in journal.split => SplitBack(q)
      BY <2>4 DEF PermsInv, KnownPerms, Fenced
    <3>2. CASE Kind[q] = "swap"
      BY <3>1, <3>2 DEF PermBack
    <3>3. CASE Kind[q] = "split"
      BY <3>1, <3>3 DEF PermBack, SplitBack
    <3>4. CASE Kind[q] \notin {"swap", "split"}
      BY <3>1, <3>4
    <3> QED
      BY <3>2, <3>3, <3>4
  <2> QED
    BY <2>1, <2>2, <2>3, <2>4 DEF RestoredAsCaptured
<1> QED
  BY <1>1, TypeCorrect, RestoreCorrect, PTL
=============================================================================
