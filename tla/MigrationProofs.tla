--------------------------- MODULE MigrationProofs ---------------------------
(***************************************************************************)
(* Every row and the journal keep their types, and the schedules agree:    *)
(* what the journal says of a Job, what a pass at work holds in memory and *)
(* what became of the Job.  From that agreement, no Job runs on both sides *)
(* and no schedule the fence cancelled is lost or doubled.  Hence also a   *)
(* READY report, which only reads rows, stands for what it does not read.  *)
(*                                                                         *)
(* Next is split by what a step does to the schedules: the environment     *)
(* moves Jobs (JobsMove), most passes leave them alone (Walks), and the    *)
(* fence, the replay and a deletion have a section each.                   *)
(***************************************************************************)
EXTENDS Migration, TLAPS

-----------------------------------------------------------------------------
(* Types: the pass *)

LEMMA RestType == Rest \in Pass
BY DEF Rest, Pass, Pc, Outcome, ScriptRow

LEMMA GotoType ==
  ASSUME pass \in Pass, NEW pc \in Pc
  PROVE  [pass EXCEPT !.pc = pc] \in Pass
BY DEF Pass

LEMMA AtType ==
  ASSUME pass \in Pass, NEW pc \in Pc, NEW i \in Item
  PROVE  [pass EXCEPT !.pc = pc, !.at = i] \in Pass
BY DEF Pass

LEMMA BackType ==
  ASSUME pass \in Pass, NEW pc \in Pc, NEW i
  PROVE  [pass EXCEPT !.pc = pc, !.todo = @ \ {i}, !.at = Nothing] \in Pass
BY DEF Pass

LEMMA BeginType ==
  ASSUME NEW pc \in Pc, NEW items \in SUBSET Item
  PROVE  [Rest EXCEPT !.pc = pc, !.todo = items] \in Pass
BY RestType DEF Pass

LEMMA FinishedType ==
  ASSUME pass \in Pass, NEW i, NEW held \in BOOLEAN, Finished(i, held)
  PROVE  pass' \in Pass
BY DEF Pass, Finished

LEMMA NotedType ==
  ASSUME pass \in Pass, NEW j \in Job, NEW o \in Outcome
  PROVE  /\ Noted(j, o) \in Pass
         /\ [pass.mem EXCEPT ![j] = o] \in [Job -> Outcome]
BY DEF Pass, Noted, Pc

LEMMA ResolveType ==
  ASSUME row \in [Script -> ScriptRow], NEW pc \in Pc, NEW items \in SUBSET Item,
         Resolve(pc, items)
  PROVE  pass' \in Pass
<1>1. [s \in Script |-> IF s \in Mapped THEN row[s] ELSE "none"] \in [Script -> ScriptRow]
  BY DEF ScriptRow
<1> QED
  BY <1>1, RestType DEF Pass, Resolve

LEMMA PassFields ==
  ASSUME pass \in Pass
  PROVE  /\ pass.pc \in Pc /\ pass.todo \subseteq Item /\ pass.kept \subseteq Item
         /\ pass.mem \in [Job -> Outcome] /\ pass.open \in BOOLEAN
         /\ pass.seen \in [Script -> ScriptRow]
BY DEF Pass

-----------------------------------------------------------------------------
(* Types: the journal *)

LEMMA JournalFields ==
  ASSUME journal \in Journal
  PROVE  /\ journal.frozen \in BOOLEAN /\ journal.rule \in [Rule -> Captured]
         /\ journal.perm \in [Perm -> Captured] /\ journal.job \in [Job -> Outcome]
         /\ journal.listed \in BOOLEAN /\ journal.synced \subseteq Module
         /\ journal.recreated \subseteq Job /\ journal.split \subseteq Perm
         /\ journal.activated \subseteq Item
BY DEF Journal

LEMMA JobEntryType ==
  ASSUME journal \in Journal, NEW f \in [Job -> Outcome]
  PROVE  [journal EXCEPT !.job = f] \in Journal
BY DEF Journal

LEMMA RecordedType ==
  ASSUME NEW known \in Captured, NEW now \in Captured, NEW legacy
  PROVE  Recorded(known, now, legacy) \in Captured
BY DEF Recorded, Captured

LEMMA FlagType == \A b : Flag(b) \in Captured
BY DEF Flag, Captured

-----------------------------------------------------------------------------
(* Types: what goes on beside a pass *)

LEMMA SetJobType ==
  ASSUME job \in [Job -> JobRow], NEW j \in Job, NEW entry \in JobRow, SetJob(j, entry)
  PROVE  job' \in [Job -> JobRow]
BY DEF SetJob

LEMMA FreshType == \A task \in {"none", "owed", "queued", "held", "stranded"} :
                      Fresh(task) \in JobRow
BY DEF Fresh, JobRow

LEMMA SynchronizedType ==
  ASSUME row \in [Script -> ScriptRow], NEW p, NEW r
  PROVE  Synchronized(p, r) \in [Script -> ScriptRow]
BY DEF Synchronized, ScriptRow

LEMMA PromoteType ==
  ASSUME proj \in [Project -> ProjectRows], row \in [Script -> ScriptRow],
         NEW p \in Project, NEW r \in {"older", "source"}, Promote(p, r)
  PROVE  proj' \in [Project -> ProjectRows] /\ row' \in [Script -> ScriptRow]
<1>1. row' \in [Script -> ScriptRow]
  BY SynchronizedType DEF Promote
<1>2. DEFINE new == [present |-> TRUE,
           older  |-> IF r = "older" THEN "active"
                      ELSE IF proj[p].older = "active" THEN "retired" ELSE proj[p].older,
           source |-> IF r = "source" THEN "active"
                      ELSE IF proj[p].source = "active" THEN "retired" ELSE proj[p].source]
<1>3. new \in ProjectRows
  BY DEF ProjectRows, ProjectRow, RevisionState
<1>4. proj' = [proj EXCEPT ![p] = new]
  BY DEF Promote
<1> QED
  BY <1>1, <1>3, <1>4

LEMMA JobsMoveTypes ==
  ASSUME TypeOK, NEW j \in Job,
         \/ Submit(j) \/ Queue(j) \/ NeverQueued(j) \/ Take(j) \/ StartRun(j)
         \/ RefuseRun(j) \/ EndRun(j) \/ SaveSuccessor(j) \/ FreeWorker(j)
         \/ WorkerDies(j) \/ DeleteJob(j) \/ RequeueJob(j)
  PROVE  TypeOK'
<1> USE DEF TypeOK, history, bounds, refs, plugin
<1>0. job \in [Job -> JobRow] /\ job[j] \in JobRow
  OBVIOUS
<1>1. CASE Submit(j)
  <2>1. job' \in [Job -> JobRow]
    BY <1>0, <1>1, FreshType, SetJobType DEF Submit
  <2> QED
    BY <1>1, <2>1 DEF Submit
<1>2. CASE Queue(j) \/ Take(j) \/ FreeWorker(j)
  <2>1. job' \in [Job -> JobRow]
    BY <1>0, <1>2, SetJobType DEF Queue, Take, FreeWorker, JobRow
  <2> QED
    BY <1>2, <2>1 DEF Queue, Take, FreeWorker
<1>3. CASE StartRun(j)
  <2>1. job' \in [Job -> JobRow]
    BY <1>0, <1>3, SetJobType DEF StartRun, JobRow
  <2> QED
    BY <1>3, <2>1 DEF StartRun
<1>4. CASE RefuseRun(j) \/ EndRun(j)
  <2>1. job' \in [Job -> JobRow]
    BY <1>0, <1>4, SetJobType DEF RefuseRun, EndRun, JobRow
  <2> QED
    BY <1>4, <2>1 DEF RefuseRun, EndRun
<1>5. CASE SaveSuccessor(j)
  <2>1. job' \in [Job -> JobRow]
    BY <1>0, <1>5, FreshType DEF SaveSuccessor, SetJob, JobRow
  <2> QED
    BY <1>5, <2>1 DEF SaveSuccessor
<1>6. CASE WorkerDies(j)
  <2>1. job' \in [Job -> JobRow]
    BY <1>0, <1>6 DEF WorkerDies, JobRow
  <2> QED
    BY <1>6, <2>1 DEF WorkerDies
<1>9. CASE NeverQueued(j)
  <2>1. job' \in [Job -> JobRow]
    BY <1>0, <1>9, SetJobType DEF NeverQueued, JobRow
  <2> QED
    BY <1>9, <2>1 DEF NeverQueued
<1>7. CASE DeleteJob(j)
  <2>1. job' \in [Job -> JobRow]
    BY <1>0, <1>7, SetJobType DEF DeleteJob, JobRow
  <2> QED
    BY <1>7, <2>1 DEF DeleteJob
<1>8. CASE RequeueJob(j)
  <2>1. job' \in [Job -> JobRow]
    BY <1>0, <1>8, SetJobType DEF RequeueJob, JobRow
  <2> QED
    BY <1>8, <2>1 DEF RequeueJob
<1> QED
  BY <1>1, <1>2, <1>3, <1>4, <1>5, <1>6, <1>7, <1>8, <1>9

LEMMA EnvironmentTypes ==
  ASSUME TypeOK, Environment
  PROVE  TypeOK'
<1> USE DEF history, bounds, refs, plugin
<1>1. ASSUME NEW j \in Job,
             \/ Submit(j) \/ Queue(j) \/ NeverQueued(j) \/ Take(j) \/ StartRun(j)
             \/ RefuseRun(j) \/ EndRun(j) \/ SaveSuccessor(j) \/ FreeWorker(j)
             \/ WorkerDies(j) \/ DeleteJob(j) \/ RequeueJob(j)
      PROVE  TypeOK'
  BY <1>1, JobsMoveTypes
<1>2. ASSUME NEW p \in Project, Judge(p)
      PROVE  TypeOK'
  <2>1. proj' \in [Project -> ProjectRows]
    BY <1>2 DEF TypeOK, Judge, ProjectRows, ProjectRow, RevisionState
  <2> QED
    BY <1>2, <2>1 DEF TypeOK, Judge
<1>3. ASSUME NEW p \in Project, MoveProject(p)
      PROVE  TypeOK'
  <2>1. proj' \in [Project -> ProjectRows] /\ row' \in [Script -> ScriptRow]
    <3>0. proj \in [Project -> ProjectRows] /\ row \in [Script -> ScriptRow]
      BY DEF TypeOK
    <3>1. ASSUME NEW r \in {"older", "source"}, Promote(p, r)
          PROVE  proj' \in [Project -> ProjectRows] /\ row' \in [Script -> ScriptRow]
      BY <3>0, <3>1, PromoteType
    <3>2. ASSUME proj' = [proj EXCEPT
                    ![p].older = IF @ = "active" THEN "retired" ELSE @,
                    ![p].source = IF @ = "active" THEN "retired" ELSE @]
          PROVE  proj' \in [Project -> ProjectRows]
      <4> DEFINE new == [proj[p] EXCEPT
                    !.older = IF proj[p].older = "active" THEN "retired" ELSE proj[p].older,
                    !.source = IF proj[p].source = "active" THEN "retired" ELSE proj[p].source]
      <4>1. new \in ProjectRows
        BY <3>0 DEF ProjectRows, ProjectRow, RevisionState
      <4>2. proj' = [proj EXCEPT ![p] = new]
        BY <3>0, <3>2 DEF ProjectRows, ProjectRow
      <4> QED
        BY <3>0, <4>1, <4>2
    <3>3. ASSUME proj' = [proj EXCEPT ![p] =
                    [present |-> FALSE, older |-> "none", source |-> "none"]]
          PROVE  proj' \in [Project -> ProjectRows]
      BY <3>0, <3>3 DEF ProjectRows, ProjectRow, RevisionState
    <3>4. ASSUME row' = [s \in Script |-> IF s \in Mine(p) THEN "none" ELSE row[s]]
          PROVE  row' \in [Script -> ScriptRow]
      BY <3>0, <3>4 DEF ScriptRow
    <3> QED
      BY <1>3, <3>0, <3>1, <3>2, <3>3, <3>4, SynchronizedType DEF MoveProject
  <2> QED
    BY <1>3, <2>1 DEF TypeOK, MoveProject
<1>4. ASSUME NEW r \in Rule, WriteRule(r)
      PROVE  TypeOK'
  <2>1. rule' \in [Rule -> RuleRow]
    BY <1>4 DEF TypeOK, WriteRule, RuleRow
  <2> QED
    BY <1>4, <2>1 DEF TypeOK, WriteRule
<1> QED
  BY <1>1, <1>2, <1>3, <1>4 DEF Environment

-----------------------------------------------------------------------------
(* Types: the passes *)

LEMMA FixedItems ==
  /\ Covered \subseteq Item /\ CapturedJobs \subseteq Item /\ Script \subseteq Item
  /\ Job \subseteq Item /\ Rule \subseteq Item /\ Perm \subseteq Item
  /\ Project \subseteq Item /\ Module \subseteq Item
  /\ Covered \subseteq Project
BY MigrationConstants DEF Covered, CapturedJobs, Item, Target

LEMMA StagingTypes ==
  ASSUME TypeOK, Staging \/ PassDies
  PROVE  TypeOK'
<1> USE DEF history, bounds, refs, plugin, Elsewhere
<1>0. pass \in Pass /\ run \in RunRow
  BY DEF TypeOK
<1>1. CASE EnterStaging
  <2>1. run' \in RunRow
    BY <1>0, <1>1 DEF EnterStaging, RunRow
  <2>2. pass' \in Pass
    BY <1>1, BeginType, FixedItems DEF EnterStaging, Begin, Pc
  <2> QED
    BY <1>1, <2>1, <2>2 DEF EnterStaging, TypeOK
<1>2. ASSUME NEW p \in Project, StageProject(p)
      PROVE  TypeOK'
  <2>1. pass' \in Pass
    BY <1>0, <1>2 DEF StageProject, Pass
  <2>2. proj' \in [Project -> ProjectRows]
    <3> DEFINE new == [proj[p] EXCEPT
                  !.present = TRUE,
                  !.source = IF proj[p].source = "none" THEN "pending" ELSE proj[p].source]
    <3>1. proj \in [Project -> ProjectRows]
      BY DEF TypeOK
    <3>2. new \in ProjectRows
      BY <3>1 DEF ProjectRows, ProjectRow, RevisionState
    <3>3. CASE proj' = [proj EXCEPT ![p].present = TRUE,
                          ![p].source = IF @ = "none" THEN "pending" ELSE @]
      <4>1. proj' = [proj EXCEPT ![p] = new]
        BY <3>1, <3>3 DEF ProjectRows, ProjectRow
      <4> QED
        BY <3>1, <3>2, <4>1
    <3> QED
      BY <1>2, <3>1, <3>3 DEF StageProject
  <2> QED
    BY <1>2, <2>1, <2>2 DEF StageProject, TypeOK
<1>3. CASE EndStaging
  BY <1>3, RestType DEF EndStaging, Leave, TypeOK
<1>4. CASE PassDies
  BY <1>4, RestType DEF PassDies, Leave, TypeOK
<1> QED
  BY <1>1, <1>2, <1>3, <1>4 DEF Staging

LEMMA JournaledType ==
  ASSUME TypeOK, NEW j \in Job, NEW o \in Outcome, Journaled(j, o)
  PROVE  pass' \in Pass /\ journal' \in Journal
<1>1. pass \in Pass /\ journal \in Journal
  BY DEF TypeOK
<1>2. pass' \in Pass
  BY <1>1, NotedType DEF Journaled
<1>3. [pass.mem EXCEPT ![j] = o] \in [Job -> Outcome]
  BY <1>1, NotedType
<1> QED
  BY <1>1, <1>2, <1>3, JobEntryType DEF Journaled

LEMMA CancelTypes ==
  ASSUME TypeOK, NEW j \in Job,
         \/ CancelEntry(j) \/ RevokeTask(j) \/ FailJob(j) \/ RecordCancelled(j)
         \/ RereadJob(j)
  PROVE  TypeOK'
<1> USE DEF history, bounds, refs, plugin, Elsewhere
<1>0. pass \in Pass /\ journal \in Journal /\ job \in [Job -> JobRow]
  BY DEF TypeOK
<1>1. CASE CancelEntry(j)
  <2>1. pass' \in Pass /\ journal' \in Journal
    <3>1. ASSUME NEW o \in Outcome, pass' = Noted(j, o)
          PROVE  pass' \in Pass
      BY <1>0, <3>1, NotedType
    <3>2. ASSUME NEW o \in Outcome, Journaled(j, o)
          PROVE  pass' \in Pass /\ journal' \in Journal
      BY <3>2, JournaledType
    <3>3. CASE /\ journal' = [journal EXCEPT !.job = [pass.mem EXCEPT ![j] = "cancelling"]]
               /\ pass' = [pass EXCEPT !.mem[j] = "cancelling", !.pc = "revoke", !.at = j]
      <4>1. [pass.mem EXCEPT ![j] = "cancelling"] \in [Job -> Outcome]
        BY <1>0, PassFields DEF Outcome
      <4>2. j \in Item
        BY FixedItems
      <4>3. pass' \in Pass
        BY <1>0, <3>3, <4>1, <4>2 DEF Pass, Pc
      <4> QED
        BY <1>0, <3>3, <4>1, <4>3, JobEntryType
    <3> QED
      BY <1>0, <1>1, <3>1, <3>2, <3>3 DEF CancelEntry, CancelResolve, Outcome
  <2> QED
    BY <1>1, <2>1 DEF CancelEntry, CancelResolve, TypeOK
<1>2. CASE RevokeTask(j)
  <2>1. job' \in [Job -> JobRow]
    BY <1>0, <1>2, SetJobType DEF RevokeTask, JobRow
  <2>2. pass' \in Pass
    BY <1>0, <1>2, GotoType DEF RevokeTask, Goto, Pc
  <2> QED
    BY <1>2, <2>1, <2>2 DEF RevokeTask, TypeOK
<1>3. CASE FailJob(j)
  <2>1. job' \in [Job -> JobRow]
    BY <1>0, <1>3, SetJobType DEF FailJob, JobRow
  <2>2. pass' \in Pass
    BY <1>0, <1>3, GotoType DEF FailJob, Goto, Pc
  <2> QED
    BY <1>3, <2>1, <2>2 DEF FailJob, TypeOK
<1>4. CASE RecordCancelled(j)
  <2>1. pass' \in Pass /\ journal' \in Journal
    BY <1>4, JournaledType DEF RecordCancelled, Outcome
  <2> QED
    BY <1>4, <2>1 DEF RecordCancelled, TypeOK
<1>5. CASE RereadJob(j)
  <2>1. Overtaken(j) \in Outcome
    BY DEF Overtaken, Outcome
  <2>2. pass' \in Pass
    BY <1>0, <1>5, <2>1, NotedType DEF RereadJob
  <2> QED
    BY <1>5, <2>2 DEF RereadJob, TypeOK
<1> QED
  BY <1>1, <1>2, <1>3, <1>4, <1>5

LEMMA CaptureType ==
  ASSUME TypeOK, Capture
  PROVE  journal' \in Journal
<1>0. journal \in Journal
  BY DEF TypeOK
<1> DEFINE rules == [r \in Rule |->
              Recorded(journal.rule[r], Flag(rule[r].enabled), r \in LegacyRules)]
           perms == [q \in Perm |->
              Recorded(journal.perm[q], Flag(perm[q].enabled), q \in LegacyPerms)]
           jobs  == [j \in Job |-> IF NewlyWaiting(j) THEN "open" ELSE journal.job[j]]
<1>1. rules \in [Rule -> Captured] /\ perms \in [Perm -> Captured]
  BY <1>0, JournalFields, FlagType, RecordedType
<1>2. jobs \in [Job -> Outcome]
  BY <1>0, JournalFields DEF Outcome
<1>3. journal' = [journal EXCEPT !.frozen = TRUE, !.rule = rules, !.perm = perms,
                                 !.job = jobs]
  BY DEF Capture
<1> HIDE DEF rules, perms, jobs
<1> QED
  BY <1>0, <1>1, <1>2, <1>3 DEF Journal

LEMMA CutoverTypes ==
  ASSUME TypeOK, EnterCutover \/ CutoverSteps
  PROVE  TypeOK'
<1> USE DEF history, bounds, refs, plugin, Elsewhere
<1>0. /\ pass \in Pass /\ journal \in Journal /\ run \in RunRow
      /\ pass.mem \in [Job -> Outcome] /\ journal.job \in [Job -> Outcome]
  BY PassFields, JournalFields DEF TypeOK
<1>1. CASE EnterCutover
  <2>1. pass' \in Pass
    BY <1>1, BeginType DEF EnterCutover, Begin, Pc
  <2> QED
    BY <1>1, <2>1 DEF EnterCutover, TypeOK
<1>2. CASE CheckRunning
  <2>1. pass' \in Pass
    BY <1>0, <1>2, RestType, GotoType DEF CheckRunning, Leave, Goto, Pc
  <2>2. [j \in Job |-> IF j \in Running \cap CapturedJobs THEN "running"
                       ELSE journal.job[j]] \in [Job -> Outcome]
    BY <1>0 DEF Outcome
  <2>3. journal' \in Journal
    BY <1>0, <1>2, <2>2, JobEntryType DEF CheckRunning
  <2> QED
    BY <1>2, <2>1, <2>3 DEF CheckRunning, TypeOK
<1>3. CASE CheckServable
  <2>1. pass' \in Pass
    BY <1>0, <1>3, RestType, GotoType DEF CheckServable, Leave, Goto, Pc
  <2> QED
    BY <1>3, <2>1 DEF CheckServable, TypeOK
<1>4. CASE Capture
  <2>1. pass' \in Pass
    BY <1>0, <1>4, GotoType DEF Capture, Goto, Pc
  <2> QED
    BY <1>4, <2>1, CaptureType DEF Capture, TypeOK
<1>5. CASE AdvanceToCutover
  <2>1. pass' \in Pass
    BY <1>0, <1>5, GotoType DEF AdvanceToCutover, Goto, Pc
  <2>2. run' \in RunRow
    BY <1>0, <1>5 DEF AdvanceToCutover, Moved, RunRow
  <2> QED
    BY <1>5, <2>1, <2>2 DEF AdvanceToCutover, TypeOK
<1>6. CASE ClosePermissions
  <2>1. pass' \in Pass
    BY <1>0, <1>6, GotoType DEF ClosePermissions, Goto, Pc
  <2>2. perm' \in [Perm -> PermRow]
    BY <1>6 DEF ClosePermissions, PermRow, TypeOK
  <2> QED
    BY <1>6, <2>1, <2>2 DEF ClosePermissions, TypeOK
<1>7. CASE CloseRules
  <2>1. pass' \in Pass
    BY <1>0, <1>7, FixedItems DEF CloseRules, Pass, Pc
  <2>2. rule' \in [Rule -> RuleRow]
    BY <1>7 DEF CloseRules, RuleRow, TypeOK
  <2> QED
    BY <1>7, <2>1, <2>2 DEF CloseRules, TypeOK
<1>8. CASE RecordOutcomes
  <2>1. pass' \in Pass
    BY <1>0, <1>8, GotoType DEF RecordOutcomes, Goto, Pc
  <2>2. journal' \in Journal
    BY <1>0, <1>8, JobEntryType DEF RecordOutcomes
  <2> QED
    BY <1>8, <2>1, <2>2 DEF RecordOutcomes, TypeOK
<1>9. CASE RecordSynced
  <2>1. pass' \in Pass
    BY <1>0, <1>9, GotoType DEF RecordSynced, Goto, Pc
  <2>2. ListSynced \subseteq Module
    BY <1>0, JournalFields DEF ListSynced, TypeOK
  <2>3. journal' \in Journal
    BY <1>0, <1>9, <2>2 DEF RecordSynced, Journal
  <2> QED
    BY <1>9, <2>1, <2>3 DEF RecordSynced, TypeOK
<1>10. CASE DropSync
  <2>1. pass' \in Pass
    BY <1>0, <1>10, GotoType DEF DropSync, Goto, Pc
  <2> QED
    BY <1>10, <2>1 DEF DropSync, TypeOK
<1>11. CASE CheckUnfinished
  <2>1. pass' \in Pass
    BY <1>0, <1>11, GotoType, RestType DEF CheckUnfinished, Goto, Leave, Pc
  <2> QED
    BY <1>11, <2>1 DEF CheckUnfinished, TypeOK
<1>12. CASE CompleteCutover
  <2>1. run' \in RunRow
    BY <1>0, <1>12 DEF CompleteCutover, Complete, RunRow, Step
  <2> QED
    BY <1>12, <2>1, RestType DEF CompleteCutover, Leave, TypeOK
<1> QED
  BY <1>1, <1>2, <1>3, <1>4, <1>5, <1>6, <1>7, <1>8, <1>9, <1>10, <1>11, <1>12,
     CancelTypes DEF CutoverSteps

LEMMA ActivationTypes ==
  ASSUME TypeOK, Activation
  PROVE  TypeOK'
<1> USE DEF history, bounds, refs, plugin, Elsewhere
<1>0. /\ pass \in Pass /\ journal \in Journal /\ run \in RunRow
      /\ proj \in [Project -> ProjectRows] /\ row \in [Script -> ScriptRow]
  BY DEF TypeOK
<1>1. CASE EnterActivation
  <2>1. pass' \in Pass
    BY <1>1, BeginType, FixedItems DEF EnterActivation, Begin, Pc
  <2> QED
    BY <1>1, <2>1 DEF EnterActivation, TypeOK
<1>2. ASSUME NEW p \in Project, ActivateProject(p)
      PROVE  TypeOK'
  <2>1. pass' \in Pass
    BY <1>0, <1>2, FixedItems DEF ActivateProject, Pass
  <2>2. Choice(p) \subseteq {"older", "source"}
    BY DEF Choice
  <2>3. proj' \in [Project -> ProjectRows] /\ row' \in [Script -> ScriptRow]
    BY <1>0, <1>2, <2>2, PromoteType DEF ActivateProject
  <2> QED
    BY <1>2, <2>1, <2>3 DEF ActivateProject, TypeOK
<1>3. CASE CompleteActivation
  <2>1. journal.activated \cup pass.kept \subseteq Item
    BY <1>0, JournalFields, PassFields
  <2>2. journal' \in Journal
    BY <1>0, <1>3, <2>1 DEF CompleteActivation, Journal
  <2>3. run' \in RunRow
    BY <1>0, <1>3 DEF CompleteActivation, Complete, RunRow, Step
  <2> QED
    BY <1>3, <2>2, <2>3, RestType DEF CompleteActivation, Leave, TypeOK
<1> QED
  BY <1>1, <1>2, <1>3 DEF Activation

LEMMA ReferencesTypes ==
  ASSUME TypeOK, References
  PROVE  TypeOK'
<1> USE DEF history, bounds, refs, plugin, Elsewhere
<1>0. /\ pass \in Pass /\ journal \in Journal /\ run \in RunRow
      /\ row \in [Script -> ScriptRow] /\ rule \in [Rule -> RuleRow]
      /\ perm \in [Perm -> PermRow] /\ job \in [Job -> JobRow]
      /\ copy \in [Job -> Copy]
  BY DEF TypeOK
<1>1. CASE EnterReferences
  <2>1. pass' \in Pass
    BY <1>1, BeginType DEF EnterReferences, Begin, Pc
  <2> QED
    BY <1>1, <2>1 DEF EnterReferences, TypeOK
<1>2. CASE BeginRules
  <2>1. {r \in Rule : journal.rule[r] # "absent"} \subseteq Item
    BY FixedItems
  <2>2. pass' \in Pass
    BY <1>0, <1>2, <2>1, GotoType, RestType, ResolveType DEF BeginRules, Goto, Leave, Pc
  <2> QED
    BY <1>2, <2>2 DEF BeginRules, TypeOK
<1>3. ASSUME NEW r \in Rule, RepointRule(r)
      PROVE  TypeOK'
  <2>1. pass' \in Pass
    <3>1. \E held \in BOOLEAN : Finished(r, held)
      BY <1>3 DEF RepointRule
    <3> QED
      BY <1>0, <3>1, FinishedType
  <2>2. \A moved \in BOOLEAN : Repointed(r, moved) \in RuleRow
    BY <1>0 DEF Repointed, RuleRow
  <2>3. rule' = rule \/ \E moved \in BOOLEAN : rule' = [rule EXCEPT ![r] = Repointed(r, moved)]
    BY <1>3 DEF RepointRule
  <2>4. rule' \in [Rule -> RuleRow]
    BY <1>0, <2>2, <2>3
  <2> QED
    BY <1>3, <2>1, <2>4 DEF RepointRule, TypeOK
<1>4. CASE EndRules
  <2>1. pass' \in Pass
    BY <1>0, <1>4, GotoType DEF EndRules, Goto, Pc
  <2>2. run' \in RunRow
    BY <1>0, <1>4 DEF EndRules, Settle, Complete, RunRow, Step
  <2> QED
    BY <1>4, <2>1, <2>2 DEF EndRules, TypeOK
<1>5. CASE BeginPermissions
  <2>1. {q \in Perm : journal.perm[q] # "absent"} \subseteq Item
    BY FixedItems
  <2>2. CASE Done("permissions")
    BY <1>0, <1>5, <2>2, GotoType DEF BeginPermissions, Goto, Pc, TypeOK
  <2>3. CASE ~Done("permissions")
    <3>1. pass' = [Rest EXCEPT !.pc = "swap", !.todo = {q \in Perm : journal.perm[q] # "absent"}]
      BY <1>5, <2>3 DEF BeginPermissions, Begin
    <3>2. pass' \in Pass
      BY <2>1, <3>1, BeginType DEF Pc
    <3> QED
      BY <1>5, <3>2 DEF BeginPermissions, TypeOK
  <2> QED
    BY <2>2, <2>3
<1>6. ASSUME NEW q \in Perm, MovePermission(q)
      PROVE  TypeOK'
  <2>1. pass' \in Pass
    <3>1. Finished(q, FALSE)
      BY <1>6 DEF MovePermission
    <3> QED
      BY <1>0, <3>1, FinishedType
  <2>2. ASSUME Swapped(q) PROVE perm' \in [Perm -> PermRow] /\ journal' \in Journal
    <3> DEFINE new == [perm[q] EXCEPT !.types = {"plugin"},
                                      !.enabled = journal.perm[q] = "enabled"]
    <3>1. new \in PermRow
      BY <1>0 DEF PermRow
    <3>2. perm' = [perm EXCEPT ![q] = new]
      BY <1>0, <2>2 DEF Swapped, PermRow
    <3> QED
      BY <1>0, <2>2, <3>1, <3>2 DEF Swapped
  <2>3. ASSUME SplitOff(q) PROVE perm' \in [Perm -> PermRow] /\ journal' \in Journal
    <3>1. CASE UNCHANGED <<perm, journal>>
      BY <1>0, <3>1
    <3>2. CASE ~AlreadySplit(q)
      <4>1. journal' \in Journal
        BY <1>0, <2>3, <3>2 DEF SplitOff, Journal
      <4>2. journal.perm[q] \in Captured
        BY <1>0, JournalFields
      <4>3. perm' \in [Perm -> PermRow]
        BY <1>0, <2>3, <3>2, <4>2 DEF SplitOff, PermRow
      <4> QED
        BY <4>1, <4>3
    <3> QED
      BY <2>3, <3>1, <3>2 DEF SplitOff
  <2>4. perm' \in [Perm -> PermRow] /\ journal' \in Journal
    BY <1>0, <1>6, <2>2, <2>3 DEF MovePermission
  <2> QED
    BY <1>6, <2>1, <2>4 DEF MovePermission, TypeOK
<1>7. CASE EndPermissions
  <2>1. pass' \in Pass
    BY <1>0, <1>7, GotoType DEF EndPermissions, Goto, Pc
  <2>2. run' \in RunRow
    BY <1>0, <1>7 DEF EndPermissions, Complete, RunRow, Step
  <2> QED
    BY <1>7, <2>1, <2>2 DEF EndPermissions, TypeOK
<1>8. CASE BeginHistory
  <2>1. {s \in Mapped : row[s] # "none"} \subseteq Item
    BY FixedItems DEF Mapped
  <2>2. pass' \in Pass
    BY <1>0, <1>8, <2>1, GotoType, RestType, ResolveType DEF BeginHistory, Goto, Leave, Pc
  <2> QED
    BY <1>8, <2>2 DEF BeginHistory, TypeOK
<1>9. ASSUME NEW s \in Script, MoveHistory(s)
      PROVE  TypeOK'
  <2>1. pass' \in Pass
    BY <1>0, <1>9, FinishedType DEF MoveHistory
  <2>2. job' \in [Job -> JobRow]
    BY <1>0, <1>9 DEF MoveHistory, JobRow
  <2> QED
    BY <1>9, <2>1, <2>2 DEF MoveHistory, TypeOK
<1>10. CASE EndHistory
  <2>1. pass' \in Pass
    BY <1>0, <1>10, GotoType DEF EndHistory, Goto, Pc
  <2>2. run' \in RunRow
    BY <1>0, <1>10 DEF EndHistory, Complete, RunRow, Step
  <2> QED
    BY <1>10, <2>1, <2>2 DEF EndHistory, TypeOK
<1>11. CASE BeginSchedules
  <2>1. pass' \in Pass
    BY <1>0, <1>11, FixedItems, RestType, ResolveType DEF BeginSchedules, Leave, Pc
  <2> QED
    BY <1>11, <2>1 DEF BeginSchedules, TypeOK
<1>12. ASSUME NEW j \in Job, ReplayEntry(j)
       PROVE  TypeOK'
  <2>1. pass' \in Pass
    BY <1>0, <1>12, FinishedType, AtType, FixedItems DEF ReplayEntry, Pc
  <2> QED
    BY <1>12, <2>1 DEF ReplayEntry, TypeOK
<1>13. ASSUME NEW j \in Job, Recreate(j)
       PROVE  TypeOK'
  <2>1. pass' \in Pass
    BY <1>0, <1>13, GotoType DEF Recreate, Goto, Pc
  <2>2. copy' \in [Job -> Copy]
    BY <1>0, <1>13 DEF Recreate, Copy
  <2>3. journal' \in Journal
    BY <1>0, <1>13 DEF Recreate, RecordCopy, Journal
  <2> QED
    BY <1>13, <2>1, <2>2, <2>3 DEF Recreate, TypeOK
<1>14. ASSUME NEW j \in Job, HandOver(j)
       PROVE  TypeOK'
  <2>1. pass' \in Pass
    BY <1>0, <1>14, BackType DEF HandOver, Pc
  <2>2. copy' \in [Job -> Copy]
    BY <1>0, <1>14 DEF HandOver, Copy
  <2> QED
    BY <1>14, <2>1, <2>2 DEF HandOver, TypeOK
<1>15. CASE EndSchedules
  <2>1. run' \in RunRow
    BY <1>0, <1>15 DEF EndSchedules, Settle, Complete, RunRow, Step
  <2> QED
    BY <1>15, <2>1, RestType DEF EndSchedules, Leave, TypeOK
<1> QED
  BY <1>1, <1>2, <1>3, <1>4, <1>5, <1>6, <1>7, <1>8, <1>9, <1>10, <1>11, <1>12,
     <1>13, <1>14, <1>15 DEF References

LEMMA CleanupTypes ==
  ASSUME TypeOK, Cleanup
  PROVE  TypeOK'
<1> USE DEF history, bounds, refs, plugin, Elsewhere
<1>0. /\ pass \in Pass /\ run \in RunRow /\ rule \in [Rule -> RuleRow]
      /\ job \in [Job -> JobRow] /\ module \subseteq Module
  BY DEF TypeOK
<1>1. CASE BeginCleanup
  <2>1. /\ {m \in module : ProjectOf[m] \notin NotServing} \in SUBSET Item
        /\ {m \in module : Stranded(m)} \in SUBSET Item
        /\ (NotServing # {}) \in BOOLEAN
    BY <1>0, FixedItems
  <2>2. pass' \in Pass
    BY <1>1, <2>1, RestType DEF BeginCleanup, Pass, Pc
  <2> QED
    BY <1>1, <2>2 DEF BeginCleanup, TypeOK
<1>2. ASSUME NEW m \in Module, CheckModule(m)
      PROVE  TypeOK'
  <2>1. pass' \in Pass
    BY <1>0, <1>2, FinishedType, AtType, FixedItems DEF CheckModule, Pc
  <2> QED
    BY <1>2, <2>1 DEF CheckModule, TypeOK
<1>3. ASSUME NEW m \in Module, DeleteModule(m)
      PROVE  TypeOK'
  <2>1. pass' \in Pass
    BY <1>0, <1>3, BackType DEF DeleteModule, Pc
  <2>2. job' \in [Job -> JobRow]
    BY <1>0, <1>3 DEF DeleteModule, JobRow
  <2>3. rule' \in [Rule -> RuleRow]
    BY <1>0, <1>3 DEF DeleteModule, RuleRow
  <2> QED
    BY <1>0, <1>3, <2>1, <2>2, <2>3 DEF DeleteModule, TypeOK
<1>4. CASE EndCleanup
  <2>1. run' \in RunRow
    BY <1>0, <1>4 DEF EndCleanup, Moved, RunRow, Step
  <2> QED
    BY <1>4, <2>1, RestType DEF EndCleanup, Leave, TypeOK
<1> QED
  BY <1>1, <1>2, <1>3, <1>4 DEF Cleanup

-----------------------------------------------------------------------------
(* What a step does to built-in Jobs, to the journal of schedules and to the *)
(* place of the pass                                                         *)

CancelPcs == {"cancel", "revoke", "fail", "record", "reread"}
FinalPcs  == {"list", "drop", "finish", "complete"}
ReplayPcs == {"replay", "enqueue", "handoff"}
Early     == {"check", "gate", "capture", "advance", "perms", "rules"}
               \cup CancelPcs \cup FinalPcs
Late      == {"resolve", "repoint", "grants", "swap", "history", "move",
              "schedules", "modules", "delete"} \cup ReplayPcs

Still(j) == job'[j].status = job[j].status /\ job'[j].started = job[j].started

AllStill == (\A j \in Job : Still(j)) /\ UNCHANGED <<ran, tampered>>

OthersStill(k) == \A j \in Job \ {k} : Still(j)

Begins(k) ==
    /\ job[k].status = "absent" /\ job'[k].status = "waiting" /\ ~job'[k].started
    /\ OthersStill(k) /\ UNCHANGED <<ran, tampered>>

Starts(k) ==
    /\ job[k].status = "waiting" /\ job'[k].status = "running" /\ job'[k].started
    /\ OthersStill(k) /\ ran' = ran \cup {k} /\ UNCHANGED tampered

Ends(k) ==
    /\ job[k].status = "running" /\ job'[k].status = "done"
    /\ job'[k].started = job[k].started
    /\ OthersStill(k) /\ UNCHANGED <<ran, tampered>>

Tampers(k) ==
    /\ job[k].status # "absent" /\ job'[k].status # "absent"
    /\ OthersStill(k) /\ tampered' = tampered \cup {k} /\ UNCHANGED ran

JobsMove ==
    AllStill \/ \E k \in Job : Begins(k) \/ Starts(k) \/ Ends(k) \/ Tampers(k)

LEMMA EnvironmentMoves ==
  ASSUME TypeOK, Environment
  PROVE  JobsMove /\ UNCHANGED <<run, journal, pass, copy>>
<1> USE DEF history, bounds, refs, plugin
<1>0. \A j \in Job : job[j] \in JobRow
  BY DEF TypeOK
<1>1. ASSUME NEW j \in Job, Submit(j)
      PROVE  Begins(j) /\ UNCHANGED <<run, journal, pass, copy>>
  BY <1>1 DEF TypeOK, Submit, SetJob, Fresh, Begins, OthersStill, Still
<1>2. ASSUME NEW j \in Job,
             \/ Queue(j) \/ NeverQueued(j) \/ Take(j) \/ RefuseRun(j)
             \/ FreeWorker(j) \/ WorkerDies(j)
      PROVE  AllStill /\ UNCHANGED <<run, journal, pass, copy>>
  <2>1. CASE Queue(j) \/ NeverQueued(j) \/ Take(j) \/ RefuseRun(j) \/ FreeWorker(j)
    BY <1>0, <2>1 DEF TypeOK, Queue, NeverQueued, Take, RefuseRun, FreeWorker, SetJob,
                      AllStill, Still, JobRow
  <2>2. CASE WorkerDies(j)
    BY <1>0, <2>2 DEF WorkerDies, AllStill, Still, JobRow
  <2> QED
    BY <1>2, <2>1, <2>2
<1>3. ASSUME NEW j \in Job, StartRun(j)
      PROVE  Starts(j) /\ UNCHANGED <<run, journal, pass, copy>>
  BY <1>0, <1>3 DEF TypeOK, StartRun, MayStart, SetJob, Starts, OthersStill, Still, JobRow
<1>4. ASSUME NEW j \in Job, EndRun(j)
      PROVE  Ends(j) /\ UNCHANGED <<run, journal, pass, copy>>
  BY <1>0, <1>4 DEF TypeOK, EndRun, SetJob, Ends, OthersStill, Still, JobRow
<1>5. ASSUME NEW j \in Job, SaveSuccessor(j)
      PROVE  JobsMove /\ UNCHANGED <<run, journal, pass, copy>>
  <2> DEFINE k == Successor[j]
  <2>1. /\ UNCHANGED <<run, journal, pass, copy, ran, tampered>>
        /\ job[k].status = "absent" /\ job' = [job EXCEPT ![k] = Fresh("owed")]
    BY <1>5 DEF SaveSuccessor, SetJob
  <2>2. CASE k \in Job
    <3>1. Begins(k)
      BY <2>1, <2>2 DEF TypeOK, Begins, OthersStill, Still, Fresh
    <3> QED
      BY <2>1, <2>2, <3>1 DEF JobsMove
  <2>3. CASE k \notin Job
    BY <2>1, <2>3 DEF TypeOK, JobsMove, AllStill, Still
  <2> QED
    BY <2>2, <2>3
<1>6. ASSUME NEW j \in Job, DeleteJob(j) \/ RequeueJob(j)
      PROVE  Tampers(j) /\ UNCHANGED <<run, journal, pass, copy>>
  <2>1. CASE DeleteJob(j)
    BY <1>0, <2>1 DEF TypeOK, DeleteJob, SetJob, Tampers, OthersStill, Still, JobRow
  <2>2. CASE RequeueJob(j)
    BY <1>0, <2>2 DEF TypeOK, RequeueJob, SetJob, Tampers, OthersStill, Still, JobRow
  <2> QED
    BY <1>6, <2>1, <2>2
<1>7. ASSUME NEW p \in Project, Judge(p) \/ MoveProject(p)
      PROVE  AllStill /\ UNCHANGED <<run, journal, pass, copy>>
  BY <1>7 DEF Judge, MoveProject, AllStill, Still
<1>8. ASSUME NEW r \in Rule, WriteRule(r)
      PROVE  AllStill /\ UNCHANGED <<run, journal, pass, copy>>
  BY <1>8 DEF WriteRule, AllStill, Still
<1> QED
  BY <1>1, <1>2, <1>3, <1>4, <1>5, <1>6, <1>7, <1>8 DEF Environment, JobsMove

\* The pass goes on, or another begins, and leaves schedules alone.
Walks ==
    /\ AllStill /\ UNCHANGED copy
    /\ journal'.job = journal.job /\ journal'.recreated = journal.recreated
    /\ run.steps \subseteq run'.steps
    /\ run'.steps \subseteq run.steps \cup {"activate", "rules", "permissions", "history", "cleanup"}
    /\ pass'.pc \notin CancelPcs \cup ReplayPcs
    /\ pass'.pc \in Early => ~Done("cutover")
    /\ pass'.pc \in Late => Done("cutover")
    /\ pass'.pc \in FinalPcs => pass.pc \in FinalPcs

\* A pass that cancels is not past the fence, one that replays is.
PhaseInv ==
    /\ pass.pc \in Early => ~Done("cutover")
    /\ pass.pc \in Late => Done("cutover")

PlainCutoverSteps ==
    \/ CheckServable \/ AdvanceToCutover \/ ClosePermissions \/ RecordSynced
    \/ DropSync \/ CheckUnfinished

PlainReferences ==
    \/ EnterReferences \/ BeginRules \/ EndRules \/ BeginPermissions \/ EndPermissions
    \/ BeginHistory \/ EndHistory
    \/ \E r \in Rule : RepointRule(r)
    \/ \E q \in Perm : MovePermission(q)
    \/ \E s \in Script : MoveHistory(s)

PlainCleanup ==
    BeginCleanup \/ EndCleanup \/ \E m \in Module : CheckModule(m)

\* Everything but the actions named below.
Plain ==
    \/ Staging \/ PassDies \/ EnterCutover \/ PlainCutoverSteps \/ Activation
    \/ PlainReferences \/ PlainCleanup

LEMMA KeepsJobs ==
  ASSUME UNCHANGED <<job, ran, tampered>>
  PROVE  AllStill
BY DEF AllStill, Still

LEMMA RestPc == Rest.pc = "idle"
BY DEF Rest

LEMMA StagingWalks ==
  ASSUME TypeOK, PhaseInv, Staging \/ PassDies \/ EnterCutover
  PROVE  Walks
<1> USE DEF history, bounds, refs, plugin, Elsewhere, Early, Late, CancelPcs, ReplayPcs,
            FinalPcs, Done
<1>0. pass \in Pass /\ run \in RunRow
  BY DEF TypeOK
<1>1. CASE EnterStaging
  <2>1. pass'.pc = "stage" /\ run'.steps = run.steps
    BY <1>0, <1>1 DEF EnterStaging, Begin, Rest, RunRow
  <2> QED
    BY <1>1, <2>1, KeepsJobs DEF EnterStaging, Walks
<1>2. ASSUME NEW p \in Project, StageProject(p)
      PROVE  Walks
  <2>1. pass'.pc = "stage"
    BY <1>0, <1>2 DEF StageProject, At, Pass
  <2> QED
    BY <1>2, <2>1, KeepsJobs DEF StageProject, Walks
<1>3. CASE EndStaging
  BY <1>3, RestPc, KeepsJobs DEF EndStaging, Leave, Walks
<1>4. CASE PassDies
  BY <1>4, RestPc, KeepsJobs DEF PassDies, Leave, Walks
<1>5. CASE EnterCutover
  <2>1. pass'.pc = "check"
    BY <1>5 DEF EnterCutover, Begin, Rest
  <2> QED
    BY <1>5, <2>1, KeepsJobs DEF EnterCutover, Walks
<1> QED
  BY <1>1, <1>2, <1>3, <1>4, <1>5 DEF Staging

LEMMA GotoPc ==
  ASSUME TypeOK, NEW pc, Goto(pc)
  PROVE  pass'.pc = pc
BY DEF TypeOK, Pass, Goto

LEMMA CutoverWalks ==
  ASSUME TypeOK, PhaseInv, PlainCutoverSteps
  PROVE  Walks
<1> USE DEF history, bounds, refs, plugin, Elsewhere, Early, Late, CancelPcs, ReplayPcs,
            FinalPcs, PhaseInv, At
<1>1. CASE CheckServable
  <2>1. pass'.pc \in {"capture", "idle"} /\ pass.pc = "gate"
    BY <1>1, GotoPc, RestPc DEF CheckServable, Leave
  <2> QED
    BY <1>1, <2>1, KeepsJobs DEF CheckServable, Walks
<1>2. CASE AdvanceToCutover
  <2>1. pass'.pc = "perms" /\ pass.pc = "advance" /\ run'.steps = run.steps
    BY <1>2, GotoPc DEF AdvanceToCutover, Moved, TypeOK, RunRow
  <2> QED
    BY <1>2, <2>1, KeepsJobs DEF AdvanceToCutover, Walks
<1>3. CASE ClosePermissions
  <2>1. pass'.pc = "rules" /\ pass.pc = "perms"
    BY <1>3, GotoPc DEF ClosePermissions
  <2> QED
    BY <1>3, <2>1, KeepsJobs DEF ClosePermissions, Walks
<1>4. CASE RecordSynced
  <2>1. pass'.pc = "drop" /\ pass.pc = "list"
    BY <1>4, GotoPc DEF RecordSynced
  <2>2. journal'.job = journal.job /\ journal'.recreated = journal.recreated
    BY <1>4 DEF RecordSynced, TypeOK, Journal
  <2> QED
    BY <1>4, <2>1, <2>2, KeepsJobs DEF RecordSynced, Walks
<1>5. CASE DropSync
  <2>1. pass'.pc = "finish" /\ pass.pc = "drop"
    BY <1>5, GotoPc DEF DropSync
  <2> QED
    BY <1>5, <2>1, KeepsJobs DEF DropSync, Walks
<1>6. CASE CheckUnfinished
  <2>1. pass'.pc \in {"complete", "idle"} /\ pass.pc = "finish"
    BY <1>6, GotoPc, RestPc DEF CheckUnfinished, Leave
  <2> QED
    BY <1>6, <2>1, KeepsJobs DEF CheckUnfinished, Walks
<1> QED
  BY <1>1, <1>2, <1>3, <1>4, <1>5, <1>6 DEF PlainCutoverSteps

LEMMA CompletesStep ==
  ASSUME TypeOK, NEW step, Complete(step)
  PROVE  run'.steps = run.steps \cup {step}
BY DEF TypeOK, RunRow, Complete

LEMMA ActivationWalks ==
  ASSUME TypeOK, PhaseInv, Activation
  PROVE  Walks
<1> USE DEF history, bounds, refs, plugin, Elsewhere, Early, Late, CancelPcs, ReplayPcs,
            FinalPcs, At
<1>1. CASE EnterActivation
  <2>1. pass'.pc = "activate"
    BY <1>1 DEF EnterActivation, Begin, Rest
  <2> QED
    BY <1>1, <2>1, KeepsJobs DEF EnterActivation, Walks
<1>2. ASSUME NEW p \in Project, ActivateProject(p)
      PROVE  Walks
  <2>1. pass'.pc = "activate"
    BY <1>2 DEF ActivateProject, TypeOK, Pass
  <2> QED
    BY <1>2, <2>1, KeepsJobs DEF ActivateProject, Walks
<1>3. CASE CompleteActivation
  <2>1. journal'.job = journal.job /\ journal'.recreated = journal.recreated
    BY <1>3 DEF CompleteActivation, TypeOK, Journal
  <2>2. run'.steps = run.steps \cup {"activate"}
    BY <1>3, CompletesStep DEF CompleteActivation
  <2> QED
    BY <1>3, <2>1, <2>2, RestPc, KeepsJobs DEF CompleteActivation, Leave, Walks
<1> QED
  BY <1>1, <1>2, <1>3 DEF Activation

LEMMA FinishedPc ==
  ASSUME TypeOK, NEW i, NEW held, Finished(i, held)
  PROVE  pass'.pc = pass.pc
BY DEF TypeOK, Pass, Finished

LEMMA ResolvePc ==
  ASSUME NEW pc, NEW items, Resolve(pc, items)
  PROVE  pass'.pc = pc
BY DEF Resolve, Rest

LEMMA ReferencesWalk ==
  ASSUME TypeOK, PhaseInv, PlainReferences
  PROVE  Walks
<1> USE DEF history, bounds, refs, plugin, Elsewhere, Early, Late, CancelPcs, ReplayPcs,
            FinalPcs, PhaseInv, At
<1>1. CASE EnterReferences
  <2>1. pass'.pc = "resolve" /\ Done("cutover")
    BY <1>1 DEF EnterReferences, Referring, Begin, Rest
  <2> QED
    BY <1>1, <2>1, KeepsJobs DEF EnterReferences, Walks
<1>2. CASE BeginRules
  <2>1. pass'.pc \in {"idle", "grants", "repoint"} /\ pass.pc = "resolve"
    BY <1>2, GotoPc, RestPc, ResolvePc DEF BeginRules, Leave
  <2> QED
    BY <1>2, <2>1, KeepsJobs DEF BeginRules, Walks
<1>3. CASE EndRules
  <2>1. pass'.pc = "grants" /\ pass.pc = "repoint"
    BY <1>3, GotoPc DEF EndRules
  <2>2. run'.steps = run.steps \/ run'.steps = run.steps \cup {"rules"}
    BY <1>3, CompletesStep DEF EndRules, Settle
  <2> QED
    BY <1>3, <2>1, <2>2, KeepsJobs DEF EndRules, Walks
<1>4. CASE BeginPermissions
  <2>1. pass'.pc \in {"history", "swap"} /\ pass.pc = "grants"
    <3>1. CASE Done("permissions")
      BY <1>4, <3>1, GotoPc DEF BeginPermissions
    <3>2. CASE ~Done("permissions")
      BY <1>4, <3>2 DEF BeginPermissions, Begin, Rest
    <3> QED
      BY <3>1, <3>2
  <2> QED
    BY <1>4, <2>1, KeepsJobs DEF BeginPermissions, Walks
<1>5. CASE EndPermissions
  <2>1. pass'.pc = "history" /\ pass.pc = "swap"
    BY <1>5, GotoPc DEF EndPermissions
  <2>2. run'.steps = run.steps \cup {"permissions"}
    BY <1>5, CompletesStep DEF EndPermissions
  <2> QED
    BY <1>5, <2>1, <2>2, KeepsJobs DEF EndPermissions, Walks
<1>6. CASE BeginHistory
  <2>1. pass'.pc \in {"idle", "schedules", "move"} /\ pass.pc = "history"
    BY <1>6, GotoPc, RestPc, ResolvePc DEF BeginHistory, Leave
  <2> QED
    BY <1>6, <2>1, KeepsJobs DEF BeginHistory, Walks
<1>7. CASE EndHistory
  <2>1. pass'.pc = "schedules" /\ pass.pc = "move"
    BY <1>7, GotoPc DEF EndHistory
  <2>2. run'.steps = run.steps \/ run'.steps = run.steps \cup {"history"}
    BY <1>7, CompletesStep DEF EndHistory
  <2> QED
    BY <1>7, <2>1, <2>2, KeepsJobs DEF EndHistory, Walks
<1>8. ASSUME NEW r \in Rule, RepointRule(r)
      PROVE  Walks
  <2>1. pass'.pc = "repoint" /\ pass.pc = "repoint"
    BY <1>8, FinishedPc DEF RepointRule
  <2> QED
    BY <1>8, <2>1, KeepsJobs DEF RepointRule, Walks
<1>9. ASSUME NEW q \in Perm, MovePermission(q)
      PROVE  Walks
  <2>1. pass'.pc = "swap" /\ pass.pc = "swap"
    BY <1>9, FinishedPc DEF MovePermission
  <2>2. journal'.job = journal.job /\ journal'.recreated = journal.recreated
    <3>1. journal \in Journal
      BY DEF TypeOK
    <3>2. journal' = journal \/ journal' = [journal EXCEPT !.split = @ \cup {q}]
      BY <1>9 DEF MovePermission, Swapped, SplitOff
    <3> QED
      BY <3>1, <3>2 DEF Journal
  <2> QED
    BY <1>9, <2>1, <2>2, KeepsJobs DEF MovePermission, Walks
<1>10. ASSUME NEW s \in Script, MoveHistory(s)
       PROVE  Walks
  <2>1. pass'.pc = "move" /\ pass.pc = "move"
    BY <1>10, FinishedPc DEF MoveHistory
  <2>2. AllStill
    BY <1>10 DEF MoveHistory, AllStill, Still, TypeOK, JobRow
  <2> QED
    BY <1>10, <2>1, <2>2 DEF MoveHistory, Walks
<1> QED
  BY <1>1, <1>2, <1>3, <1>4, <1>5, <1>6, <1>7, <1>8, <1>9, <1>10 DEF PlainReferences

LEMMA CleanupWalks ==
  ASSUME TypeOK, PhaseInv, PlainCleanup
  PROVE  Walks
<1> USE DEF history, bounds, refs, plugin, Elsewhere, Early, Late, CancelPcs, ReplayPcs,
            FinalPcs, PhaseInv, At
<1>1. CASE BeginCleanup
  <2>1. pass'.pc = "modules" /\ Done("cutover")
    BY <1>1 DEF BeginCleanup, Rest
  <2> QED
    BY <1>1, <2>1, KeepsJobs DEF BeginCleanup, Walks
<1>2. CASE EndCleanup
  <2>1. run.steps \subseteq run'.steps /\ run'.steps \subseteq run.steps \cup {"cleanup"}
    BY <1>2 DEF EndCleanup, Moved, TypeOK, RunRow
  <2> QED
    BY <1>2, <2>1, KeepsJobs, RestPc DEF EndCleanup, Leave, Walks
<1>3. ASSUME NEW m \in Module, CheckModule(m)
      PROVE  Walks
  <2>1. pass'.pc \in {"modules", "delete"} /\ pass.pc = "modules"
    BY <1>3, FinishedPc DEF CheckModule, TypeOK, Pass
  <2> QED
    BY <1>3, <2>1, KeepsJobs DEF CheckModule, Walks
<1> QED
  BY <1>1, <1>2, <1>3 DEF PlainCleanup

LEMMA PlainWalks == TypeOK /\ PhaseInv /\ Plain => Walks
BY StagingWalks, CutoverWalks, ActivationWalks, ReferencesWalk, CleanupWalks DEF Plain

\* The steps of the ledger: the fence's own, the replay's and a deletion.
Cancels ==
    \/ CheckRunning \/ Capture \/ CloseRules \/ RecordOutcomes \/ CompleteCutover
    \/ \E j \in Job : \/ CancelEntry(j) \/ RevokeTask(j) \/ FailJob(j)
                      \/ RecordCancelled(j) \/ RereadJob(j)

ReplaySteps ==
    \/ BeginSchedules \/ EndSchedules
    \/ \E j \in Job : ReplayEntry(j) \/ Recreate(j) \/ HandOver(j)

Deletes == \E m \in Module : DeleteModule(m)

LEMMA NextSplits ==
  Next => Environment \/ Plain \/ Cancels \/ ReplaySteps \/ Deletes
BY DEF Next, Passes, CutoverSteps, References, Cleanup, Plain, PlainCutoverSteps,
       PlainReferences, PlainCleanup, Cancels, ReplaySteps, Deletes

LEMMA TypeStep == TypeOK /\ [Next]_vars => TypeOK'
<1>1. TypeOK /\ UNCHANGED vars => TypeOK'
  BY DEF TypeOK, vars, refs, plugin, history, bounds
<1> QED
  BY <1>1, EnvironmentTypes, StagingTypes, CutoverTypes, ActivationTypes,
     ReferencesTypes, CleanupTypes DEF Next, Passes

LEMMA InitTypes == Init => TypeOK
<1> SUFFICES ASSUME Init PROVE TypeOK
  OBVIOUS
<1>1. run \in RunRow /\ journal \in Journal /\ pass \in Pass
  BY RestType DEF Init, RunRow, Journal, Unrecorded, Captured, Outcome
<1>2. job \in [Job -> JobRow] /\ copy \in [Job -> Copy]
  <2>1. NoJob \in JobRow /\ Fresh("queued") \in JobRow
    BY FreshType DEF NoJob, JobRow
  <2>2. job \in [Job -> {NoJob, Fresh("queued")}]
    BY DEF Init
  <2>3. copy \in [Job -> Copy]
    BY DEF Init, Copy
  <2> QED
    BY <2>1, <2>2, <2>3
<1>3. rule \in [Rule -> RuleRow] /\ perm \in [Perm -> PermRow]
  BY DEF Init, RuleRow, FirstRule, PermRow, FirstTypes, Captured
<1>4. proj \in [Project -> ProjectRows] /\ row \in [Script -> ScriptRow]
  BY MigrationConstants DEF Init, FirstRow, ScriptRow
<1>5. workers \in Nat
  BY MigrationConstants DEF Init
<1> QED
  BY <1>1, <1>2, <1>3, <1>4, <1>5 DEF Init, TypeOK

\* Every row, the journal and the pass keep their types.
THEOREM TypeCorrect == Spec => []TypeOK
BY InitTypes, TypeStep, PTL DEF Spec

-----------------------------------------------------------------------------
(* The ledger: what the journal says of a Job, and what became of it *)

\* An untampered row tells whether a worker ran its Job.
JobInv ==
    \A j \in Job : j \notin tampered =>
        /\ job[j].started <=> j \in ran
        /\ job[j].status \in {"absent", "waiting", "failed"} => ~job[j].started
        /\ job[j].status \in {"running", "done"} => job[j].started
        /\ job[j].status = "gone" => Done("cutover")

\* What an outcome says of Job j is so.
Tells(j, o) ==
    /\ o # "none" => job[j].status # "absent"
    /\ j \notin tampered =>
        /\ o = "cancelled" => j \notin ran /\ job[j].status \in {"failed", "gone"}
        /\ o \in {"executed", "running"} => j \in ran
        /\ o # "vanished"
        /\ job[j].status = "failed" => o \in {"cancelling", "cancelled"}

Ended(o) == o \notin {"open", "cancelling"}

JournalInv ==
    /\ \A j \in Job : Tells(j, journal.job[j])
    /\ Done("cutover") \/ pass.pc \in FinalPcs => \A j \in Job : Ended(journal.job[j])

\* The same of the outcomes a pass holds in memory, and where it is with the
\* entry it is at: not run before the update, failed or overtaken after it.
CancelInv ==
    pass.pc \in CancelPcs =>
        /\ \A j \in Job : Tells(j, pass.mem[j])
        /\ \A j \in Job : ~Ended(pass.mem[j]) => j \in pass.todo
        /\ \A j \in Job : j \in pass.todo => pass.mem[j] # "none"
        /\ pass.pc # "cancel" => \A j \in Job : pass.at = j =>
              /\ pass.mem[j] = "cancelling" /\ journal.job[j] = "cancelling"
              /\ j \notin tampered =>
                    /\ pass.pc \in {"revoke", "fail"}
                         => job[j].status \in {"waiting", "running", "done"}
                    /\ pass.pc = "record" => job[j].status = "failed"
                    /\ pass.pc = "reread" => job[j].status \in {"running", "done"}

Due == {j \in CapturedJobs : j \in Replays /\ j \notin ran /\ j \notin tampered}

\* One recreation per entry of the journal, and only of a cancelled Job; a
\* replay that is to end with nothing left open passes none over.
ReplayInv ==
    /\ \A j \in Job : copy[j].made = IF j \in journal.recreated THEN 1 ELSE 0
    /\ \A j \in journal.recreated :
          Done("cutover") /\ (j \in tampered \/ journal.job[j] = "cancelled")
    /\ Done("schedules") => Done("cutover") /\ Due \subseteq journal.recreated
    /\ pass.pc \in ReplayPcs =>
          /\ \A j \in Job : j \in pass.todo => j \in CapturedJobs
          /\ \A j \in Due : j \in pass.todo \/ j \in journal.recreated \/ pass.open
    /\ pass.pc = "enqueue" => \A j \in Job : pass.at = j =>
          /\ j \notin journal.recreated
          /\ j \in tampered \/ journal.job[j] = "cancelled"
    /\ pass.pc = "handoff" => \A j \in Job : pass.at = j => j \in journal.recreated

LedgerInv == PhaseInv /\ JobInv /\ JournalInv /\ CancelInv /\ ReplayInv

LEMMA WalkStep == TypeOK /\ LedgerInv /\ Walks => LedgerInv'
<1> SUFFICES ASSUME TypeOK, LedgerInv, Walks PROVE LedgerInv'
  OBVIOUS
<1> USE DEF LedgerInv
<1>1. /\ Done("cutover")' <=> Done("cutover")
      /\ Done("schedules")' <=> Done("schedules")
  BY DEF Done, Walks
<1>2. PhaseInv'
  BY <1>1 DEF Walks, PhaseInv, Done, Early, Late, CancelPcs, FinalPcs, ReplayPcs
<1>3. JobInv'
  BY <1>1 DEF Walks, AllStill, Still, JobInv
<1>4. JournalInv'
  <2>1. \A j \in Job : Tells(j, journal.job[j])'
    BY DEF Walks, AllStill, Still, Tells, JournalInv
  <2> QED
    BY <1>1, <2>1 DEF Walks, JournalInv
<1>5. CancelInv'
  BY DEF Walks, CancelInv
<1>6. ReplayInv'
  <2>1. Due' = Due
    BY DEF Walks, AllStill, Due, CapturedJobs
  <2>2. pass'.pc \notin ReplayPcs
    BY DEF Walks
  <2> QED
    BY <1>1, <2>1, <2>2 DEF Walks, AllStill, ReplayInv, ReplayPcs
<1> QED
  BY <1>2, <1>3, <1>4, <1>5, <1>6

LEMMA EnvironmentStep ==
  ASSUME TypeOK, LedgerInv, JobsMove, UNCHANGED <<run, journal, pass, copy>>
  PROVE  LedgerInv'
<1> USE DEF LedgerInv
<1>1. PhaseInv'
  BY DEF PhaseInv, Done
<1>2. /\ ran \subseteq ran' /\ tampered \subseteq tampered'
      /\ \A j \in Job : job[j].status # "absent" => job'[j].status # "absent"
  BY DEF JobsMove, AllStill, Still, Begins, Starts, Ends, Tampers, OthersStill
<1>3. ReplayInv'
  <2>1. Due' \subseteq Due /\ CapturedJobs' = CapturedJobs
    BY <1>2 DEF Due, CapturedJobs
  <2> QED
    BY <1>2, <2>1 DEF ReplayInv, Done
<1>4. ASSUME NEW j \in Job
      PROVE  /\ j \notin tampered' =>
                  /\ j \notin tampered
                  /\ \/ Still(j) /\ (j \in ran' <=> j \in ran)
                     \/ /\ job[j].status = "absent" /\ job'[j].status = "waiting"
                        /\ ~job'[j].started /\ (j \in ran' <=> j \in ran)
                     \/ /\ job[j].status = "waiting" /\ job'[j].status = "running"
                        /\ job'[j].started /\ j \in ran'
                     \/ /\ job[j].status = "running" /\ job'[j].status = "done"
                        /\ job'[j].started = job[j].started /\ (j \in ran' <=> j \in ran)
  BY DEF JobsMove, AllStill, Begins, Starts, Ends, Tampers, OthersStill
<1>5. JobInv'
  <2> SUFFICES ASSUME NEW j \in Job, j \notin tampered'
               PROVE  /\ job'[j].started <=> j \in ran'
                      /\ job'[j].status \in {"absent", "waiting", "failed"} => ~job'[j].started
                      /\ job'[j].status \in {"running", "done"} => job'[j].started
                      /\ job'[j].status = "gone" => Done("cutover")
    BY DEF JobInv, Done
  <2> QED
    BY <1>4 DEF JobInv, Still
<1>6. ASSUME NEW j \in Job, NEW o, Tells(j, o)
      PROVE  /\ o # "none" => job'[j].status # "absent"
             /\ j \notin tampered' =>
                 /\ o = "cancelled" => j \notin ran' /\ job'[j].status \in {"failed", "gone"}
                 /\ o \in {"executed", "running"} => j \in ran'
                 /\ o # "vanished"
                 /\ job'[j].status = "failed" => o \in {"cancelling", "cancelled"}
  BY <1>2, <1>4, <1>6 DEF Tells, Still
<1>7. JournalInv'
  BY <1>6 DEF JournalInv, Tells, Done
<1>8. CancelInv'
  <2> SUFFICES ASSUME pass.pc \in CancelPcs
               PROVE  CancelInv'
    BY DEF CancelInv
  <2>1. \A j \in Job : Tells(j, pass.mem[j])'
    BY <1>6 DEF CancelInv, Tells
  <2>2. ASSUME NEW j \in Job, pass.at = j, j \notin tampered', pass.pc # "cancel"
        PROVE  /\ pass.pc \in {"revoke", "fail"}
                    => job'[j].status \in {"waiting", "running", "done"}
               /\ pass.pc = "record" => job'[j].status = "failed"
               /\ pass.pc = "reread" => job'[j].status \in {"running", "done"}
    BY <1>4, <2>2 DEF CancelInv, Still
  <2> QED
    BY <2>1, <2>2 DEF CancelInv
<1> QED
  BY <1>1, <1>3, <1>5, <1>7, <1>8

LEMMA DeleteStep ==
  ASSUME TypeOK, LedgerInv, NEW m \in Module, DeleteModule(m)
  PROVE  LedgerInv'
<1> USE DEF LedgerInv, history
<1>0. /\ pass.pc = "delete" /\ Done("cutover") /\ pass'.pc = "modules"
      /\ UNCHANGED <<run, journal, copy, ran, tampered>>
  BY DEF DeleteModule, At, TypeOK, Pass, PhaseInv, Late
<1>1. PhaseInv'
  BY <1>0 DEF PhaseInv, Done, Early, CancelPcs, FinalPcs
<1>2. \A j \in Job : \/ Still(j)
                     \/ /\ job[j].status # "absent" /\ job'[j].status = "gone"
                        /\ job'[j].started = job[j].started
  <2>1. \A j \in JobsUnder(m) : job[j].status # "absent"
    BY DEF JobsUnder, LegacyJobs
  <2> QED
    BY <2>1 DEF DeleteModule, Still, TypeOK, JobRow
<1>3. JobInv'
  BY <1>0, <1>2 DEF JobInv, Still, Done
<1>4. JournalInv'
  <2>1. \A j \in Job : Tells(j, journal.job[j])'
    BY <1>0, <1>2 DEF JournalInv, Tells, Still
  <2> QED
    BY <1>0, <2>1 DEF JournalInv, Done, FinalPcs
<1>5. CancelInv'
  BY <1>0 DEF CancelInv, CancelPcs
<1>6. ReplayInv'
  <2>1. Due' = Due
    BY <1>0 DEF Due, CapturedJobs
  <2> QED
    BY <1>0, <2>1 DEF ReplayInv, ReplayPcs, Done
<1> QED
  BY <1>1, <1>3, <1>4, <1>5, <1>6

-----------------------------------------------------------------------------
(* The ledger through the fence *)

\* While the fence is open nothing is recreated, so a replay waits for it.
LEMMA NothingReplayed ==
  ASSUME TypeOK, LedgerInv, ~Done("cutover")
  PROVE  journal.recreated = {} /\ ~Done("schedules")
BY DEF LedgerInv, ReplayInv

\* A step of the fence that writes the journal or moves the pass.
LEMMA FenceReplay ==
  ASSUME TypeOK, LedgerInv, ~Done("cutover"), UNCHANGED <<run, copy>>,
         journal'.recreated = journal.recreated, pass'.pc \notin ReplayPcs
  PROVE  ReplayInv'
BY NothingReplayed DEF LedgerInv, ReplayInv, Done, ReplayPcs

LEMMA FenceJobs ==
  ASSUME LedgerInv, AllStill, UNCHANGED run
  PROVE  JobInv'
BY DEF LedgerInv, JobInv, AllStill, Still, Done

LEMMA FencePhase ==
  ASSUME ~Done("cutover"), UNCHANGED run, pass'.pc \notin Late
  PROVE  PhaseInv'
BY DEF PhaseInv, Done

LEMMA JobEntryOnly ==
  ASSUME TypeOK, NEW f, journal' = [journal EXCEPT !.job = f]
  PROVE  journal'.job = f /\ journal'.recreated = journal.recreated
BY DEF TypeOK, Journal

LEMMA FencePasses ==
  ASSUME TypeOK, LedgerInv, CheckRunning \/ Capture \/ CloseRules
  PROVE  LedgerInv'
<1> USE DEF LedgerInv, history, bounds, refs, plugin, Elsewhere
<1>0. ~Done("cutover") /\ AllStill /\ UNCHANGED <<run, copy>>
  BY KeepsJobs DEF CheckRunning, Capture, CloseRules, At, PhaseInv, Early, CancelPcs
<1>1. CASE CheckRunning
  <2>1. pass'.pc \in {"gate", "idle"} /\ pass.pc = "check"
    BY <1>1, GotoPc, RestPc DEF CheckRunning, Leave, At
  <2>2. /\ journal'.recreated = journal.recreated
        /\ \A j \in Job : \/ journal'.job[j] = journal.job[j]
                          \/ journal'.job[j] = "running" /\ job[j].status = "running"
    <3> DEFINE f == [j \in Job |-> IF j \in Running \cap CapturedJobs THEN "running"
                                   ELSE journal.job[j]]
    <3>1. journal' = journal \/ journal' = [journal EXCEPT !.job = f]
      BY <1>1 DEF CheckRunning
    <3>2. ASSUME journal' = [journal EXCEPT !.job = f]
          PROVE  journal'.job = f /\ journal'.recreated = journal.recreated
      BY <3>2 DEF TypeOK, Journal
    <3>3. \A j \in Running : job[j].status = "running"
      BY DEF Running
    <3> QED
      BY <3>1, <3>2, <3>3
  <2>3. \A j \in Job : Tells(j, journal.job[j])'
    BY <1>0, <2>2 DEF AllStill, Still, JournalInv, JobInv, Tells
  <2>4. JournalInv'
    BY <1>0, <2>1, <2>3 DEF JournalInv, Done, FinalPcs
  <2>5. CancelInv'
    BY <2>1 DEF CancelInv, CancelPcs
  <2> QED
    BY <1>0, <2>1, <2>2, <2>4, <2>5, FenceReplay, FenceJobs, FencePhase
       DEF ReplayPcs, Late
<1>2. CASE Capture
  <2>1. pass'.pc = "advance"
    BY <1>2, GotoPc DEF Capture
  <2>2. /\ journal'.recreated = journal.recreated
        /\ \A j \in Job : \/ journal'.job[j] = journal.job[j]
                          \/ journal'.job[j] = "open" /\ job[j].status = "waiting"
    BY <1>2 DEF Capture, NewlyWaiting, Capturable, Waiting, TypeOK, Journal
  <2>3. \A j \in Job : Tells(j, journal.job[j])'
    BY <1>0, <2>2 DEF AllStill, Still, JournalInv, Tells
  <2>4. JournalInv'
    BY <1>0, <2>1, <2>3 DEF JournalInv, Done, FinalPcs
  <2>5. CancelInv'
    BY <2>1 DEF CancelInv, CancelPcs
  <2> QED
    BY <1>0, <2>1, <2>2, <2>4, <2>5, FenceReplay, FenceJobs, FencePhase
       DEF ReplayPcs, Late
<1>3. CASE CloseRules
  <2>1. /\ pass'.pc = "cancel" /\ pass'.todo = CapturedJobs /\ pass'.mem = journal.job
        /\ journal' = journal
    BY <1>3 DEF CloseRules, TypeOK, Pass
  <2>2. \A j \in Job : Tells(j, journal.job[j])'
    BY <1>0, <2>1 DEF AllStill, Still, JournalInv, Tells
  <2>3. JournalInv'
    BY <1>0, <2>1, <2>2 DEF JournalInv, Done, FinalPcs
  <2>4. CancelInv'
    BY <2>1, <2>2 DEF CancelInv, Tells, CapturedJobs, Ended
  <2> QED
    BY <1>0, <2>1, <2>3, <2>4, FenceReplay, FenceJobs, FencePhase DEF ReplayPcs, Late
<1> QED
  BY <1>1, <1>2, <1>3

\* Entry j is settled in memory with an outcome that tells.
LEMMA NotedStep ==
  ASSUME TypeOK, LedgerInv, NEW j \in Job, NEW o \in Outcome, pass.pc \in CancelPcs,
         pass' = Noted(j, o), AllStill, UNCHANGED <<run, copy>>,
         Tells(j, o), Ended(o), o # "none",
         \/ journal' = journal
         \/ journal' = [journal EXCEPT !.job = [pass.mem EXCEPT ![j] = o]]
  PROVE  LedgerInv'
<1> USE DEF LedgerInv
<1>0. ~Done("cutover")
  BY DEF PhaseInv, Early
<1>1. /\ pass'.pc = "cancel" /\ pass'.todo = pass.todo \ {j}
      /\ pass'.mem = [pass.mem EXCEPT ![j] = o] /\ pass.mem \in [Job -> Outcome]
  BY DEF Noted, TypeOK, Pass
<1>2. \A k \in Job : Tells(k, pass'.mem[k])
  BY <1>1 DEF CancelInv
<1>3. journal'.job = journal.job \/ journal'.job = pass'.mem
  BY <1>1, JobEntryOnly
<1>4. journal'.recreated = journal.recreated
  BY JobEntryOnly
<1>5. \A k \in Job : Tells(k, journal'.job[k])
  BY <1>2, <1>3 DEF JournalInv
<1>6. JournalInv'
  BY <1>0, <1>1, <1>5 DEF JournalInv, Tells, AllStill, Still, Done, FinalPcs
<1>7. CancelInv'
  BY <1>1, <1>2 DEF CancelInv, Tells, AllStill, Still
<1> QED
  BY <1>0, <1>1, <1>4, <1>6, <1>7, FenceReplay, FenceJobs, FencePhase DEF ReplayPcs, Late

LEMMA EntryStep ==
  ASSUME TypeOK, LedgerInv, NEW j \in Job, CancelEntry(j)
  PROVE  LedgerInv'
<1> USE DEF LedgerInv, history, bounds, refs, plugin, Elsewhere
<1>0. /\ pass.pc = "cancel" /\ j \in pass.todo /\ pass.pc \in CancelPcs
      /\ ~Done("cutover") /\ AllStill /\ UNCHANGED <<run, copy, job, ran, tampered>>
      /\ Tells(j, pass.mem[j]) /\ pass.mem[j] # "none"
  <2>1. pass.pc = "cancel" /\ j \in pass.todo /\ UNCHANGED <<run, copy, job, ran, tampered>>
    BY DEF CancelEntry, CancelResolve, At
  <2> QED
    BY <2>1, KeepsJobs DEF CancelPcs, PhaseInv, Early, CancelInv
\* Untampered, the row is there, and it runs, ran, waits or was failed here.
<1>1. j \notin tampered =>
        /\ job[j].status \notin {"gone", "absent"}
        /\ job[j].started <=> j \in ran
        /\ job[j].status \in {"running", "done"} => j \in ran
        /\ job[j].status \in {"waiting", "failed"} => j \notin ran
        /\ job[j].status = "failed" => pass.mem[j] \in {"cancelling", "cancelled"}
  BY <1>0 DEF JobInv, Tells
<1>2. job[j].status \in {"absent", "waiting", "running", "done", "failed", "gone"}
      /\ job[j].status # "absent"
  BY <1>0 DEF TypeOK, JobRow, Tells
<1>3. CASE pass.mem[j] = "cancelled" /\ pass' = Noted(j, "cancelled") /\ journal' = journal
  BY <1>0, <1>3, NotedStep DEF Ended, Outcome
<1>4. CASE /\ job[j].status = "gone" /\ journal' = journal
           /\ \E o \in {"executed", "vanished"} : pass' = Noted(j, o)
  <2>1. PICK o \in {"executed", "vanished"} : pass' = Noted(j, o)
    BY <1>4
  <2>2. Tells(j, o)
    BY <1>1, <1>2, <1>4, <2>1 DEF Tells
  <2> QED
    BY <1>0, <1>4, <2>1, <2>2, NotedStep DEF Ended, Outcome
<1>5. CASE /\ pass.mem[j] = "cancelling" /\ job[j].status \notin {"gone", "waiting"}
           /\ CancelResolve(j)
  <2> DEFINE o == IF job[j].started THEN "executed" ELSE "cancelled"
  <2>1. pass' = Noted(j, o) /\ journal' = [journal EXCEPT !.job = [pass.mem EXCEPT ![j] = o]]
    BY <1>5 DEF CancelResolve, Journaled
  <2>2. Tells(j, o)
    BY <1>1, <1>2, <1>5 DEF Tells
  <2> QED
    BY <1>0, <2>1, <2>2, NotedStep DEF Ended, Outcome
<1>6. CASE /\ pass.mem[j] # "cancelled" /\ job[j].status = "waiting"
           /\ journal' = [journal EXCEPT !.job = [pass.mem EXCEPT ![j] = "cancelling"]]
           /\ pass' = [pass EXCEPT !.mem[j] = "cancelling", !.pc = "revoke", !.at = j]
  <2>1. /\ pass'.pc = "revoke" /\ pass'.todo = pass.todo /\ pass'.at = j
        /\ pass'.mem = [pass.mem EXCEPT ![j] = "cancelling"]
        /\ pass.mem \in [Job -> Outcome]
    BY <1>6 DEF TypeOK, Pass
  <2>2. journal'.job = pass'.mem /\ journal'.recreated = journal.recreated
    BY <1>6, <2>1, JobEntryOnly
  <2>3. Tells(j, "cancelling")
    BY <1>1, <1>2, <1>6 DEF Tells
  <2>4. \A k \in Job : Tells(k, pass'.mem[k])
    BY <1>0, <2>1, <2>3 DEF CancelInv, CancelPcs
  <2>5. JournalInv'
    BY <1>0, <2>1, <2>2, <2>4 DEF JournalInv, Tells, Done, FinalPcs
  <2>6. CancelInv'
    BY <1>0, <1>6, <2>1, <2>2, <2>4 DEF CancelInv, Tells
  <2> QED
    BY <1>0, <2>1, <2>2, <2>5, <2>6, FenceReplay, FenceJobs, FencePhase
       DEF ReplayPcs, Late
<1>7. CASE /\ pass.mem[j] \notin {"cancelled", "cancelling"}
           /\ job[j].status \notin {"gone", "waiting"} /\ journal' = journal
           /\ pass' = Noted(j, IF job[j].status = "running" THEN "running" ELSE "executed")
  <2> DEFINE o == IF job[j].status = "running" THEN "running" ELSE "executed"
  <2>1. Tells(j, o)
    BY <1>1, <1>2, <1>7 DEF Tells
  <2> QED
    BY <1>0, <1>7, <2>1, NotedStep DEF Ended, Outcome
<1> QED
  <2>1. \/ pass.mem[j] = "cancelled" /\ pass' = Noted(j, "cancelled") /\ journal' = journal
        \/ /\ job[j].status = "gone" /\ journal' = journal
           /\ \E o \in {"executed", "vanished"} : pass' = Noted(j, o)
        \/ /\ pass.mem[j] = "cancelling" /\ job[j].status \notin {"gone", "waiting"}
           /\ CancelResolve(j)
        \/ /\ pass.mem[j] # "cancelled" /\ job[j].status = "waiting"
           /\ journal' = [journal EXCEPT !.job = [pass.mem EXCEPT ![j] = "cancelling"]]
           /\ pass' = [pass EXCEPT !.mem[j] = "cancelling", !.pc = "revoke", !.at = j]
        \/ /\ pass.mem[j] \notin {"cancelled", "cancelling"}
           /\ job[j].status \notin {"gone", "waiting"} /\ journal' = journal
           /\ pass' = Noted(j, IF job[j].status = "running" THEN "running" ELSE "executed")
    BY DEF CancelEntry
  <2> QED
    BY <1>3, <1>4, <1>5, <1>6, <1>7, <2>1

LEMMA UpdateStep ==
  ASSUME TypeOK, LedgerInv, NEW j \in Job, RevokeTask(j) \/ FailJob(j)
  PROVE  LedgerInv'
<1> USE DEF LedgerInv, history, bounds, refs, plugin, Elsewhere
<1>0. /\ pass.pc \in {"revoke", "fail"} /\ pass.at = j
      /\ ~Done("cutover") /\ UNCHANGED <<run, copy, journal, ran, tampered>>
      /\ pass.mem[j] = "cancelling" /\ journal.job[j] = "cancelling"
      /\ j \notin tampered => job[j].status \in {"waiting", "running", "done"}
  <2>1. /\ pass.pc \in {"revoke", "fail"} /\ pass.at = j
        /\ UNCHANGED <<run, copy, journal, ran, tampered>>
    BY DEF RevokeTask, FailJob, At
  <2> QED
    BY <2>1 DEF CancelInv, CancelPcs, PhaseInv, Early
<1>1. CASE RevokeTask(j)
  <2>1. pass'.pc = "fail" /\ pass'.todo = pass.todo /\ pass'.mem = pass.mem /\ pass'.at = j
    BY <1>0, <1>1 DEF RevokeTask, Goto, TypeOK, Pass
  <2>2. AllStill
    BY <1>0, <1>1 DEF RevokeTask, SetJob, AllStill, Still, TypeOK, JobRow
  <2>3. JournalInv'
    BY <1>0, <2>1, <2>2 DEF JournalInv, Tells, AllStill, Still, Done, FinalPcs
  <2>4. CancelInv'
    BY <1>0, <2>1, <2>2 DEF CancelInv, CancelPcs, Tells, AllStill, Still
  <2> QED
    BY <1>0, <2>1, <2>2, <2>3, <2>4, FenceReplay, FenceJobs, FencePhase
       DEF ReplayPcs, Late
<1>2. CASE FailJob(j) /\ MayFail(j)
  <2>1. /\ pass'.pc = "record" /\ pass'.todo = pass.todo /\ pass'.mem = pass.mem
        /\ pass'.at = j
    BY <1>0, <1>2 DEF FailJob, Goto, TypeOK, Pass
  <2>2. /\ job[j].status = "waiting" /\ ~job[j].started
        /\ job'[j].status = "failed" /\ ~job'[j].started
        /\ \A k \in Job \ {j} : Still(k)
    BY <1>2 DEF FailJob, MayFail, SetJob, Still, TypeOK, JobRow
  <2>3. JobInv'
    BY <1>0, <2>2 DEF JobInv, Still, Done
  <2>4. \A k \in Job, o \in Outcome :
           Tells(k, o) /\ (k = j => o = "cancelling")
             => /\ o # "none" => job'[k].status # "absent"
                /\ k \notin tampered' =>
                    /\ o = "cancelled" => k \notin ran' /\ job'[k].status \in {"failed", "gone"}
                    /\ o \in {"executed", "running"} => k \in ran'
                    /\ o # "vanished"
                    /\ job'[k].status = "failed" => o \in {"cancelling", "cancelled"}
    BY <1>0, <2>2 DEF Tells, Still
  <2>5. pass.mem \in [Job -> Outcome] /\ journal.job \in [Job -> Outcome]
    BY PassFields, JournalFields DEF TypeOK
  <2>6. JournalInv'
    BY <1>0, <2>1, <2>4, <2>5 DEF JournalInv, Tells, Done, FinalPcs
  <2>7. \A k \in Job : Tells(k, pass.mem[k])'
    BY <1>0, <2>1, <2>4, <2>5 DEF CancelInv, CancelPcs, Tells
  <2>8. CancelInv'
    BY <1>0, <2>1, <2>2, <2>7 DEF CancelInv, CancelPcs
  <2> QED
    BY <1>0, <2>1, <2>3, <2>6, <2>8, FenceReplay, FencePhase DEF ReplayPcs, Late
<1>3. CASE FailJob(j) /\ ~MayFail(j)
  <2>1. /\ pass'.pc = "reread" /\ pass'.todo = pass.todo /\ pass'.mem = pass.mem
        /\ pass'.at = j
    BY <1>0, <1>3 DEF FailJob, Goto, TypeOK, Pass
  <2>2. AllStill
    BY <1>0, <1>3, KeepsJobs DEF FailJob
  <2>3. JournalInv'
    BY <1>0, <2>1, <2>2 DEF JournalInv, Tells, AllStill, Still, Done, FinalPcs
  <2>4. j \notin tampered => job[j].status \in {"running", "done"}
    BY <1>0, <1>3 DEF MayFail, JobInv
  <2>5. CancelInv'
    BY <1>0, <2>1, <2>2, <2>4 DEF CancelInv, CancelPcs, Tells, AllStill, Still
  <2> QED
    BY <1>0, <2>1, <2>2, <2>3, <2>5, FenceReplay, FenceJobs, FencePhase
       DEF ReplayPcs, Late
<1> QED
  BY <1>1, <1>2, <1>3

LEMMA ResultStep ==
  ASSUME TypeOK, LedgerInv, NEW j \in Job, RecordCancelled(j) \/ RereadJob(j)
  PROVE  LedgerInv'
<1> USE DEF LedgerInv, history, bounds, refs, plugin, Elsewhere
<1>0. /\ pass.pc \in {"record", "reread"} /\ pass.at = j /\ pass.pc \in CancelPcs
      /\ AllStill /\ UNCHANGED <<run, copy>>
      /\ pass.mem[j] = "cancelling" /\ Tells(j, "cancelling")
      /\ ~Done("cutover")
  <2>1. /\ pass.pc \in {"record", "reread"} /\ pass.at = j
        /\ UNCHANGED <<run, copy, job, ran, tampered>>
    BY DEF RecordCancelled, RereadJob, At
  <2> QED
    BY <2>1, KeepsJobs DEF CancelInv, CancelPcs, PhaseInv, Early
<1>1. CASE RecordCancelled(j)
  <2>1. Tells(j, "cancelled")
    <3>1. j \notin tampered => job[j].status = "failed"
      BY <1>0, <1>1 DEF RecordCancelled, At, CancelInv
    <3> QED
      BY <1>0, <3>1 DEF Tells, JobInv
  <2> QED
    BY <1>0, <1>1, <2>1, NotedStep DEF RecordCancelled, Journaled, Ended, Outcome
<1>2. CASE RereadJob(j)
  <2>1. Tells(j, Overtaken(j))
    <3>1. j \notin tampered => job[j].status \in {"running", "done"}
      BY <1>0, <1>2 DEF RereadJob, At, CancelInv
    <3> QED
      BY <1>0, <3>1 DEF Tells, JobInv, Overtaken
  <2>2. Overtaken(j) \in {"vanished", "running", "executed"}
    BY DEF Overtaken
  <2> QED
    BY <1>0, <1>2, <2>1, <2>2, NotedStep DEF RereadJob, Ended, Outcome
<1> QED
  BY <1>1, <1>2

LEMMA FenceEnds ==
  ASSUME TypeOK, LedgerInv, RecordOutcomes \/ CompleteCutover
  PROVE  LedgerInv'
<1> USE DEF LedgerInv, history, bounds, refs, plugin, Elsewhere
<1>0. AllStill /\ UNCHANGED copy /\ ~Done("cutover")
  BY KeepsJobs DEF RecordOutcomes, CompleteCutover, At, PhaseInv, Early, CancelPcs, FinalPcs
<1>1. CASE RecordOutcomes
  <2>1. /\ pass.pc = "cancel" /\ pass.todo = {} /\ pass'.pc = "list" /\ UNCHANGED run
        /\ journal'.job = pass.mem /\ journal'.recreated = journal.recreated
    BY <1>1, GotoPc, JobEntryOnly DEF RecordOutcomes, At
  <2>2. \A j \in Job : Tells(j, pass.mem[j]) /\ Ended(pass.mem[j])
    BY <2>1 DEF CancelInv, CancelPcs
  <2>3. JournalInv'
    BY <1>0, <2>1, <2>2 DEF JournalInv, Tells, Ended, AllStill, Still
  <2>4. CancelInv'
    BY <2>1 DEF CancelInv, CancelPcs
  <2> QED
    BY <1>0, <2>1, <2>3, <2>4, FenceReplay, FenceJobs, FencePhase DEF ReplayPcs, Late
<1>2. CASE CompleteCutover
  <2>1. /\ pass.pc = "complete" /\ pass'.pc = "idle" /\ journal' = journal
        /\ run'.steps = run.steps \cup {"cutover"}
    BY <1>2, RestPc, CompletesStep DEF CompleteCutover, Leave, At
  <2>2. PhaseInv'
    BY <2>1 DEF PhaseInv, Done, Early, Late, CancelPcs, FinalPcs, ReplayPcs
  <2>3. JobInv'
    BY <1>0, <2>1 DEF JobInv, AllStill, Still, Done
  <2>4. JournalInv'
    BY <1>0, <2>1 DEF JournalInv, Tells, Ended, AllStill, Still, FinalPcs
  <2>5. CancelInv'
    BY <2>1 DEF CancelInv, CancelPcs
  <2>6. ReplayInv'
    BY <1>0, <2>1, NothingReplayed DEF ReplayInv, ReplayPcs, Done
  <2> QED
    BY <2>2, <2>3, <2>4, <2>5, <2>6
<1> QED
  BY <1>1, <1>2

LEMMA CancelStep == TypeOK /\ LedgerInv /\ Cancels => LedgerInv'
BY FencePasses, EntryStep, UpdateStep, ResultStep, FenceEnds DEF Cancels

-----------------------------------------------------------------------------
(* The ledger through the replay *)

\* A replay that changes no Job and no journal entry of the fence.
LEMMA ReplayPasses ==
  ASSUME TypeOK, LedgerInv, AllStill, Done("cutover"), Done("cutover")',
         journal'.job = journal.job, pass'.pc \in ReplayPcs \cup {"idle"},
         ReplayInv'
  PROVE  LedgerInv'
<1> USE DEF LedgerInv
<1>1. PhaseInv'
  BY DEF PhaseInv, ReplayPcs, Early, CancelPcs, FinalPcs
<1>2. JobInv'
  BY DEF JobInv, AllStill, Still
<1>3. JournalInv'
  BY DEF JournalInv, Tells, AllStill, Still
<1>4. CancelInv'
  BY DEF CancelInv, CancelPcs, ReplayPcs
<1> QED
  BY <1>1, <1>2, <1>3, <1>4

\* What a replay does not skip was cancelled, and what it may still be due it
\* does not skip.
LEMMA SkipsRightly ==
  ASSUME TypeOK, LedgerInv, Done("cutover"), NEW j \in Job, j \in CapturedJobs
  PROVE  /\ ~Skipped(j) => j \in tampered \/ journal.job[j] = "cancelled"
         /\ j \in Due => ~Skipped(j)
<1>1. /\ Tells(j, journal.job[j]) /\ Ended(journal.job[j])
      /\ journal.job[j] \in Outcome /\ journal.job[j] # "none"
  BY JournalFields DEF LedgerInv, JournalInv, CapturedJobs, TypeOK
<1>2. ~Skipped(j) => j \in tampered \/ journal.job[j] = "cancelled"
  BY <1>1 DEF Skipped, Replayable, Tells, Ended, Outcome
<1>3. j \in Due => ~Skipped(j)
  BY <1>1 DEF LedgerInv, JobInv, Due, Replays, Skipped, Replayable, Tells, Ended, Outcome
<1> QED
  BY <1>2, <1>3

LEMMA ReplayBegins ==
  ASSUME TypeOK, LedgerInv, BeginSchedules
  PROVE  LedgerInv'
<1> USE DEF LedgerInv, history, bounds, refs, plugin, Elsewhere
<1>0. /\ pass.pc = "schedules" /\ Done("cutover") /\ AllStill
      /\ UNCHANGED <<run, copy, journal, ran, tampered>>
  BY KeepsJobs DEF BeginSchedules, At, PhaseInv, Late
<1>1. \/ pass'.pc = "idle"
      \/ pass'.pc = "replay" /\ pass'.todo = CapturedJobs
  BY RestPc DEF BeginSchedules, Leave, Resolve, Rest
<1>2. Due' = Due /\ CapturedJobs' = CapturedJobs /\ Due \subseteq CapturedJobs
  BY <1>0 DEF Due, CapturedJobs
<1>3. ReplayInv'
  BY <1>0, <1>1, <1>2 DEF ReplayInv, ReplayPcs, Done
<1> QED
  BY <1>0, <1>1, <1>3, ReplayPasses DEF Done, ReplayPcs

LEMMA ReplayPassesOver ==
  ASSUME TypeOK, LedgerInv, NEW j \in Job, ReplayEntry(j)
  PROVE  LedgerInv'
<1> USE DEF LedgerInv, history, bounds, refs, plugin, Elsewhere
<1>0. /\ pass.pc = "replay" /\ j \in pass.todo /\ Done("cutover") /\ AllStill
      /\ UNCHANGED <<run, copy, journal, ran, tampered>>
      /\ j \in CapturedJobs /\ pass.open \in BOOLEAN
  BY KeepsJobs, PassFields DEF ReplayEntry, At, PhaseInv, Late, ReplayPcs, ReplayInv, TypeOK
<1>1. Due' = Due /\ CapturedJobs' = CapturedJobs
  BY <1>0 DEF Due, CapturedJobs
<1>2. /\ ~Skipped(j) => j \in tampered \/ journal.job[j] = "cancelled"
      /\ j \in Due => ~Skipped(j)
  BY <1>0, SkipsRightly
<1>3. CASE (j \in journal.recreated \/ Skipped(j)) /\ Finished(j, FALSE)
  <2>1. pass'.pc = "replay" /\ pass'.todo = pass.todo \ {j} /\ (pass.open => pass'.open)
    BY <1>0, <1>3 DEF Finished, TypeOK, Pass
  <2>2. ReplayInv'
    BY <1>0, <1>1, <1>2, <1>3, <2>1 DEF ReplayInv, ReplayPcs, Done
  <2> QED
    BY <1>0, <2>1, <2>2, ReplayPasses DEF Done, ReplayPcs
<1>4. CASE Finished(j, TRUE)
  <2>1. pass'.pc = "replay" /\ pass'.todo = pass.todo \ {j} /\ pass'.open
    BY <1>0, <1>4 DEF Finished, TypeOK, Pass
  <2>2. ReplayInv'
    BY <1>0, <1>1, <2>1 DEF ReplayInv, ReplayPcs, Done
  <2> QED
    BY <1>0, <2>1, <2>2, ReplayPasses DEF Done, ReplayPcs
<1>5. CASE /\ j \notin journal.recreated /\ ~Skipped(j)
           /\ pass' = [pass EXCEPT !.pc = "enqueue", !.at = j]
  <2>1. /\ pass'.pc = "enqueue" /\ pass'.todo = pass.todo /\ pass'.open = pass.open
        /\ pass'.at = j
    BY <1>5 DEF TypeOK, Pass
  <2>2. ReplayInv'
    BY <1>0, <1>1, <1>2, <1>5, <2>1 DEF ReplayInv, ReplayPcs, Done
  <2> QED
    BY <1>0, <2>1, <2>2, ReplayPasses DEF Done, ReplayPcs
<1> QED
  BY <1>3, <1>4, <1>5 DEF ReplayEntry

LEMMA ReplayRecreates ==
  ASSUME TypeOK, LedgerInv, NEW j \in Job, Recreate(j)
  PROVE  LedgerInv'
<1> USE DEF LedgerInv, history, bounds, refs, plugin, Elsewhere
<1>0. /\ pass.pc = "enqueue" /\ pass.at = j /\ Done("cutover") /\ AllStill
      /\ UNCHANGED <<run, job, ran, tampered>>
      /\ j \notin journal.recreated
      /\ j \in tampered \/ journal.job[j] = "cancelled"
  <2>1. pass.pc = "enqueue" /\ pass.at = j /\ UNCHANGED <<run, job, ran, tampered>>
    BY DEF Recreate, At
  <2> QED
    BY <2>1, KeepsJobs DEF PhaseInv, Late, ReplayPcs, ReplayInv
<1>1. /\ journal'.job = journal.job
      /\ journal'.recreated = journal.recreated \cup {j}
  BY DEF Recreate, RecordCopy, TypeOK, Journal
<1>2. /\ pass'.pc = "handoff" /\ pass'.at = j /\ pass'.todo = pass.todo
      /\ pass'.open = pass.open
  BY <1>0 DEF Recreate, Goto, TypeOK, Pass
<1>3. /\ copy'[j].made = copy[j].made + 1
      /\ \A k \in Job \ {j} : copy'[k].made = copy[k].made
  BY DEF Recreate, TypeOK, Copy
<1>4. \A k \in Job : copy'[k].made = IF k \in journal'.recreated THEN 1 ELSE 0
  BY <1>0, <1>1, <1>3 DEF ReplayInv
<1>5. Due' = Due /\ CapturedJobs' = CapturedJobs
  BY <1>0, <1>1 DEF Due, CapturedJobs
<1>6. ReplayInv'
  BY <1>0, <1>1, <1>2, <1>4, <1>5 DEF ReplayInv, ReplayPcs, Done
<1> QED
  BY <1>0, <1>1, <1>2, <1>6, ReplayPasses DEF Done, ReplayPcs

LEMMA ReplayHandsOver ==
  ASSUME TypeOK, LedgerInv, NEW j \in Job, HandOver(j)
  PROVE  LedgerInv'
<1> USE DEF LedgerInv, history, bounds, refs, plugin, Elsewhere
<1>0. /\ pass.pc = "handoff" /\ pass.at = j /\ Done("cutover") /\ AllStill
      /\ UNCHANGED <<run, journal, job, ran, tampered>>
      /\ j \in journal.recreated
  <2>1. pass.pc = "handoff" /\ pass.at = j
        /\ UNCHANGED <<run, journal, job, ran, tampered>>
    BY DEF HandOver, At
  <2> QED
    BY <2>1, KeepsJobs DEF PhaseInv, Late, ReplayPcs, ReplayInv
<1>1. /\ pass'.pc = "replay" /\ pass'.todo = pass.todo \ {j} /\ pass'.open = pass.open
  BY DEF HandOver, TypeOK, Pass
<1>2. \A k \in Job : copy'[k].made = copy[k].made
  BY DEF HandOver, TypeOK, Copy
<1>3. Due' = Due /\ CapturedJobs' = CapturedJobs
  BY <1>0 DEF Due, CapturedJobs
<1>4. ReplayInv'
  BY <1>0, <1>1, <1>2, <1>3 DEF ReplayInv, ReplayPcs, Done
<1> QED
  BY <1>0, <1>1, <1>4, ReplayPasses DEF Done, ReplayPcs

LEMMA ReplayEnds ==
  ASSUME TypeOK, LedgerInv, EndSchedules
  PROVE  LedgerInv'
<1> USE DEF LedgerInv, history, bounds, refs, plugin, Elsewhere
<1>0. /\ pass.pc = "replay" /\ pass.todo = {} /\ Done("cutover") /\ AllStill
      /\ UNCHANGED <<copy, journal, ran, tampered>>
      /\ pass'.pc = "idle"
  BY KeepsJobs, RestPc DEF EndSchedules, Leave, At, PhaseInv, Late, ReplayPcs
<1>1. \/ run' = run
      \/ ~pass.open /\ run'.steps = run.steps \cup {"schedules"}
  BY CompletesStep DEF EndSchedules, Settle
<1>2. Done("cutover")' /\ (Done("schedules")' => Done("schedules") \/ ~pass.open)
  BY <1>0, <1>1 DEF Done
<1>3. Due' = Due
  BY <1>0 DEF Due, CapturedJobs
<1>4. Due \subseteq Job
  BY DEF Due, CapturedJobs
<1>5. ReplayInv'
  BY <1>0, <1>2, <1>3, <1>4 DEF ReplayInv, ReplayPcs
<1> QED
  BY <1>0, <1>2, <1>5, ReplayPasses

LEMMA ReplayStep == TypeOK /\ LedgerInv /\ ReplaySteps => LedgerInv'
BY ReplayBegins, ReplayPassesOver, ReplayRecreates, ReplayHandsOver, ReplayEnds
   DEF ReplaySteps

-----------------------------------------------------------------------------
(* The ledger, and what follows from it *)

LEMMA LedgerInit == Init => LedgerInv
<1> SUFFICES ASSUME Init PROVE LedgerInv
  OBVIOUS
<1> USE DEF Init, Unrecorded, Rest
<1>1. PhaseInv
  BY DEF PhaseInv, Early, Late, CancelPcs, FinalPcs, ReplayPcs
<1>2. JobInv
  BY DEF JobInv, NoJob, Fresh
<1>3. JournalInv
  BY DEF JournalInv, Tells, NoJob, Fresh, Done, FinalPcs
<1>4. CancelInv
  BY DEF CancelInv, CancelPcs
<1>5. ReplayInv
  BY DEF ReplayInv, ReplayPcs, Done
<1> QED
  BY <1>1, <1>2, <1>3, <1>4, <1>5 DEF LedgerInv

LEMMA LedgerStep == TypeOK /\ LedgerInv /\ [Next]_vars => LedgerInv'
<1> SUFFICES ASSUME TypeOK, LedgerInv, [Next]_vars PROVE LedgerInv'
  OBVIOUS
<1>1. CASE UNCHANGED vars
  BY <1>1 DEF vars, history, LedgerInv, PhaseInv, JobInv, JournalInv, CancelInv,
     ReplayInv, Due, CapturedJobs, Tells, Done
<1>2. CASE Environment
  BY <1>2, EnvironmentMoves, EnvironmentStep
<1>3. CASE Plain
  BY <1>3, PlainWalks, WalkStep DEF LedgerInv
<1>4. CASE Deletes
  BY <1>4, DeleteStep DEF Deletes
<1> QED
  BY <1>1, <1>2, <1>3, <1>4, CancelStep, ReplayStep, NextSplits

\* What the journal says of a Job, and what a pass at work holds in memory of it,
\* agrees with what became of it, wherever a pass died.
THEOREM LedgerCorrect == Spec => []LedgerInv
<1>1. TypeOK /\ LedgerInv /\ [Next]_vars => (TypeOK /\ LedgerInv)'
  BY TypeStep, LedgerStep
<1> QED
  BY <1>1, InitTypes, LedgerInit, PTL DEF Spec

\* A Job the built-in feature ran is not recreated on the plugin, whatever worker
\* raced enter_cutover and wherever a pass died, unless somebody deletes or
\* requeues its row by hand.
THEOREM OneSideOnly == Spec => []NeverBothSides
<1>1. TypeOK /\ LedgerInv => NeverBothSides
  <2> SUFFICES ASSUME TypeOK, LedgerInv, NEW j \in journal.recreated, j \in ran,
                      j \notin tampered
               PROVE  FALSE
    BY DEF NeverBothSides
  <2>1. j \in Job /\ journal.job[j] = "cancelled"
    BY JournalFields DEF LedgerInv, ReplayInv, TypeOK
  <2> QED
    BY <2>1 DEF LedgerInv, JournalInv, Tells
<1> QED
  BY <1>1, TypeCorrect, LedgerCorrect, PTL

\* Once recreate_schedules is recorded, a Job the fence cancelled that a replay is
\* possible for was recreated, once, whatever passes died in between.
THEOREM SchedulesKept == Spec => []NothingLost
<1>1. TypeOK /\ LedgerInv => NothingLost
  <2> SUFFICES ASSUME TypeOK, LedgerInv PROVE NothingLost
    OBVIOUS
  <2>1. \A j \in Job : copy[j].made = IF j \in journal.recreated THEN 1 ELSE 0
    BY DEF LedgerInv, ReplayInv
  <2>2. Done("schedules") => Due \subseteq journal.recreated
    BY DEF LedgerInv, ReplayInv
  <2>3. \A j \in (CapturedJobs \cap Replays) \ (ran \cup tampered) : j \in Due /\ j \in Job
    BY DEF Due, CapturedJobs
  <2> QED
    BY <2>1, <2>2, <2>3 DEF NothingLost
<1> QED
  BY <1>1, TypeCorrect, LedgerCorrect, PTL

\* A READY report is no more than a reading of the rows, so what it does not
\* look at, that a captured Job was recreated once and that no worker had run
\* it, has to follow from the ledger (verification.run_verification).
THEOREM ReadyTells == Spec => []ReadyIsHonest
<1>1. TypeOK /\ LedgerInv => ReadyIsHonest
  <2> SUFFICES ASSUME TypeOK, LedgerInv, Ready PROVE ReadyIsHonest
    BY DEF ReadyIsHonest
  <2>1. VerifyScripts = "ready" /\ VerifyRules = "ready" /\ VerifyJobs = "ready"
    BY DEF Ready
  <2>2. ASSUME NEW j \in CapturedJobs
        PROVE  copy[j] = [task |-> "queued", made |-> 1] /\ (j \in ran => j \in tampered)
    <3>1. Lost = {} /\ ~Referencing /\ Missing = {}
      BY <2>1 DEF VerifyJobs
    <3>2. j \in Job /\ j \in journal.recreated
      BY <3>1 DEF Missing, CapturedJobs
    <3>3. copy[j].task = "queued"
      BY <3>1, <3>2 DEF Lost
    <3>4. copy[j].made = 1
      BY <3>2 DEF LedgerInv, ReplayInv
    <3>5. copy[j] = [task |-> "queued", made |-> 1]
      BY <3>2, <3>3, <3>4 DEF TypeOK, Copy
    <3>6. j \in ran => j \in tampered
      BY <3>2 DEF LedgerInv, ReplayInv, JournalInv, Tells
    <3> QED
      BY <3>5, <3>6
  <2>3. ASSUME NEW s \in Mapped, module # {}
        PROVE  row[s] = "live"
    BY <2>1, <2>3 DEF VerifyScripts
  <2>4. ASSUME NEW r \in Rule, journal.rule[r] = "enabled", rule[r].action # "absent"
        PROVE  /\ rule[r].enabled /\ rule[r].watches # "legacy"
               /\ rule[r].action \in {"none", "plugin"}
    <3>1. LegacyRules = {} /\ rule[r].enabled
      BY <2>1, <2>4 DEF VerifyRules
    <3>2. rule[r].action # "legacy" /\ rule[r].watches # "legacy"
      BY <3>1 DEF LegacyRules
    <3> QED
      BY <2>4, <3>1, <3>2 DEF TypeOK, RuleRow
  <2> QED
    BY <2>2, <2>3, <2>4 DEF ReadyIsHonest
<1> QED
  BY <1>1, TypeCorrect, LedgerCorrect, PTL
=============================================================================
