-------------------------- MODULE MigrationCutover --------------------------
(***************************************************************************)
(* The fence: capture what the later steps replay, then close what a       *)
(* plugin can close, and put the staged Projects into service.             *)
(*                                                                         *)
(* One action per statement that commits, so workers, people and a dying   *)
(* process come between any two of them.                                   *)
(***************************************************************************)
EXTENDS MigrationJobs

\* Nothing but the pass and the journal moves.
Elsewhere == <<job, copy, refs, module, plugin, workers, history, bounds>>

-----------------------------------------------------------------------------
(* Staging *)

\* A run is started where none is open, and moves before the work does.  A
\* run past staging, or one that captured, takes no more.
EnterStaging ==
    /\ Free /\ run.state \in {"none", "legacy", "staging"} /\ ~journal.frozen
    /\ run' = [run EXCEPT !.state = "staging"]
    /\ Begin("stage", Covered)
    /\ UNCHANGED <<journal, Elsewhere>>

\* Create or reuse one Project and stage its source, which lands on the
\* revision that already holds it, or refuse that Project alone.
StageProject(p) ==
    /\ At("stage") /\ p \in pass.todo
    /\ \/ /\ proj' = [proj EXCEPT ![p].present = TRUE,
                        ![p].source = IF @ = "none" THEN "pending" ELSE @]
       \/ UNCHANGED proj
    /\ pass' = [pass EXCEPT !.todo = @ \ {p}]
    /\ UNCHANGED <<run, journal, job, copy, refs, module, row, workers,
                   history, bounds>>

EndStaging ==
    /\ At("stage") /\ pass.todo = {}
    /\ Leave
    /\ UNCHANGED <<run, journal, Elsewhere>>

-----------------------------------------------------------------------------
(* enter_cutover, up to the capture *)

EnterCutover ==
    /\ Free /\ run.state \in {"staging", "cutover"} /\ ~Done("cutover")
    /\ Begin("check", {})
    /\ UNCHANGED <<run, journal, Elsewhere>>

\* Refused over a running Job, and one the run captured is written down first:
\* a stale one is cleared by deleting its row.
CheckRunning ==
    /\ At("check")
    /\ IF Running = {} THEN Goto("gate") /\ UNCHANGED journal
       ELSE /\ journal' = [journal EXCEPT !.job = [j \in Job |->
                  IF j \in Running \cap CapturedJobs THEN "running" ELSE @[j]]]
            /\ Leave
    /\ UNCHANGED <<run, Elsewhere>>

\* Mapped Projects that could serve nothing on the far side, none of them once
\* the map is recorded.
Unservable ==
    IF journal.frozen THEN {}
    ELSE {p \in Covered :
            \/ ~proj[p].present
            \/ ~Serving(p) /\ "valid" \notin {proj[p].older, proj[p].source}}

\* More than one worker is refused unless the operator accepts them.
CheckServable ==
    /\ At("gate")
    /\ \/ Unservable = {} /\ Goto("capture")
       \/ Unservable # {} /\ Leave
       \/ workers > 1 /\ Leave
    /\ UNCHANGED <<run, journal, Elsewhere>>

\* What the journal says of a rule or permission's enabled: the first reading,
\* never one of the closed state.
Recorded(known, now, legacy) ==
    IF journal.frozen THEN known ELSE IF legacy THEN now ELSE "absent"

Flag(enabled) == IF enabled THEN "enabled" ELSE "disabled"

\* A waiting Job's input is in its queue task only, so one without a task is
\* left for a later pass.
Capturable(j) == j \in Waiting /\ job[j].task \notin {"none", "owed"}

\* Variant of NewlyWaiting: schedules are captured once, like the rest.
NewlyWaitingOnce(j) == ~journal.frozen /\ Capturable(j)

NewlyWaiting(j) == journal.job[j] = "none" /\ Capturable(j)

\* One journal write: rules, permissions and the map once, and every waiting
\* Job not seen before.
Capture ==
    /\ At("capture")
    /\ journal' = [journal EXCEPT
          !.frozen = TRUE,
          !.rule = [r \in Rule |->
             Recorded(@[r], Flag(rule[r].enabled), r \in LegacyRules)],
          !.perm = [q \in Perm |->
             Recorded(@[q], Flag(perm[q].enabled), q \in LegacyPerms)],
          !.job = [j \in Job |->
             IF NewlyWaiting(j) THEN "open" ELSE @[j]]]
    /\ Goto("advance")
    /\ UNCHANGED <<run, Elsewhere>>

\* After the capture and before anything closes.
AdvanceToCutover ==
    /\ At("advance")
    /\ run' = Moved("cutover")
    /\ Goto("perms")
    /\ UNCHANGED <<journal, Elsewhere>>

-----------------------------------------------------------------------------
(* _close *)

ClosePermissions ==
    /\ At("perms")
    /\ perm' = [q \in Perm |->
          [perm[q] EXCEPT !.enabled = @ /\ journal.perm[q] = "absent"]]
    /\ Goto("rules")
    /\ UNCHANGED <<run, journal, job, copy, rule, autosync, module, plugin,
                   workers, history, bounds>>

CloseRules ==
    /\ At("rules")
    /\ rule' = [r \in Rule |->
          [rule[r] EXCEPT !.enabled = @ /\ journal.rule[r] = "absent"]]
    /\ pass' = [pass EXCEPT !.pc = "cancel", !.todo = CapturedJobs,
                            !.mem = journal.job]
    /\ UNCHANGED <<run, journal, job, copy, perm, autosync, module, plugin,
                   workers, history, bounds>>

\* The outcome of one entry, kept in memory until something writes the journal.
Noted(j, outcome) == [pass EXCEPT !.mem[j] = outcome, !.todo = @ \ {j},
                                  !.pc = "cancel", !.at = Nothing]

\* The same, written at once.
Journaled(j, outcome) ==
    /\ pass' = Noted(j, outcome)
    /\ journal' = [journal EXCEPT !.job = [pass.mem EXCEPT ![j] = outcome]]

\* Variant of CancelResolve: a failed row reads as a run that went ahead.
CancelResolveRan(j) ==
    /\ Journaled(j, "executed")
    /\ UNCHANGED <<run, Elsewhere>>

\* An interrupted pass was at this Job: only a worker writes started, so it
\* tells the pass's own failure from a run that went ahead.
CancelResolve(j) ==
    /\ Journaled(j, IF job[j].started THEN "executed" ELSE "cancelled")
    /\ UNCHANGED <<run, Elsewhere>>

CancelEntry(j) ==
    /\ At("cancel") /\ j \in pass.todo
    /\ \/ /\ pass.mem[j] = "cancelled"
          /\ pass' = Noted(j, "cancelled")
          /\ UNCHANGED <<run, journal, Elsewhere>>
       \/ /\ pass.mem[j] # "cancelled" /\ job[j].status = "gone"
          /\ pass' = Noted(j, IF pass.mem[j] \in {"executed", "running"}
                              THEN "executed" ELSE "vanished")
          /\ UNCHANGED <<run, journal, Elsewhere>>
       \/ /\ pass.mem[j] = "cancelling"
          /\ job[j].status \notin {"gone", "waiting"}
          /\ CancelResolve(j)
       \/ /\ pass.mem[j] # "cancelled" /\ job[j].status = "waiting"
          /\ journal' = [journal EXCEPT !.job = [pass.mem EXCEPT ![j] = "cancelling"]]
          /\ pass' = [pass EXCEPT !.mem[j] = "cancelling", !.pc = "revoke",
                                  !.at = j]
          /\ UNCHANGED <<run, Elsewhere>>
       \/ /\ pass.mem[j] \notin {"cancelled", "cancelling"}
          /\ job[j].status \notin {"gone", "waiting"}
          /\ pass' = Noted(j, IF job[j].status = "running" THEN "running"
                              ELSE "executed")
          /\ UNCHANGED <<run, journal, Elsewhere>>

\* The queued task goes first; a worker that holds it keeps it.
RevokeTask(j) ==
    /\ At("revoke") /\ pass.at = j
    /\ SetJob(j, [job[j] EXCEPT !.task = IF @ = "held" THEN @ ELSE "none"])
    /\ Goto("fail")
    /\ UNCHANGED <<run, journal, copy, refs, module, plugin, workers, history,
                   bounds>>

\* A conditional update, so a Job a worker started is not overwritten.
MayFail(j) == job[j].status = "waiting" /\ ~job[j].started

FailJob(j) ==
    /\ At("fail") /\ pass.at = j
    /\ IF MayFail(j)
       THEN SetJob(j, [job[j] EXCEPT !.status = "failed"]) /\ Goto("record")
       ELSE UNCHANGED job /\ Goto("reread")
    /\ UNCHANGED <<run, journal, copy, refs, module, plugin, workers, history,
                   bounds>>

RecordCancelled(j) ==
    /\ At("record") /\ pass.at = j
    /\ Journaled(j, "cancelled")
    /\ UNCHANGED <<run, Elsewhere>>

\* Variant of Overtaken: a row the update did not match is taken for gone.
OvertakenGone(j) == "vanished"

\* A worker started it after the first reading, or its row was deleted.
Overtaken(j) ==
    IF job[j].status = "gone" THEN "vanished"
    ELSE IF job[j].status = "running" THEN "running" ELSE "executed"

RereadJob(j) ==
    /\ At("reread") /\ pass.at = j
    /\ pass' = Noted(j, Overtaken(j))
    /\ UNCHANGED <<run, journal, Elsewhere>>

RecordOutcomes ==
    /\ At("cancel") /\ pass.todo = {}
    /\ journal' = [journal EXCEPT !.job = pass.mem]
    /\ Goto("list")
    /\ UNCHANGED <<run, Elsewhere>>

\* What the journal names as deregistered, once.
ListSynced == IF journal.listed THEN journal.synced ELSE autosync

RecordSynced ==
    /\ At("list")
    /\ journal' = [journal EXCEPT !.listed = TRUE, !.synced = ListSynced]
    /\ Goto("drop")
    /\ UNCHANGED <<run, Elsewhere>>

DropSync ==
    /\ At("drop")
    /\ autosync' = {}
    /\ Goto("finish")
    /\ UNCHANGED <<run, journal, job, copy, rule, perm, module, plugin,
                   workers, history, bounds>>

\* A Job that still waits or runs leaves the step open for a later pass.
CheckUnfinished ==
    /\ At("finish")
    /\ IF Running \cup Waiting = {} THEN Goto("complete") ELSE Leave
    /\ UNCHANGED <<run, journal, Elsewhere>>

CompleteCutover ==
    /\ At("complete")
    /\ Complete("cutover") /\ Leave
    /\ UNCHANGED <<journal, Elsewhere>>

-----------------------------------------------------------------------------
(* activate_staged *)

EnterActivation ==
    /\ Free /\ run.state \in {"staging", "cutover"} /\ Done("cutover")
    /\ Begin("activate", {p \in Covered : proj[p].present})
    /\ UNCHANGED <<run, journal, Elsewhere>>

\* What one Project should serve: the accepted source if it is valid; else
\* what it serves already, repaired; else, serving nothing, an older valid one.
Choice(p) ==
    IF proj[p].source = "valid" THEN {"source"}
    ELSE IF Serving(p)
         THEN {r \in {"older", "source"} : proj[p][r] = "active"}
    ELSE {r \in {"older"} : proj[p][r] = "valid"}

\* A failure is reported and the rest go on.
ActivateProject(p) ==
    /\ At("activate") /\ p \in pass.todo
    /\ pass' = [pass EXCEPT !.todo = @ \ {p}, !.kept = @ \cup {p}]
    /\ \/ \E r \in Choice(p) : proj[p].present /\ Promote(p, r)
       \/ UNCHANGED plugin
    /\ UNCHANGED <<run, journal, job, copy, refs, module, workers, history,
                   bounds>>

\* Always recorded, with the Projects this pass reached added to those before.
CompleteActivation ==
    /\ At("activate") /\ pass.todo = {}
    /\ journal' = [journal EXCEPT !.activated = @ \cup pass.kept]
    /\ Complete("activate") /\ Leave
    /\ UNCHANGED Elsewhere

\* The process dies between two statements.
PassDies ==
    /\ ~Idle /\ crashes < MaxCrashes /\ Room
    /\ crashes' = crashes + 1
    /\ Leave
    /\ UNCHANGED <<run, journal, job, copy, refs, module, plugin, workers,
                   history, tampers, edits>>

Staging == EnterStaging \/ EndStaging \/ \E p \in Project : StageProject(p)

CutoverSteps ==
    \/ CheckRunning \/ CheckServable \/ Capture \/ AdvanceToCutover
    \/ ClosePermissions \/ CloseRules \/ RecordOutcomes \/ RecordSynced
    \/ DropSync \/ CheckUnfinished \/ CompleteCutover
    \/ \E j \in Job : \/ CancelEntry(j) \/ RevokeTask(j) \/ FailJob(j)
                      \/ RecordCancelled(j) \/ RereadJob(j)

Activation ==
    \/ EnterActivation \/ CompleteActivation
    \/ \E p \in Project : ActivateProject(p)
=============================================================================
