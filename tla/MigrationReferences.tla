------------------------- MODULE MigrationReferences -------------------------
(***************************************************************************)
(* The reference pass: Event Rules, permissions, Job history and schedules *)
(* move, in that order, onto the rows that replaced what they name.        *)
(*                                                                         *)
(* Each step resolves the Scripts once and works from what it read.  A     *)
(* step a refusal stops ends the pass, and one that left work a later pass *)
(* can do stays open and lets the next begin.                              *)
(***************************************************************************)
EXTENDS MigrationCutover

\* A step over the items of todo, from a fresh reading of the Script rows.
Resolve(pc, items) ==
    pass' = [Rest EXCEPT !.pc = pc, !.todo = items,
                         !.seen = [s \in Script |-> IF s \in Mapped THEN row[s]
                                                    ELSE "none"]]

\* A step is over: recorded unless something is outstanding.
Settle(step) == IF pass.open THEN UNCHANGED run ELSE Complete(step)

Finished(i, held) == pass' = [pass EXCEPT !.todo = @ \ {i}, !.open = @ \/ held]

Referring == run.state \in {"staging", "cutover"} /\ Done("cutover") /\ Done("activate")

EnterReferences ==
    /\ Free /\ Referring
    /\ Begin("resolve", {})
    /\ UNCHANGED <<run, journal, Elsewhere>>

-----------------------------------------------------------------------------
(* repoint_event_rules *)

BeginRules ==
    /\ At("resolve")
    /\ IF NotServing # {} THEN Leave
       ELSE IF Done("rules") THEN Goto("grants")
       ELSE Resolve("repoint", {r \in Rule : journal.rule[r] # "absent"})
    /\ UNCHANGED <<run, journal, Elsewhere>>

\* A live Script stands for what the rule runs.
Movable(r) == RuleNames[r] \in Mapped /\ pass.seen[RuleNames[r]] = "live"

\* Withdrawn for good: a module, or a class that left its file.
NeverMovable(r) == RuleNames[r] \in Module \cup Departed

Moves(r) == rule[r].action \in {"none", "plugin"} \/ Movable(r)

\* Sources move whatever the action does.  A rule moved whole goes back to the
\* state it was captured in.
Repointed(r, moved) ==
    [enabled |-> rule[r].enabled \/ (moved /\ journal.rule[r] = "enabled"),
     action  |-> IF moved /\ rule[r].action = "legacy" THEN "plugin"
                 ELSE rule[r].action,
     watches |-> IF rule[r].watches = "legacy" THEN "plugin" ELSE rule[r].watches]

\* One transaction per rule.  One core refuses to save for a reason of its own
\* stays withdrawn.
RepointRule(r) ==
    /\ At("repoint") /\ r \in pass.todo
    /\ \/ rule[r].action = "absent" /\ Finished(r, FALSE) /\ UNCHANGED rule
       \/ /\ rule[r].action # "absent"
          /\ \/ /\ Moves(r)
                /\ rule' = [rule EXCEPT ![r] = Repointed(r, TRUE)]
                /\ Finished(r, FALSE)
             \/ /\ ~Moves(r) \/ rule[r].action = "legacy"
                /\ rule' = [rule EXCEPT ![r] = Repointed(r, FALSE)]
                /\ Finished(r, ~NeverMovable(r))
    /\ UNCHANGED <<run, journal, job, copy, perm, autosync, module, plugin,
                   workers, history, bounds>>

EndRules ==
    /\ At("repoint") /\ pass.todo = {}
    /\ Settle("rules") /\ Goto("grants")
    /\ UNCHANGED <<journal, Elsewhere>>

-----------------------------------------------------------------------------
(* repoint_permissions *)

\* It names no Script, so it waits for no Project.
BeginPermissions ==
    /\ At("grants")
    /\ IF Done("permissions") THEN Goto("history")
       ELSE Begin("swap", {q \in Perm : journal.perm[q] # "absent"})
    /\ UNCHANGED <<run, journal, Elsewhere>>

\* Nothing but built-in types: they are replaced where they stand.
Swapped(q) ==
    /\ perm' = [perm EXCEPT ![q].types = {"plugin"},
                            ![q].enabled = journal.perm[q] = "enabled"]
    /\ UNCHANGED journal

\* Variant of AlreadySplit: the journal is not asked.
AlreadySplitNever(q) == FALSE

AlreadySplit(q) == q \in journal.split

\* One that also names other types keeps those, and a sibling takes the
\* plugin's, recorded with it.
SplitOff(q) ==
    IF AlreadySplit(q) THEN UNCHANGED <<perm, journal>>
    ELSE /\ perm' = [perm EXCEPT
               ![q].types = @ \ {"legacy"},
               ![q].enabled = journal.perm[q] = "enabled",
               ![q].sibling = journal.perm[q], ![q].siblings = @ + 1]
         /\ journal' = [journal EXCEPT !.split = @ \cup {q}]

\* One transaction each.  A constrained grant, or one with no counterpart, is
\* left withdrawn and named.
MovePermission(q) ==
    /\ At("swap") /\ q \in pass.todo
    /\ CASE Kind[q] = "swap" -> Swapped(q)
         [] Kind[q] = "split" -> SplitOff(q)
         [] OTHER -> UNCHANGED <<perm, journal>>
    /\ Finished(q, FALSE)
    /\ UNCHANGED <<run, job, copy, rule, autosync, module, plugin, workers,
                   history, bounds>>

\* Recorded whatever it left behind.
EndPermissions ==
    /\ At("swap") /\ pass.todo = {}
    /\ Complete("permissions") /\ Goto("history")
    /\ UNCHANGED <<journal, Elsewhere>>

-----------------------------------------------------------------------------
(* repoint_job_history *)

BeginHistory ==
    /\ At("history")
    /\ IF NotServing # {} THEN Leave
       ELSE IF Done("history") THEN Goto("schedules")
       ELSE Resolve("move", {s \in Mapped : row[s] # "none"})
    /\ UNCHANGED <<run, journal, Elsewhere>>

\* One statement per Script, whatever the status of its Jobs.
MoveHistory(s) ==
    /\ At("move") /\ s \in pass.todo
    /\ job' = [j \in Job |-> [job[j] EXCEPT !.legacy = @ /\ Names[j] # s]]
    /\ Finished(s, FALSE)
    /\ UNCHANGED <<run, journal, copy, refs, module, plugin, workers, history,
                   bounds>>

\* History left on a Script the map covers holds the step; a module's, or a
\* departed class's, never will move.
Outstanding == \E j \in LegacyJobs : Names[j] \in Mapped

EndHistory ==
    /\ At("move") /\ pass.todo = {}
    /\ IF Outstanding THEN UNCHANGED run ELSE Complete("history")
    /\ Goto("schedules")
    /\ UNCHANGED <<journal, Elsewhere>>

-----------------------------------------------------------------------------
(* recreate_schedules *)

BeginSchedules ==
    /\ At("schedules")
    /\ IF NotServing # {} \/ Done("schedules") THEN Leave
       ELSE Resolve("replay", CapturedJobs)
    /\ UNCHANGED <<run, journal, Elsewhere>>

\* A worker took it, or the row the cutover failed has changed since.
Replayable(j) ==
    /\ journal.job[j] \notin {"executed", "running"}
    /\ journal.job[j] = "cancelled" =>
          \/ job[j].status = "gone"
          \/ job[j].status = "failed" /\ ~job[j].started

\* Nothing will ever stand for it, so it is skipped and named.
Skipped(j) ==
    ~Replayable(j) \/ Names[j] \notin Mapped \/ j \in Unreplayable

\* Skipped for good, held for a later pass, or due to be recreated.
ReplayEntry(j) ==
    /\ At("replay") /\ j \in pass.todo
    /\ \/ (j \in journal.recreated \/ Skipped(j)) /\ Finished(j, FALSE)
       \/ j \notin journal.recreated /\ ~Skipped(j) /\ Finished(j, TRUE)
       \/ /\ j \notin journal.recreated /\ ~Skipped(j)
          /\ pass.seen[Names[j]] = "live"
          /\ pass' = [pass EXCEPT !.pc = "enqueue", !.at = j]
    /\ UNCHANGED <<run, journal, Elsewhere>>

RecordCopy(j) == journal' = [journal EXCEPT !.recreated = @ \cup {j}]

\* The new Job and the journal entry that claims it commit together.
Recreate(j) ==
    /\ At("enqueue") /\ pass.at = j
    /\ copy' = [copy EXCEPT ![j] = [task |-> "owed", made |-> @.made + 1]]
    /\ RecordCopy(j)
    /\ Goto("handoff")
    /\ UNCHANGED <<run, job, refs, module, plugin, workers, history, bounds>>

\* Its task is queued in a commit hook, so a process may die in between.
HandOver(j) ==
    /\ At("handoff") /\ pass.at = j
    /\ copy' = [copy EXCEPT ![j].task = "queued"]
    /\ pass' = [pass EXCEPT !.pc = "replay", !.todo = @ \ {j}, !.at = Nothing]
    /\ UNCHANGED <<run, journal, job, refs, module, plugin, workers, history,
                   bounds>>

EndSchedules ==
    /\ At("replay") /\ pass.todo = {}
    /\ Settle("schedules") /\ Leave
    /\ UNCHANGED <<journal, Elsewhere>>

References ==
    \/ EnterReferences \/ BeginRules \/ EndRules
    \/ BeginPermissions \/ EndPermissions
    \/ BeginHistory \/ EndHistory \/ BeginSchedules \/ EndSchedules
    \/ \E r \in Rule : RepointRule(r)
    \/ \E q \in Perm : MovePermission(q)
    \/ \E s \in Script : MoveHistory(s)
    \/ \E j \in Job : ReplayEntry(j) \/ Recreate(j) \/ HandOver(j)
=============================================================================
