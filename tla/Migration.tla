------------------------------ MODULE Migration ------------------------------
(***************************************************************************)
(* A whole migration: the passes in any order an operator queues them, the *)
(* cleanup that ends it, the verification report, and what they promise    *)
(* together.                                                               *)
(*                                                                         *)
(* A pass refuses at its start what it cannot do, so an action per pass    *)
(* enters it with that refusal as its guard.                               *)
(***************************************************************************)
EXTENDS MigrationReferences

-----------------------------------------------------------------------------
(* retire_legacy *)

ReferencesDone == {"rules", "permissions", "history", "schedules"} \subseteq run.steps

Within(m) == {s \in Script : ModuleOf[s] = m}

\* Variant of Stranded: a retired Script will do.
StrandedUnresolved(m) ==
    \E s \in Within(m) \cap Mapped : proj[ProjectOf[m]].present /\ row[s] = "none"

\* Its Project is still there, and does not publish everything it holds.
Stranded(m) ==
    \E s \in Within(m) \cap Mapped : proj[ProjectOf[m]].present /\ row[s] # "live"

\* Read once: the modules of a Project that serves nothing wait, and those in
\* kept would lose their last runnable copy.
BeginCleanup ==
    /\ Free /\ run.state \in {"staging", "cutover"}
    /\ Done("cutover") /\ ReferencesDone /\ ~Done("cleanup")
    /\ pass' = [Rest EXCEPT
          !.pc = "modules",
          !.todo = {m \in module : ProjectOf[m] \notin NotServing},
          !.kept = {m \in module : Stranded(m)},
          !.open = NotServing # {}]
    /\ touched' = {}
    /\ UNCHANGED <<run, journal, job, copy, refs, module, plugin, workers, ran,
                   tampered, bounds>>

\* Jobs and rules that deleting a module takes with it.
JobsUnder(m)  == {j \in LegacyJobs : Names[j] \in {m} \cup Within(m)}
RulesUnder(m) ==
    {r \in Rule : rule[r].action = "legacy" /\ RuleNames[r] \in {m} \cup Within(m)}

\* History no plugin row can hold: no operator action would clear it.
HeldForGood(m) == \E j \in JobsUnder(m) : Names[j] \in {m} \cup Departed

\* Variant of MayGo: what still refers to the module is not read.
MayGoUnread(m) == m \notin pass.kept

MayGo(m) == m \notin pass.kept /\ JobsUnder(m) \cup RulesUnder(m) = {}

\* A module kept for now holds the run open, one kept for good does not.
CheckModule(m) ==
    /\ At("modules") /\ m \in pass.todo
    /\ \/ ~MayGo(m) /\ Finished(m, ~HeldForGood(m))
       \/ MayGo(m) /\ pass' = [pass EXCEPT !.pc = "delete", !.at = m]
    /\ UNCHANGED <<run, journal, Elsewhere>>

\* Its Scripts go with it, and every row that names any of them by now.  A
\* task already queued for such a Job stays.
DeleteModule(m) ==
    /\ At("delete") /\ pass.at = m
    /\ module' = module \ {m}
    /\ job' = [j \in Job |-> IF j \in JobsUnder(m)
                             THEN [job[j] EXCEPT !.status = "gone"] ELSE job[j]]
    /\ rule' = [r \in Rule |->
          IF r \in RulesUnder(m)
          THEN [enabled |-> FALSE, action |-> "absent", watches |-> "none"]
          ELSE rule[r]]
    /\ pass' = [pass EXCEPT !.pc = "modules", !.todo = @ \ {m}, !.at = Nothing]
    /\ UNCHANGED <<run, journal, copy, perm, autosync, plugin, workers,
                   history, bounds>>

\* The state and the step together, unless a later pass has something to do.
EndCleanup ==
    /\ At("modules") /\ pass.todo = {}
    /\ run' = IF pass.open THEN run
              ELSE [Moved("migrated") EXCEPT !.steps = @ \cup {"cleanup"}]
    /\ Leave
    /\ UNCHANGED <<journal, Elsewhere>>

Cleanup ==
    \/ BeginCleanup \/ EndCleanup
    \/ \E m \in Module : CheckModule(m) \/ DeleteModule(m)

-----------------------------------------------------------------------------
(* The verification report: one level per check, and the worst of them *)

VerifyModules ==
    CASE ~Done("activate") -> "warning"
      [] Done("activate") /\ \E p \in journal.activated : ~Serving(p) -> "blocking"
      [] OTHER -> IF module # {} /\ ~Done("cleanup") THEN "warning" ELSE "ready"

Published(p) == {s \in Mine(p) : row[s] # "none"}

\* The map while any built-in module stands, and what the Projects publish
\* once none does.
VerifyScripts ==
    CASE ~Done("activate") -> "warning"
      [] Done("activate") /\ module # {} ->
            IF \E s \in Mapped : row[s] # "live" THEN "blocking" ELSE "ready"
      [] OTHER ->
            IF \E p \in journal.activated : Mine(p) \cap Mapped # {} /\ Published(p) = {}
            THEN "blocking"
            ELSE IF \E p \in journal.activated, s \in Script :
                       s \in Mine(p) /\ row[s] = "retired"
            THEN "warning" ELSE "ready"

VerifyRules ==
    CASE ~Done("rules") -> "warning"
      [] Done("rules") /\ \E r \in LegacyRules : journal.rule[r] = "absent" -> "blocking"
      [] OTHER ->
            IF \/ LegacyRules # {}
               \/ \E r \in Rule : /\ journal.rule[r] = "enabled"
                                  /\ rule[r].action # "absent" /\ ~rule[r].enabled
            THEN "warning" ELSE "ready"

VerifyPermissions ==
    CASE ~Done("permissions") -> "warning"
      [] Done("permissions") /\ \E q \in LegacyPerms : journal.perm[q] = "absent" -> "blocking"
      [] OTHER -> IF LegacyPerms # {} THEN "warning" ELSE "ready"

\* A reference pass is under way.
Referencing ==
    pass.pc \in {"resolve", "repoint", "grants", "swap", "history", "move",
                 "schedules", "replay", "enqueue", "handoff"}

\* The queue is not read while a reference pass writes it.
Lost == {j \in journal.recreated : ~Referencing /\ copy[j].task # "queued"}

\* Variant of Missing: a schedule that was skipped is not looked for.
MissingNone == {}

Missing == CapturedJobs \ journal.recreated

VerifyJobs ==
    CASE ~Done("history") -> "warning"
      [] Done("history") /\ Waiting \cup Running \cup Lost # {} -> "blocking"
      [] OTHER -> IF LegacyJobs # {} \/ Referencing \/ Missing # {} THEN "warning" ELSE "ready"

Ready == {VerifyModules, VerifyScripts, VerifyRules, VerifyPermissions, VerifyJobs}
            = {"ready"}

-----------------------------------------------------------------------------
(* Specification *)

Unrecorded ==
    [frozen |-> FALSE, rule |-> [r \in Rule |-> "absent"],
     perm |-> [q \in Perm |-> "absent"], job |-> [j \in Job |-> "none"],
     listed |-> FALSE, synced |-> {}, recreated |-> {}, split |-> {},
     activated |-> {}]

NoJob == [status |-> "absent", started |-> FALSE, task |-> "none", legacy |-> TRUE]

\* What a rule or permission looks like before the migration.
FirstRule(r) ==
    [enabled |-> r \notin Disabled,
     action  |-> IF RuleNames[r] = Nothing THEN "none" ELSE "legacy",
     watches |-> IF r \in Watching THEN "legacy" ELSE "none"]

FirstTypes(q) == IF Kind[q] = "split" THEN {"legacy", "other"} ELSE {"legacy"}

FirstRow(s) ==
    LET p == ProjectOf[ModuleOf[s]]
        Holds(slots) == \E r \in {"older", "source"} :
                           proj[p][r] \in slots /\ s \in Publishes[r]
    IN IF Holds({"active"}) THEN "live"
       ELSE IF Holds({"retired"}) THEN "retired" ELSE "none"

Init ==
    /\ run = [state |-> "none", steps |-> {}]
    /\ journal = Unrecorded /\ pass = Rest
    /\ job \in [Job -> {NoJob, Fresh("queued")}]
    /\ \A j \in Job \ Submitted : job[j] = NoJob
    /\ copy = [j \in Job |-> [task |-> "none", made |-> 0]]
    /\ \E there \in SUBSET Rule :
          rule = [r \in Rule |-> IF r \in there THEN FirstRule(r) ELSE
                    [enabled |-> FALSE, action |-> "absent", watches |-> "none"]]
    /\ perm = [q \in Perm |-> [enabled |-> q \notin Disabled, types |-> FirstTypes(q),
                               sibling |-> "none", siblings |-> 0]]
    /\ module = Module /\ autosync = Module
    /\ proj \in [Project -> Beginnings]
    /\ row = [s \in Script |-> FirstRow(s)]
    /\ workers \in 1..MaxWorkers
    /\ ran = {} /\ tampered = {} /\ touched = {}
    /\ crashes = 0 /\ tampers = 0 /\ edits = 0

Passes == EnterCutover \/ Staging \/ CutoverSteps \/ Activation \/ References \/ Cleanup

Next == Environment \/ Passes \/ PassDies

Spec == Init /\ [][Next]_vars

\* What a pass does once it has begun.
Continues == ~Idle /\ Passes

\* A pass under way goes on, an operator enters an unfinished cutover again and
\* in the end accepts its workers, each worker finishes what it took, and who
\* saved a row queues its task.  None of it binds a process that died.
FairSpec ==
    /\ Spec
    /\ WF_vars(Continues) /\ SF_vars(EnterCutover)
    /\ SF_vars(CheckServable /\ pass'.pc = "capture")
    /\ \A j \in Job : /\ WF_vars(StartRun(j)) /\ WF_vars(RefuseRun(j))
                      /\ WF_vars(EndRun(j)) /\ WF_vars(Queue(j))
                      /\ WF_vars(SaveSuccessor(j)) /\ WF_vars(FreeWorker(j))

-----------------------------------------------------------------------------
(* Properties *)

Replays == {j \in Job : Names[j] \in Mapped /\ j \notin Unreplayable}

\* A Job the built-in feature ran is not recreated on the plugin, whatever
\* worker raced the cutover and wherever a pass died: enter_cutover and
\* recreate_schedules agree on which side runs it.  Somebody who deletes or
\* requeues the row by hand takes that on.
NeverBothSides == journal.recreated \cap ran \subseteq tampered

\* Once the schedules step is recorded, a Job the fence cancelled that a replay
\* is possible for was recreated, once: neither a crash between cancelling and
\* recording, nor one between two recreations, loses or doubles it.
NothingLost ==
    /\ \A j \in Job : copy[j].made <= 1
    /\ Done("schedules") =>
          \A j \in (CapturedJobs \cap Replays) \ (ran \cup tampered) :
             copy[j].made = 1

\* A captured rule or grant comes back exactly as it was before the fence, and
\* never while it still names the built-in feature; a split grant gains one
\* sibling.  A fence entered again after a crash reads what it closed itself.
\* Every module it deregistered from synchronization stays named.
RestoredAsCaptured ==
    /\ Module \ autosync \subseteq journal.synced
    /\ Done("cutover") =>
          \A r \in Rule : journal.rule[r] # "absent" =>
             ~(rule[r].enabled /\ rule[r].action = "legacy")
    /\ Done("rules") =>
          \A r \in Rule :
             /\ journal.rule[r] # "absent" /\ rule[r].action # "absent"
             /\ RuleNames[r] \in Mapped \cup {Nothing}
             => rule[r].enabled = (r \notin Disabled)
    /\ Done("permissions") =>
          \A q \in Perm : journal.perm[q] # "absent" =>
             CASE Kind[q] = "swap" -> /\ perm[q].types = {"plugin"}
                                      /\ perm[q].enabled = (q \notin Disabled)
               [] Kind[q] = "split" -> /\ perm[q].types = {"other"}
                                       /\ perm[q].enabled = (q \notin Disabled)
                                       /\ perm[q].sibling = Flag(q \notin Disabled)
                                       /\ perm[q].siblings = 1
               [] OTHER -> ~perm[q].enabled

\* Deleting a module takes no Job or rule the fence captured with it, whatever
\* was queued or written since the pass looked: each moved, or keeps it.
DeletionSparesCaptured ==
    [][\A m \in module \ module' :
          /\ JobsUnder(m) \cap CapturedJobs \subseteq tampered
          /\ \A r \in RulesUnder(m) : journal.rule[r] = "absent"]_vars

\* No built-in module is deleted while a Script it holds can run nowhere else,
\* short of somebody moving its Project under the cleanup.  A Project deleted
\* before it holds nothing up: retire_legacy takes its modules all the same.
RunnableSomewhere ==
    [][\A m \in module \ module' :
          \/ ProjectOf[m] \in touched \/ ~proj[ProjectOf[m]].present
          \/ \A s \in Within(m) \cap Mapped : row[s] = "live"]_vars

\* When verification reports READY, what it leaves unsaid is true as well:
\* every captured Job stands once on the plugin and ran nowhere else, every
\* Script can run, and every captured rule works for the plugin.
ReadyIsHonest ==
    Ready =>
       /\ \A j \in CapturedJobs : /\ copy[j] = [task |-> "queued", made |-> 1]
                                  /\ j \in ran => j \in tampered
       /\ \A s \in Mapped : module # {} => row[s] = "live"
       /\ \A r \in Rule : journal.rule[r] = "enabled" /\ rule[r].action # "absent" =>
             /\ rule[r].enabled /\ rule[r].watches # "legacy"
             /\ rule[r].action \in {"none", "plugin"}

\* A dead worker left the Job running, or the Job waits for a task that never
\* comes, so no capture can read its input.
Stale ==
    \E j \in Job :
        \/ job[j].status = "running" /\ job[j].task # "held"
        \/ /\ job[j].status = "waiting" /\ job[j].task = "none"
           /\ journal.job[j] = "none"

\* A cutover that closed anything completes if its operator keeps entering it,
\* whatever submissions, recurrences and crashes get in between.  Two rows hold
\* it until somebody deletes them: one a dead worker left running, and one whose
\* queue task never arrived (cutover._capture_schedules, _close).
CutoverCompletes == (run.state = "cutover") ~> (Done("cutover") \/ Stale)
=============================================================================
