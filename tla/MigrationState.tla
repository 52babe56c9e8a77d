--------------------------- MODULE MigrationState ---------------------------
(***************************************************************************)
(* What a migration off the built-in Custom Scripts reads and writes: the  *)
(* run row and its journal, the built-in rows it takes over, and the       *)
(* plugin rows it moves them to.                                           *)
(*                                                                         *)
(* Passes are NetBox Jobs.  Each holds the migration lock from its first   *)
(* statement to its last, so at most one is under way: pass holds its      *)
(* place and what it has read but not yet written.  A pass that dies loses *)
(* that and the lock, never a row it committed.                            *)
(***************************************************************************)
EXTENDS Naturals, FiniteSets

CONSTANTS
    Script,       \* built-in Custom Scripts, one class each
    Departed,     \* those whose class left its file: mapped to nothing
    Module,       \* built-in script modules
    Project,      \* the Script Projects they are staged as
    ModuleOf, ProjectOf,
    Publishes,    \* which Scripts the older and the newest revisions publish
    Job,          \* Jobs of the built-in feature
    Names,        \* the Script or module each Job names
    Successor,    \* the Job a recurring one queues when it ends, or Nothing
    Unreplayable, \* Jobs whose input, owner or due time refuses a replay for good
    Rule,         \* Event Rules
    RuleNames,    \* the Script or module a rule runs, or Nothing
    Watching,     \* rules that watch the built-in models
    Perm, Kind,   \* permissions, and what the pass can do with each
    Disabled,     \* rules and permissions written disabled
    Beginnings,   \* what a Project may hold before the migration
    Nothing,
    MaxWorkers,   \* bound: workers
    MaxCrashes,   \* bound: passes and workers that die
    MaxTampers,   \* bound: built-in Jobs deleted or requeued by hand
    MaxEdits,     \* bound: edits of Projects, and validations that fail
    MaxMishaps    \* bound: all of these together

Mapped == Script \ Departed
Target == Script \cup Module

\* The newest revision before the staged one, and the staged one.
RevisionState == {"none", "pending", "valid", "invalid", "active", "retired"}

ProjectRow == [present : BOOLEAN, older : RevisionState, source : RevisionState]

\* A Project serves one revision at most.
ProjectRows == {r \in ProjectRow : ~(r.older = "active" /\ r.source = "active")}

ASSUME MigrationConstants ==
    /\ Departed \subseteq Script /\ Script \cap Module = {}
    /\ ModuleOf \in [Script -> Module] /\ ProjectOf \in [Module -> Project]
    /\ Publishes \in [{"older", "source"} -> SUBSET Mapped]
    /\ Names \in [Job -> Target]
    /\ Successor \in [Job -> Job \cup {Nothing}]
    /\ Unreplayable \subseteq Job
    /\ RuleNames \in [Rule -> Target \cup {Nothing}] /\ Watching \subseteq Rule
    /\ Kind \in [Perm -> {"swap", "split", "constrained", "unmappable"}]
    /\ Nothing \notin Job \cup Rule \cup Perm \cup Project \cup Target
    /\ Beginnings \subseteq ProjectRows
    /\ MaxWorkers \in Nat /\ MaxCrashes \in Nat
    /\ MaxTampers \in Nat /\ MaxEdits \in Nat /\ MaxMishaps \in Nat

VARIABLES
    run,       \* state of the open run, and the steps it completed
    journal,   \* what the run recorded to replay from
    pass,      \* the pass under way
    job,       \* built-in Jobs: row, queue task, and the type they name
    copy,      \* the Job recreated for each of them: its task, how many
    rule, perm,
    module,    \* built-in modules still there
    autosync,  \* modules registered for synchronization
    proj,      \* Script Projects and their two newest revisions
    row,       \* the NetBoxScript row of each Script
    workers,   \* how many workers run
    ran,       \* history: built-in Jobs a worker started
    tampered,  \* history: built-in Jobs deleted or requeued by hand
    touched,   \* history: Projects moved since the cleanup under way began
    crashes, tampers, edits

history == <<ran, tampered, touched>>
bounds  == <<crashes, tampers, edits>>
refs    == <<rule, perm, autosync>>
plugin  == <<proj, row>>
vars == <<run, journal, pass, job, copy, refs, module, plugin, workers,
          history, bounds>>

-----------------------------------------------------------------------------
(* Types *)

Step == {"cutover", "activate", "rules", "permissions", "history",
         "schedules", "cleanup"}

RunRow == [state : {"none", "legacy", "staging", "cutover", "migrated"},
           steps : SUBSET Step]

\* none: not captured.  open: captured, and nothing recorded of its end yet.
Outcome == {"none", "open", "cancelling", "cancelled", "executed", "running",
            "vanished"}

Captured == {"absent", "enabled", "disabled"}

\* What a pass goes through one by one.
Item == Job \cup Rule \cup Perm \cup Project \cup Target

Journal == [frozen    : BOOLEAN,              \* the map, and the rest with it
            rule      : [Rule -> Captured],
            perm      : [Perm -> Captured],
            job       : [Job -> Outcome],
            listed    : BOOLEAN,              \* auto_sync is recorded
            synced    : SUBSET Module,
            recreated : SUBSET Job,
            split     : SUBSET Perm,
            activated : SUBSET Item]

\* A saved row owes its task until the transaction's commit hook queues it; one
\* whose worker died is stranded, its input still there.
JobRow == [status  : {"absent", "waiting", "running", "done", "failed", "gone"},
           started : BOOLEAN,
           task    : {"none", "owed", "queued", "held", "stranded"},
           legacy  : BOOLEAN]

\* A Job the pass recreated: owed until its task is handed to the queue.
Copy == [task : {"none", "owed", "queued"}, made : Nat]

RuleRow == [enabled : BOOLEAN,
            action  : {"absent", "none", "legacy", "plugin"},
            watches : {"none", "legacy", "plugin"}]

PermRow == [enabled : BOOLEAN, types : SUBSET {"legacy", "other", "plugin"},
            sibling : Captured \cup {"none"}, siblings : Nat]

ScriptRow == {"none", "live", "retired"}

Pc == {"idle", "stage", "check", "gate", "capture", "advance", "perms", "rules",
       "cancel", "revoke", "fail", "record", "reread", "list", "drop",
       "finish", "complete", "activate", "resolve", "repoint", "grants", "swap",
       "history", "move", "schedules", "replay", "enqueue", "handoff",
       "modules", "delete"}

\* todo and kept are the items left and those gone through, mem the journal's
\* schedules as the pass holds them in memory, seen the Script rows it resolved
\* at the start of a step, open whether the step has to stay open.
Pass == [pc : Pc, todo : SUBSET Item, kept : SUBSET Item,
         at : Item \cup {Nothing}, mem : [Job -> Outcome],
         seen : [Script -> ScriptRow], open : BOOLEAN]

TypeOK ==
    /\ run \in RunRow
    /\ journal \in Journal
    /\ pass \in Pass
    /\ job \in [Job -> JobRow]
    /\ copy \in [Job -> Copy]
    /\ rule \in [Rule -> RuleRow] /\ perm \in [Perm -> PermRow]
    /\ module \subseteq Module /\ autosync \subseteq Module
    /\ proj \in [Project -> ProjectRows] /\ row \in [Script -> ScriptRow]
    /\ workers \in Nat
    /\ ran \subseteq Job /\ tampered \subseteq Job /\ touched \subseteq Project
    /\ crashes \in Nat /\ tampers \in Nat /\ edits \in Nat
-----------------------------------------------------------------------------
(* The run and its pass *)

Rest == [pc |-> "idle", todo |-> {}, kept |-> {}, at |-> Nothing,
         mem |-> [j \in Job |-> "none"],
         seen |-> [s \in Script |-> "none"], open |-> FALSE]

Room == crashes + tampers + edits < MaxMishaps

Idle == pass.pc = "idle"

At(pc) == pass.pc = pc

Goto(pc) == pass' = [pass EXCEPT !.pc = pc]

\* A step of the pass begins, over the items it goes through one by one.
Begin(pc, items) == pass' = [Rest EXCEPT !.pc = pc, !.todo = items]

\* The pass returns or raises, which frees the migration lock.
Leave == pass' = Rest

Done(step) == step \in run.steps

Complete(step) == run' = [run EXCEPT !.steps = @ \cup {step}]

\* The state a run may enter next, one at a time.
Follows(state) ==
    <<run.state, state>> \in {<<"legacy", "staging">>, <<"staging", "cutover">>,
                              <<"cutover", "migrated">>}

Moved(state) == [run EXCEPT !.state = IF Follows(state) THEN state ELSE @]

CapturedJobs == {j \in Job : journal.job[j] # "none"}

-----------------------------------------------------------------------------
(* Projects and Scripts *)

Home(t) == IF t \in Module THEN t ELSE ModuleOf[t]

Mine(p) == {s \in Script : ProjectOf[ModuleOf[s]] = p}

Covered == {ProjectOf[m] : m \in Module}

Serving(p) == proj[p].present /\ "active" \in {proj[p].older, proj[p].source}

NotServing == {p \in Covered : proj[p].present /\ ~Serving(p)}

\* Scripts of p follow the revision in slot r, "none" for none of them.
Synchronized(p, r) ==
    [s \in Script |->
        IF s \notin Mine(p) THEN row[s]
        ELSE IF r # "none" /\ s \in Publishes[r] THEN "live"
        ELSE IF row[s] = "none" THEN "none" ELSE "retired"]

\* One transaction: the slot is served, the one served before retired, the
\* Script rows follow.
Promote(p, r) ==
    /\ proj' = [proj EXCEPT ![p] =
          [present |-> TRUE,
           older  |-> IF r = "older" THEN "active"
                      ELSE IF @.older = "active" THEN "retired" ELSE @.older,
           source |-> IF r = "source" THEN "active"
                      ELSE IF @.source = "active" THEN "retired" ELSE @.source]]
    /\ row' = Synchronized(p, r)

\* Jobs, rules and permissions the built-in queries read.
LegacyJobs == {j \in Job : job[j].legacy /\ job[j].status \notin {"absent", "gone"}}

Running == {j \in LegacyJobs : job[j].status = "running"}

Waiting == {j \in LegacyJobs : job[j].status = "waiting"}

LegacyRules ==
    {r \in Rule : "legacy" \in {rule[r].action, rule[r].watches}}

LegacyPerms == {q \in Perm : "legacy" \in perm[q].types}
=============================================================================
