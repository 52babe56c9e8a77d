------------------------------ MODULE ScriptRun ------------------------------
(***************************************************************************)
(* Runs of one project's Scripts: what a request pins, what a worker runs, *)
(* and how a recurring run queues its successor.                           *)
(*                                                                         *)
(* The project is its ServingContract: revisions are approved, served,     *)
(* stood down and withdrawn at any moment.  A revision here is a row, not  *)
(* a source tree, since a run is pinned to the row: a tree staged again    *)
(* after its row was deleted is another revision.  What a script does once *)
(* its class is loaded is ScriptExecution's concern.                       *)
(***************************************************************************)
EXTENDS Naturals, FiniteSets

CONSTANTS
    Revision, Script, Publishes, NoRevision,  \* as in ServingContract
    Request,      \* concurrent requests for runs
    Run,          \* slots for Job rows; the oldest finished one is forgotten
    Schedule, NoSchedule,
    Policy,       \* notification policies
    Follow,       \* asked of a schedule that follows its Script's policy
    MaxEdits,     \* bound: edits of Scripts and project
    MaxFaults     \* bound: failures, deaths and cancellations

ASSUME ScriptRunConstants ==
    /\ Publishes \in [Revision -> SUBSET Script]
    /\ NoRevision \notin Revision /\ NoSchedule \notin Schedule
    /\ Follow \notin Policy
    /\ Script # {} /\ Policy # {}
    /\ MaxEdits \in Nat /\ MaxFaults \in Nat

VARIABLES
    approved, serving, published,  \* as in ServingContract
    gone,       \* revisions whose row was deleted
    served,     \* history: every revision that was ever in force
    on,         \* enabled, of each Script
    projectOn,  \* enabled, of the project
    policy,     \* the notification policy in effect for each Script
    sound,      \* whether a Script's recorded settings can queue a run
    request,    \* what each request read before it queues a run
    run,        \* the Job rows
    asked,      \* what each schedule was asked to notify
    edits, faults

project  == <<approved, serving, published, gone, served>>
settings == <<on, projectOn, policy, sound>>
vars == <<project, settings, request, run, asked, edits, faults>>

Serving == INSTANCE ServingContract

Unfinished == {"waiting", "admitted", "gated", "fetched", "executing"}
Ended == {"completed", "failed", "errored"}

\* rev is the revision the worker resolved, record the revision the Job row
\* names, due whether a successor is still to be queued.
RunRow == [state : {"unused", "stuck"} \cup Unfinished \cup Ended,
           script : Script, schedule : Schedule \cup {NoSchedule},
           pin : Revision \cup {NoRevision}, rev : Revision \cup {NoRevision},
           record : Revision \cup {NoRevision}, policy : Policy,
           due : BOOLEAN]

\* A request: nothing read, the Script row read, or the project as well.
NoRequest == [step |-> "idle", script |-> NoRevision, rev |-> NoRevision]

RequestState ==
    {NoRequest}
      \cup [step : {"half"}, script : Script, rev : {NoRevision}]
      \cup [step : {"ready"}, script : Script, rev : Revision]

TypeOK ==
    /\ approved \subseteq Revision /\ gone \subseteq Revision
    /\ served \subseteq Revision
    /\ serving \in Revision \cup {NoRevision}
    /\ published \subseteq Script
    /\ on \in [Script -> BOOLEAN] /\ projectOn \in BOOLEAN
    /\ policy \in [Script -> Policy] /\ sound \in [Script -> BOOLEAN]
    /\ request \in [Request -> RequestState]
    /\ run \in [Run -> RunRow]
    /\ asked \in [Schedule -> Policy \cup {Follow}]
    /\ edits \in Nat /\ faults \in Nat

-----------------------------------------------------------------------------
(* Helpers *)

Fault == faults < MaxFaults /\ faults' = faults + 1

\* A slot a new Job row can take.
Free(j) == run[j].state = "unused" \/ (run[j].state \in Ended /\ ~run[j].due)

Recurring(j) == run[j].schedule # NoSchedule

\* Some occurrence of the schedule waits, runs or owes a successor.
InUse(s) ==
    \E j \in Run :
        /\ run[j].schedule = s
        /\ run[j].state \in Unfinished \cup {"stuck"} \/ run[j].due

NewRun(x, s, pin, n) ==
    [state |-> "waiting", script |-> x, schedule |-> s, pin |-> pin,
     rev |-> NoRevision, record |-> pin, policy |-> n,
     due |-> s # NoSchedule]

-----------------------------------------------------------------------------
Init ==
    /\ Serving!Init
    /\ gone = {} /\ served = {}
    /\ on = [x \in Script |-> TRUE] /\ projectOn = TRUE
    /\ policy \in [Script -> Policy]
    /\ sound = [x \in Script |-> TRUE]
    /\ request = [q \in Request |-> NoRequest]
    /\ run \in [Run -> {[state |-> "unused", script |-> x, schedule |-> NoSchedule,
                         pin |-> NoRevision, rev |-> NoRevision,
                         record |-> NoRevision, policy |-> n,
                         due |-> FALSE] :
                            x \in {CHOOSE x \in Script : TRUE},
                            n \in {CHOOSE n \in Policy : TRUE}}]
    /\ asked = [s \in Schedule |-> Follow]
    /\ edits = 0 /\ faults = 0

-----------------------------------------------------------------------------
(* The project, and the edits an administrator makes *)

\* A deleted row does not come back: the same tree staged again is another.
ProjectMoves ==
    /\ \/ \E r \in Revision :
            \/ r \notin gone \cup approved /\ Serving!Approve(r) /\ UNCHANGED gone
            \/ Serving!Serve(r) /\ UNCHANGED gone
            \/ /\ r \in approved /\ Serving!Withdraw(r)
               /\ gone' = gone \cup {r}
       \/ Serving!StandDown /\ UNCHANGED gone
    /\ served' = served \cup ({serving'} \ {NoRevision})
    /\ UNCHANGED <<settings, request, run, asked, edits, faults>>

Edit == edits < MaxEdits /\ edits' = edits + 1

Switch(x) ==
    /\ Edit
    /\ \/ on' = [on EXCEPT ![x] = ~@] /\ UNCHANGED projectOn
       \/ projectOn' = ~projectOn /\ UNCHANGED on
    /\ UNCHANGED <<project, policy, sound, request, run, asked, faults>>

\* An override, or an activation that brings other class metadata.
Reconfigure(x) ==
    /\ Edit
    /\ \/ \E n \in Policy \ {policy[x]} : policy' = [policy EXCEPT ![x] = n] /\ UNCHANGED sound
       \/ sound' = [sound EXCEPT ![x] = ~@] /\ UNCHANGED policy
    /\ UNCHANGED <<project, on, projectOn, request, run, asked, faults>>

-----------------------------------------------------------------------------
(* Requests *)

ScriptAllows(x) == on[x] /\ x \in published

ProjectAllows == projectOn /\ serving # NoRevision

Read(q, step, x, r) ==
    request' = [request EXCEPT ![q] = [step |-> step, script |-> x, rev |-> r]]

\* The run form, the REST action and the command read the Script, its project
\* and the active revision in one query, and refuse what is not executable.
RequestReads(q, x) ==
    /\ request[q] = NoRequest
    /\ ScriptAllows(x) /\ ProjectAllows
    /\ Read(q, "ready", x, serving)
    /\ UNCHANGED <<project, settings, run, asked, edits, faults>>

\* An Event Rule holds the Script row and reads the project when it looks.
EventReadsScript(q, x) ==
    /\ request[q] = NoRequest
    /\ ScriptAllows(x)
    /\ Read(q, "half", x, NoRevision)
    /\ UNCHANGED <<project, settings, run, asked, edits, faults>>

EventReadsProject(q) ==
    /\ request[q].step = "half"
    /\ IF ProjectAllows
       THEN Read(q, "ready", request[q].script, serving)
       ELSE request' = [request EXCEPT ![q] = NoRequest]
    /\ UNCHANGED <<project, settings, run, asked, edits, faults>>

\* The inputs did not validate, the class did not load, the settings cannot
\* queue a run, the revision is gone, permission lacked.
RequestEnds(q) ==
    /\ request[q].step = "ready"
    /\ request' = [request EXCEPT ![q] = NoRequest]
    /\ UNCHANGED <<project, settings, run, asked, edits, faults>>

\* What a one-shot run is pinned to: what was in force when it was read.
Pinned(q) == request[q].rev

\* One transaction: the Job row and the record of its pin.  The settings are
\* those the request read, and which policy applies makes no difference here.
EnqueueOnce(q, j) ==
    /\ request[q].step = "ready" /\ Free(j)
    /\ \E n \in Policy :
          run' = [run EXCEPT ![j] = NewRun(request[q].script, NoSchedule, Pinned(q), n)]
    /\ request' = [request EXCEPT ![q] = NoRequest]
    /\ UNCHANGED <<project, settings, asked, edits, faults>>

\* Variant of RecurringPin: the pin of the request travels with the schedule.
RecurringPinKept(r) == r

\* A recurrence is pinned to nothing.
RecurringPin(r) == NoRevision

\* The policy of an occurrence: the one asked for, or the one in effect.
PolicyFor(x, n) == IF n = Follow THEN policy[x] ELSE n

\* The settings are read again from the Script row.
EnqueueRecurring(q, j, s, n) ==
    LET x == request[q].script IN
    /\ request[q].step = "ready" /\ Free(j) /\ sound[x] /\ ~InUse(s)
    /\ asked' = [asked EXCEPT ![s] = n]
    /\ run' = [run EXCEPT ![j] =
          NewRun(x, s, RecurringPin(request[q].rev), PolicyFor(x, n))]
    /\ request' = [request EXCEPT ![q] = NoRequest]
    /\ UNCHANGED <<project, settings, edits, faults>>

-----------------------------------------------------------------------------
(* NetBoxScriptJob.run *)

Set(j, state) == run' = [run EXCEPT ![j].state = state]

RunOnly == UNCHANGED <<project, settings, request, asked, edits, faults>>

\* Variant of MayStart: what was enabled when it was queued may run.
MayStartAnyway(x) == TRUE

\* Disabling the Script or its project stops what is already queued.
MayStart(x) == on[x]

MayGoOn == projectOn

\* The revision a run resolves to: a pin outlives what the project serves, a
\* recurrence takes what it serves now.
RevisionFor(j) == IF run[j].pin # NoRevision THEN run[j].pin ELSE serving

\* The Script row is read first, and the project row when it is looked at.
Start(j) ==
    /\ run[j].state = "waiting"
    /\ Set(j, IF MayStart(run[j].script) THEN "admitted" ELSE "failed")
    /\ RunOnly

Admit(j) ==
    /\ run[j].state = "admitted"
    /\ LET r == RevisionFor(j) IN
       IF MayGoOn /\ r # NoRevision
       THEN run' = [run EXCEPT ![j].state = "gated", ![j].rev = r]
       ELSE Set(j, "failed")
    /\ RunOnly

\* The revision row may have gone in the meantime: a pinned run says so, a
\* recurrence trips over the project it had read.
Fetch(j) ==
    /\ run[j].state = "gated"
    /\ Set(j, IF run[j].rev \notin gone THEN "fetched"
              ELSE IF run[j].pin # NoRevision THEN "failed" ELSE "errored")
    /\ RunOnly

\* Variant of Resolves: any class the import finds will do.
ResolvesAnything(j) == TRUE

\* The stored identity is looked up in the revision's own record.
Resolves(j) == run[j].script \in Publishes[run[j].rev]

Import(j) ==
    /\ run[j].state = "fetched"
    /\ Set(j, IF Resolves(j) THEN "executing" ELSE "failed")
    /\ RunOnly

\* Variant of Finish: the result does not replace the revision recorded.
FinishUnrecorded(j) ==
    /\ run[j].state = "executing"
    /\ \E state \in {"completed", "failed"} : Set(j, state)
    /\ RunOnly

\* The result joins the record, whether or not the script raised.
Finish(j) ==
    /\ run[j].state = "executing"
    /\ \E state \in {"completed", "failed"} :
          run' = [run EXCEPT ![j].state = state, ![j].record = run[j].rev]
    /\ RunOnly

\* Storage trouble or the Job timeout, inside the run's handler or before it.
Trouble(j) ==
    /\ run[j].state \in {"admitted", "gated", "fetched"}
    /\ Fault
    /\ Set(j, IF run[j].state = "fetched" THEN "failed" ELSE "errored")
    /\ UNCHANGED <<project, settings, request, asked, edits>>

\* The process goes down.  A one-shot run may be in the caller's own process,
\* which still records it, unless the process was killed.
Die(j) ==
    /\ run[j].state \in {"admitted", "gated", "fetched", "executing"}
    /\ Fault
    /\ \/ Set(j, "stuck")
       \/ ~Recurring(j) /\ Set(j, "errored")
    /\ UNCHANGED <<project, settings, request, asked, edits>>

\* Variant of OwesSuccessor: only an occurrence that did its work is repeated.
OwesSuccessorOnSuccess(j) == run[j].due /\ run[j].state = "completed"

OwesSuccessor(j) == run[j].due /\ run[j].state \in Ended

\* Variant of SuccessorPolicy: the policy of the row is taken for inherited.
SuccessorPolicyInherited(j) == policy[run[j].script]

\* A successor inherits again what its schedule left to the Script.
SuccessorPolicy(j) ==
    IF asked[run[j].schedule] = Follow THEN policy[run[j].script] ELSE run[j].policy

\* Variant of Successor: the finished occurrence stays owing.
SuccessorAgain(j, k) ==
    /\ OwesSuccessor(j) /\ (k = j \/ Free(k)) /\ sound[run[j].script]
    /\ run' = [run EXCEPT ![k] =
          NewRun(run[j].script, run[j].schedule, run[j].pin, SuccessorPolicy(j))]
    /\ RunOnly

\* JobRunner.handle queues the next occurrence after it recorded the end of
\* this one, with the arguments this one was given.
Successor(j, k) ==
    /\ OwesSuccessor(j) /\ (k = j \/ Free(k)) /\ sound[run[j].script]
    /\ run' = [run EXCEPT ![j].due = FALSE, ![k] =
          NewRun(run[j].script, run[j].schedule, run[j].pin, SuccessorPolicy(j))]
    /\ RunOnly

\* Settings that cannot queue a run end the schedule.
SuccessorRefused(j) ==
    /\ OwesSuccessor(j) /\ ~sound[run[j].script]
    /\ run' = [run EXCEPT ![j].due = FALSE]
    /\ RunOnly

\* An operator deletes the row, or the process died before the successor.
Cancel(j) ==
    /\ run[j].state \in {"waiting", "stuck"} \/ (run[j].due /\ run[j].state \in Ended)
    /\ Fault
    /\ run' = [run EXCEPT ![j].state = "unused", ![j].schedule = NoSchedule,
                          ![j].due = FALSE]
    /\ UNCHANGED <<project, settings, request, asked, edits>>

-----------------------------------------------------------------------------
Requests(q) ==
    \/ \E x \in Script : RequestReads(q, x) \/ EventReadsScript(q, x)
    \/ EventReadsProject(q) \/ RequestEnds(q)
    \/ \E j \in Run :
          \/ EnqueueOnce(q, j)
          \/ \E s \in Schedule, n \in Policy \cup {Follow} : EnqueueRecurring(q, j, s, n)

Works(j) == Start(j) \/ Admit(j) \/ Fetch(j) \/ Import(j) \/ Finish(j)

Repeats(j) == SuccessorRefused(j) \/ \E k \in Run : Successor(j, k)

Next ==
    \/ ProjectMoves
    \/ \E x \in Script : Switch(x) \/ Reconfigure(x)
    \/ \E q \in Request : Requests(q)
    \/ \E j \in Run : Works(j) \/ Repeats(j) \/ Trouble(j) \/ Die(j) \/ Cancel(j)

Spec == Init /\ [][Next]_vars

\* Workers drain the queue and core queues successors.  Nobody has to ask for
\* a run, serve anything or change a setting.
FairSpec == Spec /\ \A j \in Run : WF_vars(Works(j)) /\ WF_vars(Repeats(j))

-----------------------------------------------------------------------------
(* Properties *)

\* What executes passed validation, was in force at some time and publishes
\* the Script, and a one-shot run executes the revision it was pinned to and
\* none other, though the project may have moved on
\* (NetBoxScriptJob._revision_for, _resolve).
RunsWhatWasServed ==
    \A j \in Run :
        run[j].state \in {"executing", "completed"} =>
            /\ run[j].rev \in served \cap (approved \cup gone)
            /\ run[j].script \in Publishes[run[j].rev]
            /\ Recurring(j) \/ run[j].rev = run[j].pin

\* A Job row never names another revision than the one it executed: not the
\* pin of a run that executed something else, not none for one that completed
\* (NetBoxScriptJob._run_class).
RecordTellsWhatRan ==
    \A j \in Run :
        /\ run[j].state = "completed" => run[j].record = run[j].rev
        /\ run[j].record # NoRevision /\ run[j].rev # NoRevision
              => run[j].record = run[j].rev

\* A recurring run takes what is in force at the start of each occurrence,
\* and nothing starts that was disabled while it waited
\* (NetBoxScriptJob.run).
StartDecidesFresh ==
    [][\A j \in Run :
          /\ run[j].state = "waiting" /\ run'[j].state = "admitted" => on[run[j].script]
          /\ run[j].state = "admitted" /\ run'[j].state = "gated"
               => projectOn /\ (Recurring(j) => run'[j].rev = serving)]_vars

\* A schedule never has two occurrences under way, however occurrences fail
\* and successors are queued (NetBoxScriptJob.enqueue, JobRunner.handle).
OneOccurrence ==
    \A i, j \in Run :
        /\ i # j /\ run[i].schedule = run[j].schedule /\ Recurring(i)
        /\ run[i].state \in Unfinished \/ run[i].due
        /\ run[j].state \in Unfinished \/ run[j].due
        => FALSE

\* A policy chosen for a schedule stays with all its occurrences, whatever
\* becomes of the Script's own policy (NetBoxScriptJob.enqueue).
ChosenPolicyStays ==
    \A j \in Run :
        Recurring(j) /\ run[j].state = "waiting" /\ asked[run[j].schedule] # Follow
            => run[j].policy = asked[run[j].schedule]

\* An occurrence that started is followed by another whatever came of it,
\* while the Script's settings allow one (JobRunner.handle, which calls
\* NetBoxScriptJob.enqueue).
ScheduleGoesOn ==
    \A s \in Schedule, x \in Script :
        (\E j \in Run : run[j].schedule = s /\ run[j].script = x /\ run[j].state = "admitted")
          ~> \/ \E j \in Run : run[j].schedule = s /\ run[j].state = "waiting"
             \/ ~sound[x]

\* A schedule executes again once its Script can run for good, though its
\* occurrences failed while the project served nothing or served another
\* revision when the schedule was made: no schedule has to be made again
\* (NetBoxScriptJob._revision_for).
Runnable(x) ==
    on[x] /\ projectOn /\ sound[x] /\ serving # NoRevision /\ x \in Publishes[serving]

WaitingExecutes ==
    \A s \in Schedule, x \in Script :
        <>[]Runnable(x) =>
          ((\E j \in Run : run[j].schedule = s /\ run[j].script = x /\ run[j].state = "waiting")
             ~> \E j \in Run : run[j].schedule = s /\ run[j].state = "executing")
=============================================================================
