---------------------------- MODULE MigrationJobs ----------------------------
(***************************************************************************)
(* What goes on beside a pass: workers run built-in Jobs, submissions and  *)
(* recurrences queue more, and people delete and requeue rows, move        *)
(* Projects and write rules.                                               *)
(*                                                                         *)
(* A worker runs one Job at a time and a pass is a Job, so one worker      *)
(* never runs a built-in Job beside a pass.  Core starts a Job only while  *)
(* its row waits and has not started, queues a recurring Job's successor   *)
(* after marking it finished, and never ends a Job whose worker died.      *)
(* Whoever saves a row may die before the commit hook queues its task: the *)
(* row then waits until somebody deletes it.                               *)
(***************************************************************************)
EXTENDS MigrationState

Busy == Cardinality({j \in Job : job[j].task = "held"}) + (IF Idle THEN 0 ELSE 1)

\* A worker is free to take the Job a pass is.
Free == Idle /\ Busy < workers

SetJob(j, entry) == job' = [job EXCEPT ![j] = entry]

Fresh(task) ==
    [status |-> "waiting", started |-> FALSE, task |-> task, legacy |-> TRUE]

\* Jobs nothing queues but a submission, so every other one is a successor.
Submitted == {j \in Job : \A k \in Job : Successor[k] # j}

\* The row is saved first, and its task queued when that commits.
Submit(j) ==
    /\ j \in Submitted /\ job[j].status = "absent" /\ Home(Names[j]) \in module
    /\ SetJob(j, Fresh("owed"))
    /\ UNCHANGED <<run, journal, pass, copy, refs, module, plugin, workers,
                   history, bounds>>

Queue(j) ==
    /\ job[j].task = "owed"
    /\ SetJob(j, [job[j] EXCEPT !.task = "queued"])
    /\ UNCHANGED <<run, journal, pass, copy, refs, module, plugin, workers,
                   history, bounds>>

\* The process that saved the row dies, or does not reach the queue, before
\* that: the task never comes.
NeverQueued(j) ==
    /\ job[j].task = "owed" /\ crashes < MaxCrashes /\ Room
    /\ SetJob(j, [job[j] EXCEPT !.task = "none"])
    /\ crashes' = crashes + 1
    /\ UNCHANGED <<run, journal, pass, copy, refs, module, plugin, workers,
                   history, tampers, edits>>

Take(j) ==
    /\ job[j].task = "queued" /\ Busy < workers
    /\ SetJob(j, [job[j] EXCEPT !.task = "held"])
    /\ UNCHANGED <<run, journal, pass, copy, refs, module, plugin, workers,
                   history, bounds>>

MayStart(j) == job[j].status = "waiting" /\ ~job[j].started

StartRun(j) ==
    /\ job[j].task = "held" /\ MayStart(j)
    /\ SetJob(j, [job[j] EXCEPT !.status = "running", !.started = TRUE])
    /\ ran' = ran \cup {j}
    /\ UNCHANGED <<run, journal, pass, copy, refs, module, plugin, workers,
                   tampered, touched, bounds>>

\* The row went, or no longer waits: the task ends without running anything.
RefuseRun(j) ==
    /\ job[j].task = "held" /\ job[j].status \notin {"waiting", "running", "done"}
    /\ SetJob(j, [job[j] EXCEPT !.task = "none"])
    /\ UNCHANGED <<run, journal, pass, copy, refs, module, plugin, workers,
                   history, bounds>>

\* Finished first, then the successor, for the row the run was read with:
\* between the two neither one waits.
EndRun(j) ==
    /\ job[j].task = "held" /\ job[j].status = "running"
    /\ SetJob(j, [job[j] EXCEPT
          !.status = "done",
          !.task = IF Successor[j] = Nothing THEN "none" ELSE "held"])
    /\ UNCHANGED <<run, journal, pass, copy, refs, module, plugin, workers,
                   history, bounds>>

\* The successor's row, which owes its task like a submission's.
SaveSuccessor(j) ==
    /\ job[j].task = "held" /\ job[j].status = "done"
    /\ job[Successor[j]].status = "absent"
    /\ SetJob(Successor[j], Fresh("owed"))
    /\ UNCHANGED <<run, journal, pass, copy, refs, module, plugin, workers,
                   history, bounds>>

\* The worker is free once that task is queued, or known never to be.
FreeWorker(j) ==
    /\ job[j].task = "held" /\ job[j].status = "done"
    /\ job[Successor[j]].status # "absent" /\ job[Successor[j]].task # "owed"
    /\ SetJob(j, [job[j] EXCEPT !.task = "none"])
    /\ UNCHANGED <<run, journal, pass, copy, refs, module, plugin, workers,
                   history, bounds>>

\* The worker dies: a Job it ran stays running for good, and a successor it
\* saved waits for good.
WorkerDies(j) ==
    /\ job[j].task = "held" /\ crashes < MaxCrashes /\ Room
    /\ job' = [k \in Job |->
          IF k = j THEN [job[k] EXCEPT !.task = "stranded"]
          ELSE IF k = Successor[j] /\ job[k].task = "owed"
               THEN [job[k] EXCEPT !.task = "none"]
          ELSE job[k]]
    /\ crashes' = crashes + 1
    /\ UNCHANGED <<run, journal, pass, copy, refs, module, plugin, workers,
                   history, tampers, edits>>

\* Deleting a row cancels its task; a worker that holds it goes on.
DeleteJob(j) ==
    /\ job[j].status \notin {"absent", "gone"} /\ tampers < MaxTampers /\ Room
    /\ SetJob(j, [job[j] EXCEPT
          !.status = "gone",
          !.task = IF @ = "held" THEN "held" ELSE "none"])
    /\ tampered' = tampered \cup {j} /\ tampers' = tampers + 1
    /\ UNCHANGED <<run, journal, pass, copy, refs, module, plugin, workers,
                   ran, touched, crashes, edits>>

RequeueJob(j) ==
    /\ job[j].status \in {"done", "failed"} /\ job[j].task \in {"none", "stranded"}
    /\ tampers < MaxTampers /\ Room
    /\ SetJob(j, [job[j] EXCEPT
          !.status = "waiting", !.started = FALSE, !.task = "queued"])
    /\ tampered' = tampered \cup {j} /\ tampers' = tampers + 1
    /\ UNCHANGED <<run, journal, pass, copy, refs, module, plugin, workers,
                   ran, touched, crashes, edits>>

-----------------------------------------------------------------------------
\* A verdict on a revision nobody has judged yet.
Judge(p) ==
    /\ proj[p].present /\ proj[p].source = "pending"
    /\ \/ proj' = [proj EXCEPT ![p].source = "valid"] /\ UNCHANGED bounds
       \/ /\ edits < MaxEdits /\ Room /\ edits' = edits + 1
          /\ proj' = [proj EXCEPT ![p].source = "invalid"]
          /\ UNCHANGED <<crashes, tampers>>
    /\ UNCHANGED <<run, journal, pass, job, copy, refs, module, row, workers,
                   history>>

\* An operator activates a valid or retired revision, stands the Project down
\* or deletes it with its Scripts.
MoveProject(p) ==
    /\ proj[p].present /\ edits < MaxEdits /\ Room /\ edits' = edits + 1
    /\ touched' = touched \cup {p}
    /\ \/ /\ \E r \in {"older", "source"} :
                proj[p][r] \in {"valid", "retired"} /\ Promote(p, r)
       \/ /\ Serving(p)
          /\ proj' = [proj EXCEPT
                ![p].older = IF @ = "active" THEN "retired" ELSE @,
                ![p].source = IF @ = "active" THEN "retired" ELSE @]
          /\ row' = Synchronized(p, "none")
       \/ /\ proj' = [proj EXCEPT ![p] =
                [present |-> FALSE, older |-> "none", source |-> "none"]]
          /\ row' = [s \in Script |-> IF s \in Mine(p) THEN "none" ELSE row[s]]
    /\ UNCHANGED <<run, journal, pass, job, copy, refs, module, workers, ran,
                   tampered, crashes, tampers>>

\* A rule for the built-in feature that no capture may have seen.
WriteRule(r) ==
    /\ rule[r].action = "absent" /\ RuleNames[r] \in Target
    /\ Home(RuleNames[r]) \in module
    /\ rule' = [rule EXCEPT ![r] =
          [enabled |-> r \notin Disabled, action |-> "legacy",
           watches |-> IF r \in Watching THEN "legacy" ELSE "none"]]
    /\ UNCHANGED <<run, journal, pass, job, copy, perm, autosync, module,
                   plugin, workers, history, bounds>>

Environment ==
    \/ \E j \in Job : \/ Submit(j) \/ Queue(j) \/ NeverQueued(j) \/ Take(j)
                      \/ StartRun(j) \/ RefuseRun(j) \/ EndRun(j)
                      \/ SaveSuccessor(j) \/ FreeWorker(j) \/ WorkerDies(j)
                      \/ DeleteJob(j) \/ RequeueJob(j)
    \/ \E p \in Project : Judge(p) \/ MoveProject(p)
    \/ \E r \in Rule : WriteRule(r)
=============================================================================
