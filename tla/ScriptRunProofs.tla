--------------------------- MODULE ScriptRunProofs ---------------------------
(***************************************************************************)
(* The safety of ScriptRun for every set of revisions, Scripts, requests,  *)
(* Job rows, schedules and policies and any number of edits and faults.    *)
(*                                                                         *)
(* RowInv says of one Job row how its state, pin, resolved revision and    *)
(* record belong together; a step changes one row, or two when a successor *)
(* is queued, so most of the proof is about single rows.                   *)
(***************************************************************************)
EXTENDS ScriptRun, TLAPS

State == {"unused", "stuck"} \cup Unfinished \cup Ended

Resolved == {"gated", "fetched", "executing", "completed"}

\* A one-shot row has a pin, a recurring one none; what is resolved was in
\* force, agrees with the pin and, once it executes, publishes the Script.
\* S are the revisions that were ever in force.
RowInv(r, S) ==
    /\ r.due => r.schedule # NoSchedule
    /\ r.schedule # NoSchedule => r.pin = NoRevision
    /\ r.pin # NoRevision => r.pin \in S
    /\ r.schedule = NoSchedule /\ r.state \in Unfinished \cup {"completed"}
          => r.pin # NoRevision
    /\ r.state \in Unfinished => r.record = r.pin
    /\ r.state \in {"waiting", "admitted"} => r.rev = NoRevision
    /\ r.state \in Resolved =>
          /\ r.rev \in S /\ r.rev # NoRevision
          /\ r.pin # NoRevision => r.rev = r.pin
    /\ r.state \in {"executing", "completed"} => r.script \in Publishes[r.rev]
    /\ r.state = "completed" => r.record = r.rev
    /\ r.record # NoRevision /\ r.rev # NoRevision => r.record = r.rev

Rows == \A j \in Run : RowInv(run[j], served)

\* What is in force now was in force, and so was what a request read.
ServedInv ==
    /\ serving # NoRevision => serving \in served
    /\ \A q \in Request : request[q].step = "ready" => request[q].rev \in served

\* An occurrence that is under way or owes a successor.
Active(r) == r.state \in Unfinished \/ r.due

\* The policy asked of a schedule is the policy of its active occurrence.
PolicyInv ==
    \A j \in Run :
        Recurring(j) /\ Active(run[j]) /\ asked[run[j].schedule] # Follow
            => run[j].policy = asked[run[j].schedule]

RunInv == Rows /\ ServedInv /\ OneOccurrence /\ PolicyInv

-----------------------------------------------------------------------------
(* Types *)

LEMMA NewRunType ==
  ASSUME NEW x \in Script, NEW s \in Schedule \cup {NoSchedule},
         NEW pin \in Revision \cup {NoRevision}, NEW n \in Policy
  PROVE  NewRun(x, s, pin, n) \in RunRow
BY DEF NewRun, RunRow, Unfinished

\* One row changes.
LEMMA RowType ==
  ASSUME run \in [Run -> RunRow], NEW j \in Run, NEW r \in RunRow
  PROVE  [run EXCEPT ![j] = r] \in [Run -> RunRow]
OBVIOUS

LEMMA StateType ==
  ASSUME run \in [Run -> RunRow], NEW j \in Run, NEW st \in State
  PROVE  [run EXCEPT ![j].state = st] \in [Run -> RunRow]
<1>1. [run[j] EXCEPT !.state = st] \in RunRow
  <2>1. run[j] \in RunRow
    OBVIOUS
  <2>2. \A r \in RunRow : [r EXCEPT !.state = st] \in RunRow
    BY DEF RunRow, State
  <2> QED BY <2>1, <2>2
<1> QED BY <1>1, RowType

\* Requests only ever hold what RequestState describes.
LEMMA ReadType ==
  ASSUME TypeOK, NEW q \in Request, NEW st \in RequestState
  PROVE  [request EXCEPT ![q] = st] \in [Request -> RequestState]
BY DEF TypeOK

LEMMA TypeInit == Init => TypeOK
<1> SUFFICES ASSUME Init PROVE TypeOK
  OBVIOUS
<1>1. (CHOOSE x \in Script : TRUE) \in Script /\ (CHOOSE n \in Policy : TRUE) \in Policy
  BY ScriptRunConstants
<1>2. run \in [Run -> RunRow]
  <2> DEFINE X == CHOOSE x \in Script : TRUE
             N == CHOOSE n \in Policy : TRUE
             r == [state |-> "unused", script |-> X, schedule |-> NoSchedule,
                   pin |-> NoRevision, rev |-> NoRevision, record |-> NoRevision,
                   policy |-> N, due |-> FALSE]
  <2> HIDE DEF X, N
  <2>1. X \in Script /\ N \in Policy
    BY <1>1 DEF X, N
  <2>2. r \in RunRow
    BY <2>1 DEF RunRow
  <2>3. run \in [Run -> {r}]
    BY DEF Init, X, N
  <2> QED BY <2>2, <2>3
<1>3. request \in [Request -> RequestState]
  BY DEF Init, RequestState
<1>4. /\ approved \subseteq Revision /\ gone \subseteq Revision /\ served \subseteq Revision
      /\ serving \in Revision \cup {NoRevision} /\ published \subseteq Script
  BY DEF Init, Serving!Init
<1>5. /\ on \in [Script -> BOOLEAN] /\ projectOn \in BOOLEAN
      /\ policy \in [Script -> Policy] /\ sound \in [Script -> BOOLEAN]
      /\ asked \in [Schedule -> Policy \cup {Follow}]
  BY DEF Init
<1>6. edits \in Nat /\ faults \in Nat
  BY DEF Init
<1> QED BY <1>2, <1>3, <1>4, <1>5, <1>6 DEF TypeOK

\* Steps of requests that queue nothing.
LEMMA TypeRead ==
  ASSUME TypeOK, ScriptRunConstants, NEW q \in Request,
         \/ \E x \in Script : RequestReads(q, x) \/ EventReadsScript(q, x)
         \/ EventReadsProject(q) \/ RequestEnds(q)
  PROVE  TypeOK'
<1>1. request' \in [Request -> RequestState]
  <2>1. NoRequest \in RequestState
    BY DEF RequestState
  <2>2. \A x \in Script : [step |-> "half", script |-> x, rev |-> NoRevision] \in RequestState
    BY DEF RequestState
  <2>3. \A x \in Script, r \in Revision :
            [step |-> "ready", script |-> x, rev |-> r] \in RequestState
    BY DEF RequestState
  <2>4. request[q].step = "half" => request[q].script \in Script
    BY DEF TypeOK, RequestState, NoRequest
  <2>5. ProjectAllows => serving \in Revision
    BY DEF ProjectAllows, TypeOK
  <2>6. ASSUME NEW x \in Script, RequestReads(q, x) PROVE request' \in [Request -> RequestState]
    BY <2>3, <2>5, <2>6, ReadType DEF RequestReads, Read
  <2>7. ASSUME NEW x \in Script, EventReadsScript(q, x) PROVE request' \in [Request -> RequestState]
    BY <2>2, <2>7, ReadType DEF EventReadsScript, Read
  <2>8. ASSUME EventReadsProject(q) PROVE request' \in [Request -> RequestState]
    BY <2>1, <2>3, <2>4, <2>5, <2>8, ReadType DEF EventReadsProject, Read
  <2>9. ASSUME RequestEnds(q) PROVE request' \in [Request -> RequestState]
    BY <2>1, <2>9, ReadType DEF RequestEnds
  <2> QED BY <2>6, <2>7, <2>8, <2>9
<1>2. UNCHANGED <<project, settings, run, asked, edits, faults>>
  BY DEF RequestReads, EventReadsScript, EventReadsProject, RequestEnds
<1> QED BY <1>1, <1>2 DEF TypeOK, project, settings

\* What a request that is ready holds.
LEMMA ReadyType ==
  ASSUME TypeOK, NEW q \in Request, request[q].step = "ready"
  PROVE  request[q].script \in Script /\ request[q].rev \in Revision
BY DEF TypeOK, RequestState, NoRequest

LEMMA TypeEnqueue ==
  ASSUME TypeOK, ScriptRunConstants, NEW q \in Request, NEW j \in Run,
         \/ EnqueueOnce(q, j)
         \/ \E s \in Schedule, n \in Policy \cup {Follow} : EnqueueRecurring(q, j, s, n)
  PROVE  TypeOK'
<1>1. request[q].script \in Script /\ request[q].rev \in Revision
  BY ReadyType DEF EnqueueOnce, EnqueueRecurring
<1>2. request' \in [Request -> RequestState]
  <2>1. NoRequest \in RequestState
    BY DEF RequestState
  <2> QED BY <2>1, ReadType DEF EnqueueOnce, EnqueueRecurring
<1>3. ASSUME EnqueueOnce(q, j) PROVE run' \in [Run -> RunRow]
  <2>1. PICK n \in Policy :
            run' = [run EXCEPT ![j] = NewRun(request[q].script, NoSchedule, Pinned(q), n)]
    BY <1>3 DEF EnqueueOnce
  <2>2. NewRun(request[q].script, NoSchedule, Pinned(q), n) \in RunRow
    BY <1>1, NewRunType DEF Pinned
  <2> QED BY <2>1, <2>2, RowType DEF TypeOK
<1>4. ASSUME NEW s \in Schedule, NEW n \in Policy \cup {Follow}, EnqueueRecurring(q, j, s, n)
      PROVE  run' \in [Run -> RunRow] /\ asked' \in [Schedule -> Policy \cup {Follow}]
  <2>1. PolicyFor(request[q].script, n) \in Policy
    BY <1>1 DEF PolicyFor, TypeOK
  <2>2. NewRun(request[q].script, s, RecurringPin(request[q].rev), PolicyFor(request[q].script, n)) \in RunRow
    BY <1>1, <2>1, NewRunType DEF RecurringPin
  <2>3. run' \in [Run -> RunRow]
    BY <1>4, <2>2, RowType DEF EnqueueRecurring, TypeOK
  <2>4. asked' \in [Schedule -> Policy \cup {Follow}]
    BY <1>4 DEF EnqueueRecurring, TypeOK
  <2> QED BY <2>3, <2>4
<1>5. UNCHANGED <<project, settings, edits, faults>>
  BY DEF EnqueueOnce, EnqueueRecurring
<1>6. asked' \in [Schedule -> Policy \cup {Follow}]
  BY <1>4 DEF EnqueueOnce, TypeOK
<1>7. run' \in [Run -> RunRow]
  BY <1>3, <1>4
<1> QED BY <1>2, <1>5, <1>6, <1>7 DEF TypeOK, project, settings

\* Steps of a worker, of core and of an operator on a row.
LEMMA TypeWork ==
  ASSUME TypeOK, ScriptRunConstants, NEW j \in Run,
         Works(j) \/ Trouble(j) \/ Die(j) \/ Cancel(j) \/ SuccessorRefused(j)
  PROVE  run' \in [Run -> RunRow]
<1>1. run \in [Run -> RunRow] /\ run[j] \in RunRow
  BY DEF TypeOK
<1>2. ASSUME NEW st \in State, Set(j, st) PROVE run' \in [Run -> RunRow]
  BY <1>1, <1>2, StateType DEF Set
<1>3. {"admitted", "failed", "fetched", "errored", "executing", "stuck"} \subseteq State
  BY DEF State, Unfinished, Ended
<1>4. ASSUME Start(j) PROVE run' \in [Run -> RunRow]
  BY <1>2, <1>3, <1>4 DEF Start
<1>5. ASSUME Admit(j) PROVE run' \in [Run -> RunRow]
  <2>1. CASE MayGoOn /\ RevisionFor(j) # NoRevision
    <3>1. RevisionFor(j) \in Revision
      BY <1>1, <2>1 DEF RevisionFor, TypeOK, RunRow
    <3>2. \A r \in RunRow, v \in Revision : [r EXCEPT !.state = "gated", !.rev = v] \in RunRow
      BY DEF RunRow, Unfinished
    <3>3. run' = [run EXCEPT ![j] = [run[j] EXCEPT !.state = "gated", !.rev = RevisionFor(j)]]
      BY <1>1, <1>5, <2>1 DEF Admit
    <3> QED BY <1>1, <3>1, <3>2, <3>3, RowType
  <2>2. CASE ~(MayGoOn /\ RevisionFor(j) # NoRevision)
    BY <1>2, <1>3, <1>5, <2>2 DEF Admit
  <2> QED BY <2>1, <2>2
<1>6. ASSUME Fetch(j) \/ Import(j) \/ Trouble(j) \/ Die(j) PROVE run' \in [Run -> RunRow]
  BY <1>2, <1>3, <1>6 DEF Fetch, Import, Trouble, Die
<1>7. ASSUME Finish(j) PROVE run' \in [Run -> RunRow]
  <2>1. PICK st \in {"completed", "failed"} :
            run' = [run EXCEPT ![j].state = st, ![j].record = run[j].rev]
    BY <1>7 DEF Finish
  <2>2. \A r \in RunRow : [r EXCEPT !.state = st, !.record = r.rev] \in RunRow
    BY DEF RunRow, Ended
  <2>3. run' = [run EXCEPT ![j] = [run[j] EXCEPT !.state = st, !.record = run[j].rev]]
    BY <1>1, <2>1
  <2> QED BY <1>1, <2>2, <2>3, RowType
<1>8. ASSUME Cancel(j) PROVE run' \in [Run -> RunRow]
  <2>1. \A r \in RunRow :
            [r EXCEPT !.state = "unused", !.schedule = NoSchedule, !.due = FALSE] \in RunRow
    BY DEF RunRow
  <2>2. run' = [run EXCEPT ![j] = [run[j] EXCEPT !.state = "unused", !.schedule = NoSchedule, !.due = FALSE]]
    BY <1>1, <1>8 DEF Cancel
  <2> QED BY <1>1, <2>1, <2>2, RowType
<1>9. ASSUME SuccessorRefused(j) PROVE run' \in [Run -> RunRow]
  <2>1. \A r \in RunRow : [r EXCEPT !.due = FALSE] \in RunRow
    BY DEF RunRow
  <2>2. run' = [run EXCEPT ![j] = [run[j] EXCEPT !.due = FALSE]]
    BY <1>1, <1>9 DEF SuccessorRefused
  <2> QED BY <1>1, <2>1, <2>2, RowType
<1> QED BY <1>4, <1>5, <1>6, <1>7, <1>8, <1>9 DEF Works

\* What a successor is made of.
LEMMA SuccessorParts ==
  ASSUME TypeOK, ScriptRunConstants, Rows, NEW j \in Run, NEW k \in Run, Successor(j, k)
  PROVE  /\ run[j].due /\ run[j].state \in Ended
         /\ run[j].schedule \in Schedule /\ run[j].pin = NoRevision
         /\ run[j].script \in Script /\ SuccessorPolicy(j) \in Policy
<1>1. run[j].due /\ run[j].state \in Ended
  BY DEF Successor, OwesSuccessor
<1>2. run[j] \in RunRow /\ RowInv(run[j], served)
  BY DEF TypeOK, Rows
<1>3. run[j].schedule \in Schedule /\ run[j].pin = NoRevision
  BY <1>1, <1>2 DEF RowInv, RunRow
<1>4. run[j].script \in Script /\ run[j].policy \in Policy
  BY <1>2 DEF RunRow
<1>5. SuccessorPolicy(j) \in Policy
  BY <1>4 DEF SuccessorPolicy, TypeOK
<1> QED BY <1>1, <1>3, <1>4, <1>5

\* The rows after a successor was queued: the new one, the finished one if it
\* was not replaced, and the others.
LEMMA SuccessorRows ==
  ASSUME TypeOK, ScriptRunConstants, Rows, NEW j \in Run, NEW k \in Run, Successor(j, k)
  PROVE  /\ run'[k] = NewRun(run[j].script, run[j].schedule, NoRevision, SuccessorPolicy(j))
         /\ k # j => run'[j] = [run[j] EXCEPT !.due = FALSE]
         /\ \A i \in Run \ {j, k} : run'[i] = run[i]
         /\ run' \in [Run -> RunRow]
<1> DEFINE new == NewRun(run[j].script, run[j].schedule, run[j].pin, SuccessorPolicy(j))
<1>1. run \in [Run -> RunRow]
  BY DEF TypeOK
<1>2. run[j].pin = NoRevision
  BY SuccessorParts
<1>3. run' = [run EXCEPT ![j].due = FALSE, ![k] = new]
  BY DEF Successor
<1> HIDE DEF new
<1>4. run'[k] = new
  BY <1>1, <1>3
<1>5. k # j => run'[j] = [run[j] EXCEPT !.due = FALSE]
  BY <1>1, <1>3
<1>6. \A i \in Run \ {j, k} : run'[i] = run[i]
  BY <1>1, <1>3
<1>7. new \in RunRow
  BY SuccessorParts, NewRunType, <1>2 DEF new
<1>8. [run[j] EXCEPT !.due = FALSE] \in RunRow
  <2>1. \A r \in RunRow : [r EXCEPT !.due = FALSE] \in RunRow
    BY DEF RunRow
  <2> QED BY <1>1, <2>1
<1>9. run' = [i \in Run |-> IF i = k THEN new
                           ELSE IF i = j THEN [run[j] EXCEPT !.due = FALSE] ELSE run[i]]
  BY <1>1, <1>3
<1>10. run' \in [Run -> RunRow]
  BY <1>1, <1>7, <1>8, <1>9
<1>11. new = NewRun(run[j].script, run[j].schedule, NoRevision, SuccessorPolicy(j))
  BY <1>2 DEF new
<1> QED BY <1>4, <1>5, <1>6, <1>10, <1>11

\* The project and its settings.
LEMMA TypeSurroundings ==
  ASSUME TypeOK, ScriptRunConstants,
         ProjectMoves \/ \E x \in Script : Switch(x) \/ Reconfigure(x)
  PROVE  TypeOK'
<1>1. ASSUME ProjectMoves PROVE TypeOK'
  <2>1. /\ approved' \subseteq Revision /\ gone' \subseteq Revision
        /\ serving' \in Revision \cup {NoRevision} /\ published' \subseteq Script
    <3>1. \A r \in Revision : Publishes[r] \subseteq Script
      BY DEF ScriptRunConstants
    <3>2. approved' \subseteq Revision /\ gone' \subseteq Revision
      BY <1>1 DEF ProjectMoves, Serving!Approve, Serving!Serve, Serving!Withdraw,
                  Serving!StandDown, TypeOK
    <3>3. serving' \in Revision \cup {NoRevision}
      BY <1>1 DEF ProjectMoves, Serving!Approve, Serving!Serve, Serving!Withdraw,
                  Serving!StandDown, TypeOK
    <3>4. published' \subseteq Script
      BY <1>1, <3>1 DEF ProjectMoves, Serving!Approve, Serving!Serve, Serving!Withdraw,
                        Serving!StandDown, TypeOK
    <3> QED BY <3>2, <3>3, <3>4
  <2>2. served' \subseteq Revision
    BY <1>1, <2>1 DEF ProjectMoves, TypeOK
  <2>3. UNCHANGED <<settings, request, run, asked, edits, faults>>
    BY <1>1 DEF ProjectMoves
  <2> QED BY <2>1, <2>2, <2>3 DEF TypeOK, settings
<1>2. ASSUME NEW x \in Script, Switch(x) PROVE TypeOK'
  <2>1. on' \in [Script -> BOOLEAN] /\ projectOn' \in BOOLEAN
    BY <1>2 DEF Switch, TypeOK
  <2>2. edits' \in Nat
    BY <1>2 DEF Switch, Edit, TypeOK
  <2>3. UNCHANGED <<project, policy, sound, request, run, asked, faults>>
    BY <1>2 DEF Switch
  <2> QED BY <2>1, <2>2, <2>3 DEF TypeOK, project
<1>3. ASSUME NEW x \in Script, Reconfigure(x) PROVE TypeOK'
  <2>1. policy' \in [Script -> Policy] /\ sound' \in [Script -> BOOLEAN]
    <3>1. CASE \E n \in Policy \ {policy[x]} : policy' = [policy EXCEPT ![x] = n] /\ UNCHANGED sound
      BY <3>1 DEF TypeOK
    <3>2. CASE sound' = [sound EXCEPT ![x] = ~@] /\ UNCHANGED policy
      BY <3>2 DEF TypeOK
    <3> QED BY <1>3, <3>1, <3>2 DEF Reconfigure
  <2>2. edits' \in Nat
    BY <1>3 DEF Reconfigure, Edit, TypeOK
  <2>3. UNCHANGED <<project, on, projectOn, request, run, asked, faults>>
    BY <1>3 DEF Reconfigure
  <2> QED BY <2>1, <2>2, <2>3 DEF TypeOK, project
<1> QED BY <1>1, <1>2, <1>3

LEMMA TypeNext ==
  ASSUME TypeOK, ScriptRunConstants, Rows, Next
  PROVE  TypeOK'
<1>1. CASE ProjectMoves \/ \E x \in Script : Switch(x) \/ Reconfigure(x)
  BY <1>1, TypeSurroundings
<1>2. ASSUME NEW q \in Request, Requests(q) PROVE TypeOK'
  BY <1>2, TypeRead, TypeEnqueue DEF Requests
<1>3. ASSUME NEW j \in Run, Works(j) \/ Repeats(j) \/ Trouble(j) \/ Die(j) \/ Cancel(j)
      PROVE  TypeOK'
  <2>1. run' \in [Run -> RunRow]
    BY <1>3, TypeWork, SuccessorRows DEF Repeats
  <2>2. UNCHANGED <<project, settings, request, asked, edits>>
    BY <1>3 DEF Works, Repeats, Start, Admit, Fetch, Import, Finish, Trouble, Die, Cancel,
                Successor, SuccessorRefused, RunOnly
  <2>3. faults' = faults \/ faults' = faults + 1
    BY <1>3 DEF Works, Repeats, Start, Admit, Fetch, Import, Finish, Trouble, Die, Cancel,
                Successor, SuccessorRefused, RunOnly, Fault
  <2>4. faults' \in Nat
    BY <2>3 DEF TypeOK
  <2> QED BY <2>1, <2>2, <2>4 DEF TypeOK, project, settings
<1> QED BY <1>1, <1>2, <1>3 DEF Next

-----------------------------------------------------------------------------
(* Single rows *)

\* What a step may make of a row other than the next occurrence of a schedule.
Moved(i) ==
    LET becomes(st) == run'[i] = [run[i] EXCEPT !.state = st] IN
    \/ run'[i] = run[i]
    \/ \E q \in Request, n \in Policy :
          /\ request[q].step = "ready"
          /\ run'[i] = NewRun(request[q].script, NoSchedule, request[q].rev, n)
    \/ \E st \in {"failed", "errored", "stuck"} : becomes(st)
    \/ run[i].state = "waiting" /\ becomes("admitted") /\ on[run[i].script]
    \/ /\ run[i].state = "admitted" /\ RevisionFor(i) # NoRevision /\ projectOn
       /\ run'[i] = [run[i] EXCEPT !.state = "gated", !.rev = RevisionFor(i)]
    \/ run[i].state = "gated" /\ becomes("fetched")
    \/ run[i].state = "fetched" /\ Resolves(i) /\ becomes("executing")
    \/ /\ run[i].state = "executing"
       /\ \E st \in {"completed", "failed"} :
             run'[i] = [run[i] EXCEPT !.state = st, !.record = run[i].rev]
    \/ run'[i] = [run[i] EXCEPT !.due = FALSE]
    \/ run'[i] = [run[i] EXCEPT !.state = "unused", !.schedule = NoSchedule, !.due = FALSE]

\* The steps that queue an occurrence.
Queued(i) ==
    \/ \E q \in Request, s \in Schedule, n \in Policy \cup {Follow} : EnqueueRecurring(q, i, s, n)
    \/ \E j \in Run : Successor(j, i)

LEMMA QueuedRow ==
  ASSUME TypeOK, ScriptRunConstants, Rows, NEW i \in Run, Queued(i)
  PROVE  \E x \in Script, s \in Schedule, n \in Policy : run'[i] = NewRun(x, s, NoRevision, n)
<1>1. ASSUME NEW q \in Request, NEW s \in Schedule, NEW n \in Policy \cup {Follow},
             EnqueueRecurring(q, i, s, n)
      PROVE  \E x \in Script, t \in Schedule, m \in Policy : run'[i] = NewRun(x, t, NoRevision, m)
  <2>1. request[q].script \in Script
    BY <1>1, ReadyType DEF EnqueueRecurring
  <2>2. PolicyFor(request[q].script, n) \in Policy
    BY <2>1 DEF PolicyFor, TypeOK
  <2>3. run'[i] = NewRun(request[q].script, s, NoRevision, PolicyFor(request[q].script, n))
    BY <1>1 DEF EnqueueRecurring, RecurringPin, TypeOK
  <2> QED BY <2>1, <2>2, <2>3
<1>2. ASSUME NEW j \in Run, Successor(j, i)
      PROVE  \E x \in Script, t \in Schedule, m \in Policy : run'[i] = NewRun(x, t, NoRevision, m)
  <2>1. run'[i] = NewRun(run[j].script, run[j].schedule, NoRevision, SuccessorPolicy(j))
    BY <1>2, SuccessorRows
  <2>2. /\ run[j].script \in Script /\ run[j].schedule \in Schedule
        /\ SuccessorPolicy(j) \in Policy
    BY <1>2, SuccessorParts
  <2> QED BY <2>1, <2>2
<1> QED BY <1>1, <1>2 DEF Queued

LEMMA RowMoves ==
  ASSUME TypeOK, ScriptRunConstants, Rows, [Next]_vars, NEW i \in Run
  PROVE  Moved(i) \/ Queued(i)
<1>1. run \in [Run -> RunRow]
  BY DEF TypeOK
<1>2. CASE run' = run
  BY <1>2 DEF Moved
<1>3. ASSUME NEW q \in Request, NEW j \in Run, EnqueueOnce(q, j) PROVE Moved(i) \/ Queued(i)
  <2>1. CASE i = j
    BY <1>1, <1>3, <2>1 DEF EnqueueOnce, Pinned, Moved
  <2>2. CASE i # j
    BY <1>1, <1>3, <2>2 DEF EnqueueOnce, Moved
  <2> QED BY <2>1, <2>2
<1>4. ASSUME NEW q \in Request, NEW j \in Run, NEW s \in Schedule, NEW n \in Policy \cup {Follow},
             EnqueueRecurring(q, j, s, n)
      PROVE  Moved(i) \/ Queued(i)
  <2>1. CASE i = j
    BY <1>4, <2>1 DEF Queued
  <2>2. CASE i # j
    BY <1>1, <1>4, <2>2 DEF EnqueueRecurring, Moved
  <2> QED BY <2>1, <2>2
<1>5. ASSUME NEW j \in Run, Works(j) \/ Trouble(j) \/ Die(j) \/ Cancel(j) \/ SuccessorRefused(j)
      PROVE  Moved(i) \/ Queued(i)
  <2>1. CASE i # j
    <3>1. run'[i] = run[i]
      BY <1>1, <1>5, <2>1 DEF Works, Start, Admit, Fetch, Import, Finish, Trouble, Die, Cancel,
                              SuccessorRefused, Set
    <3> QED BY <3>1 DEF Moved
  <2>2. CASE i = j
    <3>1. ASSUME Start(j) PROVE Moved(i) \/ Queued(i)
      BY <1>1, <2>2, <3>1 DEF Start, Set, MayStart, Moved
    <3>2. ASSUME Admit(j) PROVE Moved(i) \/ Queued(i)
      <4>1. CASE MayGoOn /\ RevisionFor(j) # NoRevision
        <5>1. run'[i] = [run[i] EXCEPT !.state = "gated", !.rev = RevisionFor(i)]
          BY <1>1, <2>2, <3>2, <4>1 DEF Admit
        <5> QED BY <2>2, <3>2, <4>1, <5>1 DEF Admit, MayGoOn, Moved
      <4>2. CASE ~(MayGoOn /\ RevisionFor(j) # NoRevision)
        <5>1. run'[i] = [run[i] EXCEPT !.state = "failed"]
          BY <1>1, <2>2, <3>2, <4>2 DEF Admit, Set
        <5> QED BY <5>1 DEF Moved
      <4> QED BY <4>1, <4>2
    <3>3. ASSUME Fetch(j) PROVE Moved(i) \/ Queued(i)
      BY <1>1, <2>2, <3>3 DEF Fetch, Set, Moved
    <3>4. ASSUME Import(j) PROVE Moved(i) \/ Queued(i)
      BY <1>1, <2>2, <3>4 DEF Import, Set, Moved
    <3>5. ASSUME Finish(j) PROVE Moved(i) \/ Queued(i)
      <4>1. PICK st \in {"completed", "failed"} :
                run' = [run EXCEPT ![j].state = st, ![j].record = run[j].rev]
        BY <3>5 DEF Finish
      <4>2. run'[i] = [run[i] EXCEPT !.state = st, !.record = run[i].rev]
        BY <1>1, <2>2, <4>1
      <4> QED BY <2>2, <3>5, <4>2 DEF Finish, Moved
    <3>6. ASSUME Trouble(j) PROVE Moved(i) \/ Queued(i)
      BY <1>1, <2>2, <3>6 DEF Trouble, Set, Moved
    <3>7. ASSUME Die(j) PROVE Moved(i) \/ Queued(i)
      BY <1>1, <2>2, <3>7 DEF Die, Set, Moved
    <3>8. ASSUME Cancel(j) PROVE Moved(i) \/ Queued(i)
      BY <1>1, <2>2, <3>8 DEF Cancel, Moved
    <3>9. ASSUME SuccessorRefused(j) PROVE Moved(i) \/ Queued(i)
      BY <1>1, <2>2, <3>9 DEF SuccessorRefused, Moved
    <3> QED BY <1>5, <3>1, <3>2, <3>3, <3>4, <3>5, <3>6, <3>7, <3>8, <3>9 DEF Works
  <2> QED BY <2>1, <2>2
<1>6. ASSUME NEW j \in Run, NEW k \in Run, Successor(j, k) PROVE Moved(i) \/ Queued(i)
  <2>1. /\ run'[k] = NewRun(run[j].script, run[j].schedule, NoRevision, SuccessorPolicy(j))
        /\ k # j => run'[j] = [run[j] EXCEPT !.due = FALSE]
        /\ \A m \in Run \ {j, k} : run'[m] = run[m]
    BY <1>6, SuccessorRows
  <2>3. CASE i = k
    BY <1>6, <2>3 DEF Queued
  <2>4. CASE i # k /\ i = j
    BY <2>1, <2>4 DEF Moved
  <2>5. CASE i # k /\ i # j
    <3>1. run'[i] = run[i]
      BY <2>1, <2>5
    <3> QED BY <3>1 DEF Moved
  <2> QED BY <2>3, <2>4, <2>5
<1>7. CASE ProjectMoves \/ \E x \in Script : Switch(x) \/ Reconfigure(x)
  <2>1. run' = run
    BY <1>7 DEF ProjectMoves, Switch, Reconfigure
  <2> QED BY <1>2, <2>1
<1>8. ASSUME NEW q \in Request, Requests(q) PROVE Moved(i) \/ Queued(i)
  <2>1. ASSUME \/ \E x \in Script : RequestReads(q, x) \/ EventReadsScript(q, x)
               \/ EventReadsProject(q) \/ RequestEnds(q)
        PROVE  run' = run
    BY <2>1 DEF RequestReads, EventReadsScript, EventReadsProject, RequestEnds
  <2> QED BY <1>2, <1>3, <1>4, <1>8, <2>1 DEF Requests
<1>9. CASE UNCHANGED vars
  BY <1>2, <1>9 DEF vars
<1> QED BY <1>5, <1>6, <1>7, <1>8, <1>9 DEF Next, Repeats

\* Revisions in force are remembered.
LEMMA ServedStep ==
  ASSUME TypeOK, ServedInv, [Next]_vars
  PROVE  served \subseteq served' /\ ServedInv'
<1>1. ASSUME ProjectMoves PROVE served \subseteq served' /\ ServedInv'
  <2>1. served' = served \cup ({serving'} \ {NoRevision}) /\ request' = request
    BY <1>1 DEF ProjectMoves
  <2> QED BY <2>1 DEF ServedInv
<1>2. ASSUME NEW q \in Request, NEW x \in Script, RequestReads(q, x)
      PROVE  served \subseteq served' /\ ServedInv'
  <2>1. UNCHANGED <<serving, served>>
    BY <1>2 DEF RequestReads, project
  <2>2. request' = [request EXCEPT ![q] = [step |-> "ready", script |-> x, rev |-> serving]]
    BY <1>2 DEF RequestReads, Read
  <2>3. serving \in served
    BY <1>2 DEF RequestReads, ProjectAllows, ServedInv
  <2> QED BY <2>1, <2>2, <2>3 DEF ServedInv, TypeOK
<1>3. ASSUME NEW q \in Request, EventReadsProject(q)
      PROVE  served \subseteq served' /\ ServedInv'
  <2>1. UNCHANGED <<serving, served>>
    BY <1>3 DEF EventReadsProject, project
  <2>2. CASE ProjectAllows
    <3>1. request' = [request EXCEPT ![q] = [step |-> "ready", script |-> request[q].script, rev |-> serving]]
      BY <1>3, <2>2 DEF EventReadsProject, Read
    <3>2. serving \in served
      BY <2>2 DEF ProjectAllows, ServedInv
    <3> QED BY <2>1, <3>1, <3>2 DEF ServedInv, TypeOK
  <2>3. CASE ~ProjectAllows
    <3>1. request' = [request EXCEPT ![q] = NoRequest]
      BY <1>3, <2>3 DEF EventReadsProject
    <3> QED BY <2>1, <3>1 DEF ServedInv, TypeOK, NoRequest
  <2> QED BY <2>2, <2>3
<1>4. ASSUME NEW q \in Request, NEW st \in RequestState, st.step # "ready",
             request' = [request EXCEPT ![q] = st], UNCHANGED <<serving, served>>
      PROVE  served \subseteq served' /\ ServedInv'
  BY <1>4 DEF ServedInv, TypeOK
<1>5. NoRequest \in RequestState /\ NoRequest.step # "ready"
  BY DEF RequestState, NoRequest
<1>6. ASSUME NEW q \in Request, NEW x \in Script, EventReadsScript(q, x)
      PROVE  served \subseteq served' /\ ServedInv'
  <2>1. [step |-> "half", script |-> x, rev |-> NoRevision] \in RequestState
    BY DEF RequestState
  <2> QED BY <1>4, <1>6, <2>1 DEF EventReadsScript, Read, project
<1>7. ASSUME NEW q \in Request,
             \/ RequestEnds(q)
             \/ \E j \in Run :
                   \/ EnqueueOnce(q, j)
                   \/ \E s \in Schedule, n \in Policy \cup {Follow} : EnqueueRecurring(q, j, s, n)
      PROVE  served \subseteq served' /\ ServedInv'
  BY <1>4, <1>5, <1>7 DEF RequestEnds, EnqueueOnce, EnqueueRecurring, project
<1>8. ASSUME UNCHANGED <<serving, served, request>> PROVE served \subseteq served' /\ ServedInv'
  BY <1>8 DEF ServedInv
<1>9. ASSUME NEW x \in Script, Switch(x) \/ Reconfigure(x) PROVE served \subseteq served' /\ ServedInv'
  BY <1>8, <1>9 DEF Switch, Reconfigure, project
<1>10. ASSUME NEW j \in Run, Works(j) \/ Repeats(j) \/ Trouble(j) \/ Die(j) \/ Cancel(j)
       PROVE  served \subseteq served' /\ ServedInv'
  BY <1>8, <1>10 DEF Works, Repeats, Start, Admit, Fetch, Import, Finish, Trouble, Die, Cancel,
                     Successor, SuccessorRefused, RunOnly, project
<1>11. CASE UNCHANGED vars
  BY <1>8, <1>11 DEF vars, project
<1> QED BY <1>1, <1>2, <1>3, <1>6, <1>7, <1>9, <1>10, <1>11 DEF Next, Requests

LEMMA RowLater ==
  ASSUME NEW r \in RunRow, NEW S, NEW T, S \subseteq T, RowInv(r, S)
  PROVE  RowInv(r, T)
BY DEF RowInv

\* A row that was just queued.
LEMMA RowNew ==
  ASSUME NEW x, NEW s, NEW pin, NEW n, NEW S,
         s # NoSchedule => pin = NoRevision,
         s = NoSchedule => pin \in S /\ pin # NoRevision
  PROVE  RowInv(NewRun(x, s, pin, n), S)
BY DEF RowInv, NewRun, Unfinished, Resolved

LEMMA RowStep ==
  ASSUME TypeOK, ScriptRunConstants, Rows, ServedInv, [Next]_vars, NEW i \in Run
  PROVE  RowInv(run[i], served) => RowInv(run'[i], served)
<1> SUFFICES ASSUME RowInv(run[i], served) PROVE RowInv(run'[i], served)
  OBVIOUS
<1> DEFINE r == run[i]
<1>1. r \in RunRow
  BY DEF TypeOK
<1>2. \A st \in State : [r EXCEPT !.state = st] =
         [state |-> st, script |-> r.script, schedule |-> r.schedule, pin |-> r.pin,
          rev |-> r.rev, record |-> r.record, policy |-> r.policy, due |-> r.due]
  BY <1>1 DEF RunRow
<1>3. CASE run'[i] = run[i]
  BY <1>3
<1>4. ASSUME NEW q \in Request, NEW n \in Policy, request[q].step = "ready",
             run'[i] = NewRun(request[q].script, NoSchedule, request[q].rev, n)
      PROVE  RowInv(run'[i], served)
  <2>1. request[q].rev \in served
    BY <1>4 DEF ServedInv
  <2>2. request[q].rev # NoRevision
    BY <1>4, ReadyType DEF ScriptRunConstants
  <2> QED BY <1>4, <2>1, <2>2, RowNew
<1>5. ASSUME NEW x \in Script, NEW s \in Schedule, NEW n \in Policy,
             run'[i] = NewRun(x, s, NoRevision, n)
      PROVE  RowInv(run'[i], served)
  <2>1. s # NoSchedule
    BY DEF ScriptRunConstants
  <2> QED BY <1>5, <2>1, RowNew
<1>6. ASSUME NEW st \in {"failed", "errored", "stuck"}, run'[i] = [r EXCEPT !.state = st]
      PROVE  RowInv(run'[i], served)
  <2>1. st \in State
    BY <1>6 DEF State, Ended
  <2> QED BY <1>2, <1>6, <2>1 DEF RowInv, Unfinished, Resolved
<1>7. ASSUME run[i].state = "waiting", run'[i] = [r EXCEPT !.state = "admitted"]
      PROVE  RowInv(run'[i], served)
  BY <1>1, <1>7 DEF RowInv, Unfinished, Resolved, RunRow
<1>8. ASSUME r.state = "admitted", RevisionFor(i) # NoRevision,
             run'[i] = [r EXCEPT !.state = "gated", !.rev = RevisionFor(i)]
      PROVE  RowInv(run'[i], served)
  <2>1. RevisionFor(i) \in served
    BY <1>8 DEF RevisionFor, RowInv, ServedInv
  <2>2. r.pin # NoRevision => RevisionFor(i) = r.pin
    BY DEF RevisionFor
  <2>3. r.record = r.pin
    BY <1>8 DEF RowInv, Unfinished
  <2> QED BY <1>1, <1>8, <2>1, <2>2, <2>3 DEF RowInv, Unfinished, Resolved, RunRow
<1>9. ASSUME r.state = "gated", run'[i] = [r EXCEPT !.state = "fetched"]
      PROVE  RowInv(run'[i], served)
  BY <1>1, <1>9 DEF RowInv, Unfinished, Resolved, RunRow
<1>10. ASSUME r.state = "fetched", Resolves(i), run'[i] = [r EXCEPT !.state = "executing"]
       PROVE  RowInv(run'[i], served)
  BY <1>1, <1>10 DEF RowInv, Unfinished, Resolved, RunRow, Resolves
<1>11. ASSUME r.state = "executing", NEW st \in {"completed", "failed"},
              run'[i] = [r EXCEPT !.state = st, !.record = r.rev]
       PROVE  RowInv(run'[i], served)
  BY <1>1, <1>11 DEF RowInv, Unfinished, Resolved, RunRow
<1>12. ASSUME run'[i] = [r EXCEPT !.due = FALSE]
       PROVE  RowInv(run'[i], served)
  BY <1>1, <1>12 DEF RowInv, Unfinished, Resolved, RunRow
<1>13. ASSUME run'[i] = [r EXCEPT !.state = "unused", !.schedule = NoSchedule, !.due = FALSE]
       PROVE  RowInv(run'[i], served)
  BY <1>1, <1>13 DEF RowInv, Unfinished, Resolved, RunRow
<1>14. CASE Queued(i)
  BY <1>5, <1>14, QueuedRow
<1>15. CASE Moved(i)
  BY <1>3, <1>4, <1>6, <1>7, <1>8, <1>9, <1>10, <1>11, <1>12, <1>13, <1>15 DEF Moved
<1> QED BY <1>14, <1>15, RowMoves

LEMMA RowsStep ==
  ASSUME TypeOK, TypeOK', ScriptRunConstants, Rows, ServedInv, [Next]_vars
  PROVE  Rows'
<1>1. served \subseteq served'
  BY ServedStep
<1>2. \A i \in Run : RowInv(run'[i], served)
  BY RowStep DEF Rows
<1>3. \A i \in Run : run'[i] \in RunRow
  BY DEF TypeOK
<1>4. \A i \in Run : RowInv(run'[i], served')
  BY <1>1, <1>2, <1>3, RowLater
<1> QED BY <1>4 DEF Rows

-----------------------------------------------------------------------------
(* Schedules *)

\* An occurrence under way after a step that did not queue it was under way.
LEMMA ActiveBefore ==
  ASSUME TypeOK, NEW i \in Run, Moved(i),
         run'[i].schedule # NoSchedule, Active(run'[i])
  PROVE  /\ Active(run[i]) /\ run[i].schedule = run'[i].schedule
         /\ run[i].policy = run'[i].policy
<1>1. run[i] \in RunRow
  BY DEF TypeOK
<1>2. CASE run'[i] = run[i]
  BY <1>2
<1>3. ASSUME NEW q \in Request, NEW n \in Policy,
             run'[i] = NewRun(request[q].script, NoSchedule, request[q].rev, n)
      PROVE  FALSE
  BY <1>3 DEF NewRun
<1>4. ASSUME NEW st \in {"failed", "errored", "stuck"}, run'[i] = [run[i] EXCEPT !.state = st]
      PROVE  /\ Active(run[i]) /\ run[i].schedule = run'[i].schedule
             /\ run[i].policy = run'[i].policy
  BY <1>1, <1>4 DEF Active, Unfinished, RunRow
<1>5. ASSUME NEW st \in {"admitted", "fetched", "executing"}, run[i].state \in Unfinished,
             run'[i] = [run[i] EXCEPT !.state = st]
      PROVE  /\ Active(run[i]) /\ run[i].schedule = run'[i].schedule
             /\ run[i].policy = run'[i].policy
  BY <1>1, <1>5 DEF Active, RunRow
<1>6. ASSUME run[i].state = "admitted",
             run'[i] = [run[i] EXCEPT !.state = "gated", !.rev = RevisionFor(i)]
      PROVE  /\ Active(run[i]) /\ run[i].schedule = run'[i].schedule
             /\ run[i].policy = run'[i].policy
  BY <1>1, <1>6 DEF Active, Unfinished, RunRow
<1>7. ASSUME run[i].state = "executing", NEW st \in {"completed", "failed"},
             run'[i] = [run[i] EXCEPT !.state = st, !.record = run[i].rev]
      PROVE  /\ Active(run[i]) /\ run[i].schedule = run'[i].schedule
             /\ run[i].policy = run'[i].policy
  BY <1>1, <1>7 DEF Active, Unfinished, RunRow
<1>8. ASSUME run'[i] = [run[i] EXCEPT !.due = FALSE]
      PROVE  /\ Active(run[i]) /\ run[i].schedule = run'[i].schedule
             /\ run[i].policy = run'[i].policy
  BY <1>1, <1>8 DEF Active, RunRow
<1>9. ASSUME run'[i] = [run[i] EXCEPT !.state = "unused", !.schedule = NoSchedule, !.due = FALSE]
      PROVE  FALSE
  BY <1>1, <1>9 DEF RunRow
<1>10. {"waiting", "gated", "fetched"} \subseteq Unfinished
  BY DEF Unfinished
<1> QED BY <1>2, <1>3, <1>4, <1>5, <1>6, <1>7, <1>8, <1>9, <1>10 DEF Moved

\* A queued occurrence is alone in its schedule.
LEMMA QueuedAlone ==
  ASSUME TypeOK, ScriptRunConstants, Rows, OneOccurrence,
         NEW i \in Run, NEW j \in Run, i # j, Queued(i), run'[j].schedule = run'[i].schedule
  PROVE  ~Active(run'[j])
<1>1. ASSUME NEW q \in Request, NEW s \in Schedule, NEW n \in Policy \cup {Follow},
             EnqueueRecurring(q, i, s, n)
      PROVE  ~Active(run'[j])
  <2>1. run'[i].schedule = s /\ run'[j] = run[j]
    BY <1>1 DEF EnqueueRecurring, NewRun, TypeOK
  <2>2. ~InUse(s)
    BY <1>1 DEF EnqueueRecurring
  <2> QED BY <2>1, <2>2 DEF InUse, Active
<1>2. ASSUME NEW k \in Run, Successor(k, i) PROVE ~Active(run'[j])
  <2>1. /\ run'[i] = NewRun(run[k].script, run[k].schedule, NoRevision, SuccessorPolicy(k))
        /\ i # k => run'[k] = [run[k] EXCEPT !.due = FALSE]
        /\ \A m \in Run \ {k, i} : run'[m] = run[m]
    BY <1>2, SuccessorRows
  <2>2. run[k].due /\ run[k].state \in Ended /\ run[k].schedule \in Schedule
    BY <1>2, SuccessorParts
  <2>3. run'[i].schedule = run[k].schedule
    BY <2>1 DEF NewRun
  <2>4. CASE j = k
    <3>1. run[k] \in RunRow
      BY DEF TypeOK
    <3>2. run'[k].due = FALSE /\ run'[k].state = run[k].state
      BY <2>1, <2>4, <3>1 DEF RunRow
    <3> QED BY <2>2, <2>4, <3>2 DEF Active, Ended, Unfinished
  <2>5. CASE j # k
    <3>1. run'[j] = run[j]
      BY <2>1, <2>5
    <3>2. Recurring(k)
      BY <2>2 DEF Recurring, ScriptRunConstants
    <3> QED BY <2>2, <2>3, <2>5, <3>1, <3>2 DEF OneOccurrence, Active
  <2> QED BY <2>4, <2>5
<1> QED BY <1>1, <1>2 DEF Queued

LEMMA OneOccurrenceStep ==
  ASSUME TypeOK, ScriptRunConstants, Rows, OneOccurrence, [Next]_vars
  PROVE  OneOccurrence'
<1> SUFFICES ASSUME NEW i \in Run, NEW j \in Run, i # j,
                    run'[i].schedule = run'[j].schedule, run'[i].schedule # NoSchedule,
                    Active(run'[i]), Active(run'[j])
             PROVE  FALSE
  BY DEF OneOccurrence, Recurring, Active
<1>1. ~Queued(i) /\ ~Queued(j)
  BY QueuedAlone
<1>2. Moved(i) /\ Moved(j)
  BY <1>1, RowMoves
<1>3. Active(run[i]) /\ run[i].schedule = run'[i].schedule
  BY <1>2, ActiveBefore
<1>4. Active(run[j]) /\ run[j].schedule = run'[j].schedule
  BY <1>2, ActiveBefore
<1> QED BY <1>3, <1>4 DEF OneOccurrence, Recurring, Active

\* Only a new schedule is asked anything.
LEMMA AskedMoves ==
  ASSUME [Next]_vars
  PROVE  \/ asked' = asked
         \/ \E q \in Request, j \in Run, s \in Schedule, n \in Policy \cup {Follow} :
                EnqueueRecurring(q, j, s, n)
BY DEF Next, ProjectMoves, Switch, Reconfigure, Requests, RequestReads, EventReadsScript,
       EventReadsProject, RequestEnds, EnqueueOnce, Works, Repeats, Start, Admit, Fetch,
       Import, Finish, Trouble, Die, Cancel, Successor, SuccessorRefused, RunOnly, vars

LEMMA PolicyStep ==
  ASSUME TypeOK, ScriptRunConstants, Rows, OneOccurrence, PolicyInv, [Next]_vars
  PROVE  PolicyInv'
<1> SUFFICES ASSUME NEW j \in Run, run'[j].schedule # NoSchedule, Active(run'[j]),
                    asked'[run'[j].schedule] # Follow
             PROVE  run'[j].policy = asked'[run'[j].schedule]
  BY DEF PolicyInv, Recurring
<1>1. ASSUME NEW q \in Request, NEW s \in Schedule, NEW n \in Policy \cup {Follow},
             EnqueueRecurring(q, j, s, n)
      PROVE  run'[j].policy = asked'[run'[j].schedule]
  <2>1. run'[j] = NewRun(request[q].script, s, NoRevision, PolicyFor(request[q].script, n))
    BY <1>1 DEF EnqueueRecurring, RecurringPin, TypeOK
  <2>2. asked'[s] = n
    BY <1>1 DEF EnqueueRecurring, TypeOK
  <2>3. run'[j].schedule = s /\ run'[j].policy = PolicyFor(request[q].script, n)
    BY <2>1 DEF NewRun
  <2> QED BY <2>2, <2>3 DEF PolicyFor
<1>2. ASSUME NEW k \in Run, Successor(k, j)
      PROVE  run'[j].policy = asked'[run'[j].schedule]
  <2>1. run'[j] = NewRun(run[k].script, run[k].schedule, NoRevision, SuccessorPolicy(k))
    BY <1>2, SuccessorRows
  <2>2. run'[j].schedule = run[k].schedule /\ run'[j].policy = SuccessorPolicy(k)
    BY <2>1 DEF NewRun
  <2>3. asked' = asked
    BY <1>2 DEF Successor, RunOnly
  <2>4. Recurring(k) /\ Active(run[k])
    BY <1>2, SuccessorParts DEF Recurring, Active, ScriptRunConstants
  <2>5. run[k].policy = asked[run[k].schedule]
    BY <2>2, <2>3, <2>4 DEF PolicyInv
  <2> QED BY <2>2, <2>3, <2>5 DEF SuccessorPolicy
<1>3. CASE Moved(j)
  <2>1. /\ Active(run[j]) /\ run[j].schedule = run'[j].schedule
        /\ run[j].policy = run'[j].policy
    BY <1>3, ActiveBefore
  <2>2. run[j].schedule \in Schedule
    BY <2>1 DEF TypeOK, RunRow
  <2>3. asked'[run[j].schedule] = asked[run[j].schedule]
    <3>1. ASSUME NEW q \in Request, NEW k \in Run, NEW s \in Schedule,
                 NEW n \in Policy \cup {Follow}, EnqueueRecurring(q, k, s, n)
          PROVE  asked'[run[j].schedule] = asked[run[j].schedule]
      <4>1. run[j].schedule # s
        BY <2>1, <3>1 DEF EnqueueRecurring, InUse, Active
      <4> QED BY <2>2, <3>1, <4>1 DEF EnqueueRecurring, TypeOK
    <3> QED BY <3>1, AskedMoves
  <2> QED BY <2>1, <2>3 DEF PolicyInv, Recurring
<1> QED BY <1>1, <1>2, <1>3, RowMoves DEF Queued

-----------------------------------------------------------------------------
(* The invariant *)

LEMMA InvInit == ScriptRunConstants /\ Init => RunInv
<1> SUFFICES ASSUME Init PROVE RunInv
  OBVIOUS
<1>1. \A j \in Run : /\ run[j].state = "unused" /\ run[j].schedule = NoSchedule
                     /\ run[j].pin = NoRevision /\ run[j].rev = NoRevision
                     /\ run[j].record = NoRevision /\ run[j].due = FALSE
  BY DEF Init
<1>2. Rows
  BY <1>1 DEF Rows, RowInv, Unfinished, Resolved
<1>3. ServedInv
  BY DEF ServedInv, Init, Serving!Init, NoRequest
<1>4. OneOccurrence /\ PolicyInv
  BY <1>1 DEF OneOccurrence, PolicyInv, Recurring
<1> QED BY <1>2, <1>3, <1>4 DEF RunInv

LEMMA InvStep == ScriptRunConstants /\ TypeOK /\ RunInv /\ [Next]_vars => (TypeOK /\ RunInv)'
<1> SUFFICES ASSUME ScriptRunConstants, TypeOK, RunInv, [Next]_vars PROVE (TypeOK /\ RunInv)'
  OBVIOUS
<1>1. TypeOK'
  <2>1. CASE Next
    BY <2>1, TypeNext DEF RunInv
  <2>2. CASE UNCHANGED vars
    BY <2>2 DEF vars, project, settings, TypeOK
  <2> QED BY <2>1, <2>2
<1>2. Rows /\ ServedInv /\ OneOccurrence /\ PolicyInv
  BY DEF RunInv
<1>3. Rows' /\ ServedInv'
  BY <1>1, <1>2, RowsStep, ServedStep
<1>4. OneOccurrence' /\ PolicyInv'
  BY <1>2, OneOccurrenceStep, PolicyStep
<1> QED BY <1>1, <1>3, <1>4 DEF RunInv

\* The inductive invariant holds throughout: how the parts of each Job row
\* belong together, and that one occurrence of a schedule is under way, with
\* the policy asked of it (NetBoxScriptJob, as a whole).
THEOREM RunInvariant == Spec => [](TypeOK /\ RunInv)
<1>1. Init => TypeOK /\ RunInv
  BY TypeInit, InvInit, ScriptRunConstants
<1>2. TypeOK /\ RunInv /\ [Next]_vars => (TypeOK /\ RunInv)'
  BY InvStep, ScriptRunConstants
<1> QED BY <1>1, <1>2, PTL DEF Spec

\* Every variable keeps to what the code can store in it.
THEOREM TypeCorrect == Spec => []TypeOK
BY RunInvariant, PTL

-----------------------------------------------------------------------------
(* The project beside its runs *)

\* Only the project moves the project.
LEMMA ProjectStep == [Next]_vars => ProjectMoves \/ UNCHANGED project
<1> SUFFICES ASSUME [Next]_vars, ~ProjectMoves PROVE UNCHANGED project
  OBVIOUS
<1>1. ASSUME NEW x \in Script, Switch(x) \/ Reconfigure(x) PROVE UNCHANGED project
  BY <1>1 DEF Switch, Reconfigure
<1>2. ASSUME NEW q \in Request, Requests(q) PROVE UNCHANGED project
  BY <1>2 DEF Requests, RequestReads, EventReadsScript, EventReadsProject, RequestEnds,
              EnqueueOnce, EnqueueRecurring
<1>3. ASSUME NEW j \in Run, Works(j) PROVE UNCHANGED project
  BY <1>3 DEF Works, Start, Admit, Fetch, Import, Finish, RunOnly
<1>4. ASSUME NEW j \in Run, Repeats(j) \/ Trouble(j) \/ Die(j) \/ Cancel(j)
      PROVE  UNCHANGED project
  BY <1>4 DEF Repeats, SuccessorRefused, Successor, Trouble, Die, Cancel, RunOnly
<1>5. UNCHANGED vars => UNCHANGED project
  BY DEF vars
<1> QED BY <1>1, <1>2, <1>3, <1>4, <1>5 DEF Next

\* Runs leave the project to its contract: what a project and its runs do
\* together is what ServingContract allows (activation.py, runtime/cache.py).
THEOREM KeepsContract == Spec => Serving!Spec
<1>1. Init => Serving!Init
  BY DEF Init
<1>2. [Next]_vars => [Serving!Next]_(Serving!contract)
  <2>1. ProjectMoves => Serving!Next
    BY DEF ProjectMoves, Serving!Next
  <2>2. UNCHANGED project => UNCHANGED Serving!contract
    BY DEF project, Serving!contract
  <2> QED BY <2>1, <2>2, ProjectStep
<1> QED BY <1>1, <1>2, PTL DEF Spec, Serving!Spec

\* What is in force passed validation and published its Scripts, and what was
\* in force passed validation, though its row may be gone.
ProjectInv ==
    /\ serving # NoRevision => serving \in approved /\ published = Publishes[serving]
    /\ served \subseteq approved \cup gone

\* The contract's promise, and the history that runs rely on
\* (service._promote, signals.py).
THEOREM ServesApproved == Spec => []ProjectInv
<1>1. Init => ProjectInv
  BY DEF Init, Serving!Init, ProjectInv
<1>2. ProjectInv /\ [Next]_vars => ProjectInv'
  <2> SUFFICES ASSUME ProjectInv, [Next]_vars PROVE ProjectInv'
    OBVIOUS
  <2>1. CASE UNCHANGED project
    BY <2>1 DEF project, ProjectInv
  <2>2. CASE ProjectMoves
    <3>1. served' = served \cup ({serving'} \ {NoRevision})
      BY <2>2 DEF ProjectMoves
    <3>2. ASSUME NEW r \in Revision, Serving!Approve(r), UNCHANGED gone PROVE ProjectInv'
      BY <3>1, <3>2 DEF Serving!Approve, ProjectInv
    <3>3. ASSUME NEW r \in Revision, Serving!Serve(r), UNCHANGED gone PROVE ProjectInv'
      BY <3>1, <3>3 DEF Serving!Serve, ProjectInv
    <3>4. ASSUME NEW r \in Revision, Serving!Withdraw(r), gone' = gone \cup {r}
          PROVE  ProjectInv'
      BY <3>1, <3>4 DEF Serving!Withdraw, ProjectInv
    <3>5. CASE Serving!StandDown /\ UNCHANGED gone
      BY <3>1, <3>5 DEF Serving!StandDown, ProjectInv
    <3> QED BY <2>2, <3>2, <3>3, <3>4, <3>5 DEF ProjectMoves
  <2> QED BY <2>1, <2>2, ProjectStep
<1> QED BY <1>1, <1>2, PTL DEF Spec

\* Whatever executes passed validation, was in force at some time, publishes
\* its Script and, for a one-shot run, is what it was pinned to
\* (NetBoxScriptJob._revision_for, _resolve).
THEOREM RunsServed == Spec => []RunsWhatWasServed
<1>1. TypeOK /\ RunInv /\ ProjectInv => RunsWhatWasServed
  <2> SUFFICES ASSUME TypeOK, RunInv, ProjectInv,
                      NEW j \in Run, run[j].state \in {"executing", "completed"}
               PROVE  /\ run[j].rev \in served \cap (approved \cup gone)
                      /\ run[j].script \in Publishes[run[j].rev]
                      /\ Recurring(j) \/ run[j].rev = run[j].pin
    BY DEF RunsWhatWasServed
  <2>1. RowInv(run[j], served)
    BY DEF RunInv, Rows
  <2>2. served \subseteq approved \cup gone
    BY DEF ProjectInv
  <2> QED BY <2>1, <2>2 DEF RowInv, Resolved, Unfinished, Recurring
<1> QED BY <1>1, RunInvariant, ServesApproved, PTL

\* A Job row names the revision it executed and no other
\* (NetBoxScriptJob._run_class).
THEOREM RecordTells == Spec => []RecordTellsWhatRan
<1>1. RunInv => RecordTellsWhatRan
  BY DEF RunInv, Rows, RowInv, RecordTellsWhatRan
<1> QED BY <1>1, RunInvariant, PTL

\* A schedule never has two occurrences under way (NetBoxScriptJob.enqueue,
\* JobRunner.handle).
THEOREM OneAtATime == Spec => []OneOccurrence
<1>1. RunInv => OneOccurrence
  BY DEF RunInv
<1> QED BY <1>1, RunInvariant, PTL

\* The policy asked of a schedule stays with its occurrences
\* (NetBoxScriptJob.enqueue).
THEOREM PolicyStays == Spec => []ChosenPolicyStays
<1>1. RunInv => ChosenPolicyStays
  BY DEF RunInv, PolicyInv, ChosenPolicyStays, Active, Unfinished
<1> QED BY <1>1, RunInvariant, PTL

\* How a row gets admitted and past the project's gate.
Fresh(j) ==
    /\ run[j].state = "waiting" /\ run'[j].state = "admitted" => on[run[j].script]
    /\ run[j].state = "admitted" /\ run'[j].state = "gated"
         => projectOn /\ (Recurring(j) => run'[j].rev = serving)

LEMMA FreshRow ==
  ASSUME TypeOK, ScriptRunConstants, RunInv, [Next]_vars, NEW j \in Run
  PROVE  Fresh(j)
<1>1. run[j] \in RunRow /\ RowInv(run[j], served)
  BY DEF TypeOK, RunInv, Rows
<1>2. CASE Queued(j)
  <2>1. \E x \in Script, s \in Schedule, n \in Policy : run'[j] = NewRun(x, s, NoRevision, n)
    BY <1>2, QueuedRow DEF RunInv
  <2>2. run'[j].state = "waiting"
    BY <2>1 DEF NewRun
  <2> QED BY <2>2 DEF Fresh
<1>3. ASSUME run'[j].state \notin {"admitted", "gated"} PROVE Fresh(j)
  BY <1>3 DEF Fresh
<1>4. ASSUME run'[j].state = run[j].state PROVE Fresh(j)
  BY <1>4 DEF Fresh
<1>5. ASSUME NEW st \in State, run'[j] = [run[j] EXCEPT !.state = st] PROVE run'[j].state = st
  BY <1>1, <1>5 DEF RunRow
<1>6. {"failed", "errored", "stuck", "admitted", "fetched", "executing"} \subseteq State
  BY DEF State, Unfinished, Ended
<1>7. ASSUME NEW q \in Request, NEW n \in Policy,
             run'[j] = NewRun(request[q].script, NoSchedule, request[q].rev, n)
      PROVE  Fresh(j)
  BY <1>3, <1>7 DEF NewRun
<1>8. ASSUME NEW st \in {"failed", "errored", "stuck", "fetched", "executing"},
             run'[j] = [run[j] EXCEPT !.state = st]
      PROVE  Fresh(j)
  BY <1>3, <1>5, <1>6, <1>8
<1>9. ASSUME run[j].state = "waiting", on[run[j].script],
             run'[j] = [run[j] EXCEPT !.state = "admitted"]
      PROVE  Fresh(j)
  BY <1>9 DEF Fresh
<1>10. ASSUME run[j].state = "admitted", projectOn,
              run'[j] = [run[j] EXCEPT !.state = "gated", !.rev = RevisionFor(j)]
       PROVE  Fresh(j)
  <2>1. run'[j].rev = RevisionFor(j)
    BY <1>1, <1>10 DEF RunRow
  <2>2. Recurring(j) => RevisionFor(j) = serving
    BY <1>1 DEF Recurring, RevisionFor, RowInv
  <2> QED BY <1>10, <2>1, <2>2 DEF Fresh
<1>11. ASSUME NEW st \in {"completed", "failed"},
              run'[j] = [run[j] EXCEPT !.state = st, !.record = run[j].rev]
       PROVE  Fresh(j)
  <2>1. run'[j].state = st
    BY <1>1, <1>11 DEF RunRow
  <2> QED BY <1>3, <2>1
<1>12. ASSUME run'[j] = [run[j] EXCEPT !.due = FALSE] PROVE Fresh(j)
  BY <1>1, <1>4, <1>12 DEF RunRow
<1>13. ASSUME run'[j] = [run[j] EXCEPT !.state = "unused", !.schedule = NoSchedule, !.due = FALSE]
       PROVE  Fresh(j)
  <2>1. run'[j].state = "unused"
    BY <1>1, <1>13 DEF RunRow
  <2> QED BY <1>3, <2>1
<1>14. CASE Moved(j)
  BY <1>4, <1>7, <1>8, <1>9, <1>10, <1>11, <1>12, <1>13, <1>14 DEF Moved
<1> QED BY <1>2, <1>14, RowMoves DEF RunInv

\* An occurrence takes what is in force as it starts, and nothing starts that
\* is disabled (NetBoxScriptJob.run).
THEOREM StartFresh == Spec => StartDecidesFresh
<1>1. TypeOK /\ RunInv /\ [Next]_vars =>
        [\A j \in Run :
          /\ run[j].state = "waiting" /\ run'[j].state = "admitted" => on[run[j].script]
          /\ run[j].state = "admitted" /\ run'[j].state = "gated"
               => projectOn /\ (Recurring(j) => run'[j].rev = serving)]_vars
  <2> SUFFICES ASSUME TypeOK, RunInv, [Next]_vars, NEW j \in Run
               PROVE  /\ run[j].state = "waiting" /\ run'[j].state = "admitted" => on[run[j].script]
                      /\ run[j].state = "admitted" /\ run'[j].state = "gated"
                           => projectOn /\ (Recurring(j) => run'[j].rev = serving)
    OBVIOUS
  <2> QED BY FreshRow, ScriptRunConstants DEF Fresh
<1> QED BY <1>1, RunInvariant, PTL DEF Spec, StartDecidesFresh
=============================================================================
