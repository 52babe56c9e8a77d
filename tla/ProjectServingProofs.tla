------------------------- MODULE ProjectServingProofs -------------------------
(***************************************************************************)
(* What is proved of ProjectServing for every set of sources, selections,  *)
(* Jobs and operators, and for any number of requests, edits, failures and *)
(* deletions.                                                              *)
(*                                                                         *)
(* The pointer, the statuses and the request agree because whoever writes  *)
(* them decides on what it read under the project lock.  ServingInv says   *)
(* so: a process inside the lock's block is its holder, the row a stager   *)
(* writes is still in its write window, and the status a stager goes by    *)
(* when it accepts its source still tells whether that source is served.   *)
(***************************************************************************)
EXTENDS ProjectServing, TLAPS

\* Whoever writes statuses, pointer or source under the lock is its holder.
LockHeld ==
    \A p \in Process :
        task[p].pc \in {"stage_write", "accept", "promote_commit"} => holder = p

\* The row being staged is still in its write window, unless it was deleted.
StagedRow ==
    \A p \in Process :
        task[p].pc = "stage_write" /\ task[p].rev # NoRev
            => rows[task[p].rev] = "staging"

\* A source about to be accepted that is served was already when it was read.
AcceptedRow ==
    \A p \in Process :
        task[p].pc = "accept" /\ task[p].rev # NoRev
            => (rows[task[p].rev] = "active" => task[p].st = "active")

Agreement == PointerAgreesWithStatus /\ PublishedMatchesServing /\ NoRequestOnServed

\* The project's one bit is set only while its source is the one asked for.
RequestWasAsked == requested /\ source # NoRev => source \in asked

ServingInv == TypeOK /\ LockHeld /\ StagedRow /\ AcceptedRow /\ Agreement

-----------------------------------------------------------------------------
(* Type correctness *)

\* A process at rest or done has a well formed task.
LEMMA RestType ==
    /\ \A pc \in Pc : Rest(pc) \in Task
    /\ \A p : Done(p) \in Task
  BY DEF Rest, Done, Task, Pc, RowState

\* One move of a process keeps its task well formed.
LEMMA GotoType ==
    ASSUME TypeOK, NEW p \in Process, NEW pc \in Pc, Goto(p, pc)
    PROVE  task' \in [Process -> Task]
  BY DEF TypeOK, Goto, Task

\* So does taking up a well formed task.
LEMMA TaskType ==
    ASSUME TypeOK, NEW p \in Process, NEW t \in Task, task' = [task EXCEPT ![p] = t]
    PROVE  task' \in [Process -> Task]
  BY DEF TypeOK

\* Leaving the block keeps tasks and lock well formed.
LEMMA ReleaseType ==
    ASSUME TypeOK, NEW p \in Process, Release(p)
    PROVE  task' \in [Process -> Task] /\ holder' \in Process \cup {Nobody}
  BY RestType DEF TypeOK, Release

\* So does giving up outside it.
LEMMA StopType ==
    ASSUME TypeOK, NEW p \in Process, Stop(p)
    PROVE  task' \in [Process -> Task] /\ holder' \in Process \cup {Nobody}
  BY RestType DEF TypeOK, Stop

\* Staging hands the process a well formed task.
LEMMA StagedType ==
    ASSUME TypeOK, NEW p \in Process, NEW r \in Rev, NEW st \in RowState,
           NEW mode \in {"plain", "once", "repair"}, NEW pc \in Pc,
           Staged(p, r, st, mode, pc)
    PROVE  task' \in [Process -> Task]
  <1>1. [pc |-> pc, rev |-> r, st |-> st, stale |-> lapsed[r], mode |-> mode] \in Task
    BY DEF TypeOK, Task
  <1> QED
    BY <1>1, TaskType DEF Staged

\* A status update keeps the rows well formed.
LEMMA SetRowType ==
    ASSUME TypeOK, NEW r \in Rev, NEW st \in RowState, SetRow(r, st)
    PROVE  rows' \in [Rev -> RowState]
  BY DEF TypeOK, SetRow

\* The pairs are the revisions.
LEMMA RevPair ==
    \A d \in Digest, s \in Selection : <<d, s>> \in Rev
  BY DEF Rev

\* What a promotion writes is well formed.
LEMMA PromotedType ==
    ASSUME TypeOK, NEW r \in Rev
    PROVE  Promoted(r) \in [Rev -> RowState]
  BY DEF TypeOK, Promoted, RowState, Status

LEMMA SynchronizeType ==
    ASSUME TypeOK, NEW r \in Rev, NEW records \in SUBSET Script,
           SynchronizeScripts(r, records)
    PROVE  live' \subseteq Script /\ seen' \in [Script -> Rev \cup {NoRev}]
  BY DEF TypeOK, SynchronizeScripts

-----------------------------------------------------------------------------
\* Staging and queueing keep the types.
LEMMA StageTypes ==
    ASSUME TypeOK, NEW o \in Operator, Stage(o)
    PROVE  TypeOK'
  <1> USE DEF revisions, pointer, intent, settings, bounds
  <1>p. o \in Process
    BY DEF Process
  <1>s. {"staging", "materialized", "storage_failed"} \subseteq RowState
    BY DEF RowState, Status
  <1>c. {"stage_write", "accept", "enqueue", "queued"} \subseteq Pc
    BY DEF Pc
  <1>1. ASSUME NEW d \in Digest, NEW mode \in {"plain", "once"},
               StageIdentify(o, d, mode)
        PROVE  TypeOK'
    <2> DEFINE r == <<d, selection>>
    <2>1. r \in Rev
      BY RevPair DEF TypeOK
    <2>2. rows' \in [Rev -> RowState]
      BY <1>1, <1>s, <2>1, SetRowType DEF StageIdentify, TypeOK
    <2>3. rows[r] \in RowState
      BY <2>1 DEF TypeOK
    <2>4. task' \in [Process -> Task]
      BY <1>1, <1>p, <1>s, <1>c, <2>1, <2>3, StagedType DEF StageIdentify
    <2> QED
      BY <1>1, <1>p, <2>2, <2>4 DEF StageIdentify, TypeOK
  <1>2. CASE StageSettle(o)
    <2> DEFINE t == task[o]
    <2>0. t \in Task
      BY <1>p DEF TypeOK
    <2>1. rows' \in [Rev -> RowState]
      BY <1>2, <1>s, <2>0, SetRowType DEF StageSettle, TypeOK, Task
    <2>2. task' \in [Process -> Task] /\ holder' \in Process \cup {Nobody}
      <3>1. CASE t.rev # NoRev
        <4>1. Staged(o, t.rev, "materialized", t.mode, "accept") /\ UNCHANGED holder
          BY <1>2, <3>1 DEF StageSettle
        <4>2. t.rev \in Rev /\ t.mode \in {"plain", "once", "repair"}
          BY <2>0, <3>1 DEF Task
        <4> QED
          BY <4>1, <4>2, <1>p, <1>s, <1>c, StagedType DEF TypeOK
      <3>2. CASE t.rev = NoRev
        BY <1>2, <3>2, <1>p, ReleaseType DEF StageSettle
      <3> QED
        BY <3>1, <3>2
    <2> QED
      BY <1>2, <2>1, <2>2 DEF StageSettle, TypeOK
  <1>3. CASE StageFail(o)
    <2>0. task[o] \in Task
      BY <1>p DEF TypeOK
    <2>1. rows' \in [Rev -> RowState]
      BY <1>3, <1>s, <2>0, SetRowType DEF StageFail, TypeOK, Task
    <2> QED
      BY <1>3, <1>p, <2>1, ReleaseType DEF StageFail, FaultOnly, Fault, TypeOK
  <1>4. CASE Accept(o)
    <2>0. task[o] \in Task
      BY <1>p DEF TypeOK
    <2>1. source' \in Rev \cup {NoRev} /\ requested' \in BOOLEAN /\ asked' \subseteq Rev
      BY <1>4, <2>0 DEF Accept, StillRequested, AskedOn, TypeOK, Task
    <2>2. task' \in [Process -> Task] /\ holder' \in Process \cup {Nobody}
      BY <1>4, <1>p, <1>c, GotoType, ReleaseType DEF Accept, TypeOK
    <2> QED
      BY <1>4, <2>1, <2>2 DEF Accept, TypeOK
  <1>5. CASE Enqueue(o)
    <2>0. task[o] \in Task /\ task[o].rev \in Rev \cup {NoRev}
      BY <1>p DEF TypeOK, Task
    <2>1. Rest("queued") \in Task /\ Done(o) \in Task
      BY RestType, <1>c
    <2>2. [Rest("queued") EXCEPT !.rev = task[o].rev] \in Task
      BY <2>0, <2>1 DEF Task
    <2>3. task' \in [Process -> Task]
      <3>1. CASE Owed(task[o])
        <4>1. PICK j \in Job : task' = [task EXCEPT ![o] = Done(o),
                  ![j] = [Rest("queued") EXCEPT !.rev = task[o].rev]]
          BY <1>5, <3>1 DEF Enqueue
        <4> QED
          BY <4>1, <2>1, <2>2 DEF TypeOK
      <3>2. CASE ~Owed(task[o])
        BY <1>5, <3>2, <2>1 DEF Enqueue, TypeOK
      <3> QED
        BY <3>1, <3>2
    <2> QED
      BY <1>5, <2>3 DEF Enqueue, TypeOK
  <1> QED
    BY <1>1, <1>2, <1>3, <1>4, <1>5 DEF Stage

\* Validation keeps the types.
LEMMA ValidateTypes ==
    ASSUME TypeOK, NEW j \in Job, Validate(j)
    PROVE  TypeOK'
  <1> USE DEF revisions, pointer, intent, settings, bounds
  <1>p. j \in Process
    BY DEF Process
  <1>s. {"validating", "valid", "invalid", "materialized"} \subseteq RowState
    BY DEF RowState, Status
  <1>c. {"promote_read", "claim", "import"} \subseteq Pc
    BY DEF Pc
  <1>t. task[j] \in Task /\ task[j].rev \in Rev \cup {NoRev}
    BY <1>p DEF TypeOK, Task
  <1>1. CASE JobStart(j)
    <2>1. task' \in [Process -> Task] /\ holder' \in Process \cup {Nobody}
      BY <1>1, <1>p, <1>c, GotoType, StopType DEF JobStart, TypeOK
    <2> QED
      BY <1>1, <2>1 DEF JobStart, TypeOK
  <1>2. CASE JobClaim(j)
    <2>1. task' \in [Process -> Task]
      BY <1>2, <1>p, <1>c, GotoType, RestType, TaskType DEF JobClaim
    <2>2. /\ rows' \in [Rev -> RowState]
          /\ owner' \in [Rev -> Job \cup {NoJob}]
          /\ lapsed' \in [Rev -> BOOLEAN]
      <3>1. CASE Claimable(task[j].rev)
        <4>1. task[j].rev \in Rev
          BY <3>1, <1>t DEF Claimable
        <4> QED
          BY <1>2, <3>1, <4>1, <1>s, SetRowType DEF JobClaim, TypeOK
      <3>2. CASE ~Claimable(task[j].rev)
        BY <1>2, <3>2 DEF JobClaim, TypeOK
      <3> QED
        BY <3>1, <3>2
    <2> QED
      BY <1>2, <2>1, <2>2 DEF JobClaim, TypeOK
  <1>3. CASE JobVerdict(j)
    <2>1. task' \in [Process -> Task]
      BY <1>3, <1>p, <1>c, GotoType, RestType, TaskType DEF JobVerdict
    <2>2. Verdicts(task[j].rev) \subseteq RowState
      BY <1>s DEF Verdicts
    <2>3. rows' \in [Rev -> RowState] /\ lapsed' \in [Rev -> BOOLEAN]
      BY <1>3, <1>t, <2>2, SetRowType DEF JobVerdict, TypeOK
    <2> QED
      BY <1>3, <2>1, <2>3 DEF JobVerdict, TypeOK
  <1>4. CASE JobVanished(j)
    BY <1>4, <1>p, StopType DEF JobVanished, TypeOK
  <1>5. CASE JobRevert(j)
    <2>1. /\ rows' \in [Rev -> RowState]
          /\ owner' \in [Rev -> Job \cup {NoJob}]
          /\ lapsed' \in [Rev -> BOOLEAN]
      BY <1>5, <1>t, <1>s, SetRowType DEF JobRevert, TypeOK
    <2> QED
      BY <1>5, <1>p, <2>1, StopType DEF JobRevert, FaultOnly, Fault, TypeOK
  <1> QED
    BY <1>1, <1>2, <1>3, <1>4, <1>5 DEF Validate

\* Promotion keeps the types.
LEMMA PromoteTypes ==
    ASSUME TypeOK, NEW p \in Process, Promote(p)
    PROVE  TypeOK'
  <1> USE DEF revisions, pointer, intent, settings, bounds
  <1>c. {"promote_lock", "promote_commit"} \subseteq Pc
    BY DEF Pc
  <1>t. task[p] \in Task /\ task[p].rev \in Rev \cup {NoRev}
    BY DEF TypeOK, Task
  <1>1. CASE PromoteRead(p)
    BY <1>1, <1>c, GotoType, StopType DEF PromoteRead, TypeOK
  <1>2. CASE PromoteVerify(p)
    BY <1>2, <1>c, GotoType DEF PromoteVerify, TypeOK
  <1>3. CASE PromoteCorrupt(p)
    BY <1>3, StopType DEF PromoteCorrupt, FaultOnly, Fault, TypeOK
  <1>4. CASE PromoteCommit(p)
    <2> DEFINE r == task[p].rev
    <2>1. r \in Rev
      BY <1>4, <1>t DEF PromoteCommit, Promotable
    <2>2. Publishes[r] \in SUBSET Script
      BY <2>1, ProjectServingConstants
    <2>3. live' \subseteq Script /\ seen' \in [Script -> Rev \cup {NoRev}]
      BY <1>4, <2>1, <2>2, SynchronizeType DEF PromoteCommit
    <2>4. rows' \in [Rev -> RowState]
      BY <1>4, <2>1, PromotedType DEF PromoteCommit
    <2>5. task' \in [Process -> Task] /\ holder' \in Process \cup {Nobody}
      BY <1>4, ReleaseType DEF PromoteCommit
    <2> QED
      BY <1>4, <2>1, <2>3, <2>4, <2>5 DEF PromoteCommit, TypeOK
  <1>5. CASE PromoteRefuse(p)
    BY <1>5, ReleaseType DEF PromoteRefuse, TypeOK
  <1> QED
    BY <1>1, <1>2, <1>3, <1>4, <1>5 DEF Promote

\* Every step keeps the types.
LEMMA TypeStep == TypeOK /\ [Next]_vars => TypeOK'
  <1> SUFFICES ASSUME TypeOK, [Next]_vars PROVE TypeOK'
    OBVIOUS
  <1> USE DEF revisions, pointer, intent, settings, bounds
  <1>s. {"materialized", "retired", "absent"} \subseteq RowState
    BY DEF RowState, Status
  <1>c. {"accept", "promote_read"} \subseteq Pc
    BY DEF Pc
  <1>1. ASSUME NEW o \in Operator, Stage(o) PROVE TypeOK'
    BY <1>1, StageTypes
  <1>2. ASSUME NEW o \in Operator, Refresh(o) PROVE TypeOK'
    <2>p. o \in Process
      BY DEF Process
    <2>1. CASE LatestStored = {}
      BY <1>2, <2>1 DEF Refresh, TypeOK
    <2>2. ASSUME NEW base \in LatestStored,
                 LET r == <<base[1], selection>> IN
                 /\ holder' = o
                 /\ \/ /\ rows[r] \in Retryable \cup {"absent"}
                       /\ SetRow(r, "materialized")
                       /\ Staged(o, r, "materialized", "plain", "accept")
                    \/ /\ rows[r] \in Settled
                       /\ Staged(o, r, rows[r], "plain", "accept")
                       /\ UNCHANGED rows
          PROVE  TypeOK'
      <3> DEFINE r == <<base[1], selection>>
      <3>1. base \in Rev
        BY DEF LatestStored, TypeOK
      <3>2. r \in Rev /\ rows[r] \in RowState
        BY <3>1 DEF Rev, TypeOK
      <3>3. rows' \in [Rev -> RowState]
        BY <2>2, <3>2, <1>s, SetRowType DEF TypeOK
      <3>4. task' \in [Process -> Task]
        BY <2>2, <2>p, <3>2, <1>s, <1>c, StagedType
      <3> QED
        BY <1>2, <2>2, <2>p, <3>3, <3>4 DEF Refresh, TypeOK
    <2> QED
      BY <1>2, <2>1, <2>2 DEF Refresh
  <1>3. ASSUME NEW o \in Operator, AskRepair(o) PROVE TypeOK'
    <2>1. [Rest("promote_read") EXCEPT !.rev = active, !.mode = "repair"] \in Task
      <3>1. \A t \in Task, r \in Rev \cup {NoRev} :
               [t EXCEPT !.rev = r, !.mode = "repair"] \in Task
        BY DEF Task
      <3> QED
        BY <3>1, <1>c, RestType DEF TypeOK
    <2> QED
      BY <1>3, <2>1, TaskType DEF AskRepair, TypeOK, Process
  <1>4. ASSUME NEW o \in Operator, NEW r \in Rev, AskActivate(o, r) PROVE TypeOK'
    <2>1. [Rest("promote_read") EXCEPT !.rev = r] \in Task
      BY <1>c, RestType DEF Task
    <2> QED
      BY <1>4, <2>1, TaskType DEF AskActivate, TypeOK, Process
  <1>5. ASSUME NEW j \in Job, Validate(j) PROVE TypeOK'
    BY <1>5, ValidateTypes
  <1>6. ASSUME NEW p \in Process, Promote(p) PROVE TypeOK'
    BY <1>6, PromoteTypes
  <1>7. ASSUME NEW p \in Process, Crash(p) PROVE TypeOK'
    BY <1>7, ReleaseType DEF Crash, FaultOnly, Fault, TypeOK
  <1>8. ASSUME NEW s \in Selection, EditSelection(s) PROVE TypeOK'
    <2>1. refreshDue' \in BOOLEAN
      BY <1>8 DEF EditSelection, TypeOK
    <2>2. edits' \in Nat
      BY <1>8 DEF EditSelection, Edit, TypeOK
    <2> QED
      BY <1>8, <2>1, <2>2 DEF EditSelection, TypeOK
  <1>9. ASSUME NEW q \in {"manual", "automatic_if_valid"}, EditPolicy(q) PROVE TypeOK'
    BY <1>9 DEF EditPolicy, Edit, TypeOK
  <1>10. ASSUME NEW r \in Rev, LeaseExpires(r) PROVE TypeOK'
    BY <1>10 DEF LeaseExpires, TypeOK
  <1>11. ASSUME NEW r \in Rev, DeleteRevision(r) PROVE TypeOK'
    <2>1. \A p \in Process : [task[p] EXCEPT !.rev = NoRev] \in Task
      BY DEF TypeOK, Task
    <2>2. task' \in [Process -> Task]
      BY <1>11, <2>1 DEF DeleteRevision, TypeOK
    <2>3. rows' \in [Rev -> RowState]
      BY <1>11, <1>s, SetRowType DEF DeleteRevision
    <2>4. seen' \in [Script -> Rev \cup {NoRev}]
      BY <1>11 DEF DeleteRevision, TypeOK
    <2>5. deletes' \in Nat
      BY <1>11 DEF DeleteRevision, TypeOK
    <2>6. /\ owner' \in [Rev -> Job \cup {NoJob}]
          /\ lapsed' \in [Rev -> BOOLEAN]
      BY <1>11 DEF DeleteRevision, TypeOK
    <2>7. active' \in Rev \cup {NoRev} /\ source' \in Rev \cup {NoRev}
      BY <1>11 DEF DeleteRevision, TypeOK
    <2> QED
      BY <1>11, <2>2, <2>3, <2>4, <2>5, <2>6, <2>7 DEF DeleteRevision, TypeOK
  <1>12. CASE RefreshFail
    <2>1. faults' \in Nat
      BY <1>12 DEF RefreshFail, FaultOnly, Fault, TypeOK
    <2> QED
      BY <1>12, <2>1 DEF RefreshFail, FaultOnly, TypeOK
  <1>13. CASE Deactivate
    <2>1. active \in Rev
      BY <1>13 DEF Deactivate, TypeOK
    <2>2. rows' \in [Rev -> RowState]
      BY <1>13, <2>1, <1>s, SetRowType DEF Deactivate
    <2>3. live' \subseteq Script /\ seen' \in [Script -> Rev \cup {NoRev}]
      BY <1>13, <2>1, SynchronizeType DEF Deactivate
    <2> QED
      BY <1>13, <2>2, <2>3 DEF Deactivate, TypeOK
  <1>14. CASE UNCHANGED vars
    BY <1>14 DEF vars, TypeOK
  <1> QED
    BY <1>1, <1>2, <1>3, <1>4, <1>5, <1>6, <1>7, <1>8, <1>9, <1>10, <1>11,
       <1>12, <1>13, <1>14 DEF Next

\* It is well formed at the start.
LEMMA InitType == Init => TypeOK
  <1>1. ASSUME Init PROVE TypeOK
    <2>1. Rest("idle") \in Task
      BY RestType DEF Pc
    <2>2. "absent" \in RowState
      BY DEF RowState
    <2>3. requests \in Nat /\ edits \in Nat /\ faults \in Nat /\ deletes \in Nat
      BY <1>1 DEF Init
    <2> QED
      BY <1>1, <2>1, <2>2, <2>3 DEF Init, TypeOK
  <1> QED
    BY <1>1

\* The state of a project is always well formed.
THEOREM TypeCorrect == Spec => []TypeOK
  BY InitType, TypeStep, PTL DEF Spec

-----------------------------------------------------------------------------
(* The lock *)

Inside == {"stage_write", "accept", "promote_commit"}

\* While one process holds the lock, or none does, no other is inside.
LEMMA Exclusion ==
    ASSUME TypeOK, LockHeld, NEW p \in Process, holder \in {p, Nobody}
    PROVE  \A q \in Process \ {p} : task[q].pc \notin Inside
  BY ProjectServingConstants DEF LockHeld, Inside

\* A process that leaves by Release leaves the others as they were.
LEMMA ReleaseLock ==
    ASSUME TypeOK, LockHeld, NEW p \in Process, Release(p)
    PROVE  LockHeld'
  <1>1. task'[p].pc \notin Inside /\ \A q \in Process \ {p} : task'[q] = task[q]
    BY DEF Release, Done, Rest, TypeOK, Inside
  <1>2. SUFFICES ASSUME NEW q \in Process, task'[q].pc \in Inside
                 PROVE  holder' = q
    BY DEF LockHeld, Inside
  <1>3. q # p /\ holder = q
    BY <1>1, <1>2 DEF LockHeld, Inside
  <1> QED
    BY <1>3 DEF Release

\* A process that takes the free lock is the only one inside.
LEMMA AcquireLock ==
    ASSUME TypeOK, LockHeld, NEW p \in Process, NEW t,
           holder = Nobody, holder' = p, task' = [task EXCEPT ![p] = t]
    PROVE  LockHeld'
  <1>1. \A q \in Process \ {p} : task'[q] = task[q] /\ task[q].pc \notin Inside
    BY Exclusion DEF TypeOK
  <1> QED
    BY <1>1 DEF LockHeld, Inside

\* A task outside the block may change freely, one inside may go on.
LEMMA KeepLock ==
    ASSUME TypeOK, LockHeld, UNCHANGED holder, NEW p \in Process, NEW t,
           task' = [task EXCEPT ![p] = t],
           t.pc \in Inside => task[p].pc \in Inside
    PROVE  LockHeld'
  <1>1. \A q \in Process \ {p} : task'[q] = task[q]
    BY DEF TypeOK
  <1>2. task'[p] = t
    BY DEF TypeOK
  <1> QED
    BY <1>1, <1>2 DEF LockHeld, Inside

\* Giving up outside the block.
LEMMA StopLock ==
    ASSUME TypeOK, LockHeld, NEW p \in Process, Stop(p)
    PROVE  LockHeld'
  <1>1. Done(p).pc \notin Inside
    BY DEF Done, Rest, Inside
  <1> QED
    BY <1>1, KeepLock DEF Stop

\* One move of a process that stays where it is relative to the block.
LEMMA GotoLock ==
    ASSUME TypeOK, LockHeld, UNCHANGED holder, NEW p \in Process, NEW pc,
           Goto(p, pc), pc \in Inside => task[p].pc \in Inside
    PROVE  LockHeld'
  <1>1. [task[p] EXCEPT !.pc = pc].pc = pc
    BY DEF TypeOK, Task
  <1>2. task' = [task EXCEPT ![p] = [task[p] EXCEPT !.pc = pc]]
    BY DEF Goto
  <1> QED
    BY <1>1, <1>2, KeepLock

\* Whoever is inside the block holds the lock.
LEMMA LockStep == TypeOK /\ LockHeld /\ [Next]_vars => LockHeld'
  <1> SUFFICES ASSUME TypeOK, LockHeld, [Next]_vars PROVE LockHeld'
    OBVIOUS
  <1> USE DEF revisions, pointer, intent, settings, bounds
  <1>p. Operator \subseteq Process /\ Job \subseteq Process
    BY DEF Process
  <1>1. ASSUME NEW o \in Operator, Stage(o) PROVE LockHeld'
    <2>1. ASSUME NEW d \in Digest, NEW mode \in {"plain", "once"},
                 StageIdentify(o, d, mode)
          PROVE  LockHeld'
      BY <1>p, <2>1, AcquireLock DEF StageIdentify, Staged
    <2>2. CASE StageSettle(o)
      <3>1. CASE task[o].rev # NoRev
        BY <1>p, <2>2, <3>1, KeepLock DEF StageSettle, Staged, At, Inside
      <3>2. CASE task[o].rev = NoRev
        BY <1>p, <2>2, <3>2, ReleaseLock DEF StageSettle
      <3> QED
        BY <3>1, <3>2
    <2>3. CASE StageFail(o)
      BY <1>p, <2>3, ReleaseLock DEF StageFail
    <2>4. CASE Accept(o)
      <3>1. CASE task[o].rev # NoRev
        BY <1>p, <2>4, <3>1, GotoLock DEF Accept, Inside
      <3>2. CASE task[o].rev = NoRev
        BY <1>p, <2>4, <3>2, ReleaseLock DEF Accept
      <3> QED
        BY <3>1, <3>2
    <2>5. CASE Enqueue(o)
      <3>1. /\ task'[o].pc \notin Inside
            /\ \A q \in Process \ {o} :
                  task'[q].pc \in Inside => task[q].pc \in Inside
        <4>1. Done(o).pc \notin Inside
              /\ [Rest("queued") EXCEPT !.rev = task[o].rev].pc = "queued"
          BY DEF Done, Rest, Inside
        <4>2. o \notin Job
          BY ProjectServingConstants
        <4>3. CASE Owed(task[o])
          <5>1. PICK j \in Job : task' = [task EXCEPT ![o] = Done(o),
                    ![j] = [Rest("queued") EXCEPT !.rev = task[o].rev]]
            BY <2>5, <4>3 DEF Enqueue
          <5>2. task'[o] = Done(o)
            BY <5>1, <4>2, <1>p DEF TypeOK
          <5>3. task'[j].pc = "queued"
            BY <5>1, <4>1, <1>p DEF TypeOK
          <5>4. \A q \in Process \ {o, j} : task'[q] = task[q]
            BY <5>1, <1>p DEF TypeOK
          <5> QED
            BY <4>1, <5>2, <5>3, <5>4 DEF Inside
        <4>4. CASE ~Owed(task[o])
          BY <2>5, <4>1, <4>4, <1>p DEF Enqueue, TypeOK
        <4> QED
          BY <4>3, <4>4
      <3>2. SUFFICES ASSUME NEW q \in Process, task'[q].pc \in Inside
                     PROVE  holder' = q
        BY DEF LockHeld, Inside
      <3>3. q # o /\ holder = q
        BY <3>1, <3>2 DEF LockHeld, Inside
      <3> QED
        BY <2>5, <3>3 DEF Enqueue
    <2> QED
      BY <1>1, <2>1, <2>2, <2>3, <2>4, <2>5 DEF Stage
  <1>2. ASSUME NEW o \in Operator, Refresh(o) PROVE LockHeld'
    BY <1>2, <1>p, AcquireLock DEF Refresh, Staged, LockHeld
  <1>3. ASSUME NEW o \in Operator, AskRepair(o) PROVE LockHeld'
    <2>1. [Rest("promote_read") EXCEPT !.rev = active, !.mode = "repair"].pc \notin Inside
      BY DEF Rest, Inside
    <2> QED
      BY <1>3, <1>p, <2>1, KeepLock DEF AskRepair
  <1>4. ASSUME NEW o \in Operator, NEW r \in Rev, AskActivate(o, r) PROVE LockHeld'
    <2>1. [Rest("promote_read") EXCEPT !.rev = r].pc \notin Inside
      BY DEF Rest, Inside
    <2> QED
      BY <1>4, <1>p, <2>1, KeepLock DEF AskActivate
  <1>5. ASSUME NEW j \in Job, Validate(j) PROVE LockHeld'
    <2>d. Done(j).pc \notin Inside
      BY DEF Done, Rest, Inside
    <2>1. CASE JobStart(j)
      BY <1>p, <2>1, StopLock, GotoLock DEF JobStart, Inside
    <2>2. CASE JobClaim(j)
      BY <1>p, <2>2, <2>d, KeepLock, GotoLock DEF JobClaim, Inside
    <2>3. CASE JobVerdict(j)
      BY <1>p, <2>3, <2>d, KeepLock, GotoLock DEF JobVerdict, Inside
    <2>4. CASE JobVanished(j)
      BY <1>p, <2>4, StopLock DEF JobVanished
    <2>5. CASE JobRevert(j)
      BY <1>p, <2>5, StopLock DEF JobRevert
    <2> QED
      BY <1>5, <2>1, <2>2, <2>3, <2>4, <2>5 DEF Validate
  <1>6. ASSUME NEW p \in Process, Promote(p) PROVE LockHeld'
    <2>1. CASE PromoteRead(p)
      BY <2>1, StopLock, GotoLock DEF PromoteRead, Inside
    <2>2. CASE PromoteVerify(p)
      BY <2>2, AcquireLock DEF PromoteVerify, Goto
    <2>3. CASE PromoteCorrupt(p)
      BY <2>3, StopLock DEF PromoteCorrupt
    <2>4. CASE PromoteCommit(p)
      BY <2>4, ReleaseLock DEF PromoteCommit
    <2>5. CASE PromoteRefuse(p)
      BY <2>5, ReleaseLock DEF PromoteRefuse
    <2> QED
      BY <1>6, <2>1, <2>2, <2>3, <2>4, <2>5 DEF Promote
  <1>7. ASSUME NEW p \in Process, Crash(p) PROVE LockHeld'
    BY <1>7, ReleaseLock DEF Crash
  <1>8. ASSUME NEW r \in Rev, DeleteRevision(r) PROVE LockHeld'
    <2>1. \A p \in Process : task'[p].pc = task[p].pc
      BY <1>8 DEF DeleteRevision, TypeOK, Task
    <2> QED
      BY <1>8, <2>1 DEF DeleteRevision, LockHeld
  <1>9. CASE UNCHANGED <<holder, task>>
    BY <1>9 DEF LockHeld
  <1>10. /\ \A s \in Selection : EditSelection(s) => UNCHANGED <<holder, task>>
         /\ \A q : EditPolicy(q) => UNCHANGED <<holder, task>>
         /\ \A r \in Rev : LeaseExpires(r) => UNCHANGED <<holder, task>>
         /\ RefreshFail \/ Deactivate \/ UNCHANGED vars => UNCHANGED <<holder, task>>
    BY DEF EditSelection, EditPolicy, LeaseExpires, RefreshFail, Deactivate, vars
  <1> QED
    BY <1>1, <1>2, <1>3, <1>4, <1>5, <1>6, <1>7, <1>8, <1>9, <1>10 DEF Next

-----------------------------------------------------------------------------
(* What a step may do to the statuses *)

\* Storing a tree moves a row that never settled.
Storing ==
    /\ UNCHANGED <<pointer, intent>>
    /\ \E r \in Rev, st \in Retryable \cup {"materialized"} :
          /\ rows[r] \in Retryable \cup {"absent"} /\ SetRow(r, st)
          /\ st = "storage_failed" => rows[r] = "staging"

\* Validation claims a row, or the owner of the claim settles it.
Judging ==
    /\ UNCHANGED <<pointer, intent>>
    /\ \E j \in Job, r \in Rev :
          /\ task'[j] # task[j]
          /\ \/ rows[r] \in {"materialized", "validating"} /\ SetRow(r, "validating")
             \/ Owns(j, r) /\ \E st \in {"materialized", "valid", "invalid"} : SetRow(r, st)

\* Accepting a source.
Accepting == \E o \in Operator : task[o].rev # NoRev /\ Accept(o)

\* Promotion, deactivation and deletion.
Moving ==
    \/ \E p \in Process : PromoteCommit(p)
    \/ Deactivate
    \/ \E r \in Rev : DeleteRevision(r)

\* Anything else.
Elsewhere == UNCHANGED <<rows, pointer, intent>>

\* A claim is settled from within the import, so the task moves on.
LEMMA VerdictMoves ==
    ASSUME TypeOK, NEW j \in Job, JobVerdict(j) \/ JobRevert(j)
    PROVE  task'[j] # task[j]
  <1>1. j \in Process /\ task[j].pc = "import"
    BY DEF Process, JobVerdict, JobRevert, At
  <1>2. task'[j].pc # "import"
    <2>1. Done(j).pc = "ended"
      BY DEF Done, Rest
    <2>2. [task[j] EXCEPT !.pc = "promote_read"].pc = "promote_read"
      BY <1>1 DEF TypeOK, Task
    <2>3. \/ task' = [task EXCEPT ![j] = Done(j)]
          \/ task' = [task EXCEPT ![j] = [task[j] EXCEPT !.pc = "promote_read"]]
      BY DEF JobVerdict, JobRevert, Stop, Goto
    <2> QED
      BY <1>1, <2>1, <2>2, <2>3 DEF TypeOK
  <1> QED
    BY <1>1, <1>2

\* Taking one moves the task on too.
LEMMA ClaimMoves ==
    ASSUME TypeOK, NEW j \in Job, JobClaim(j)
    PROVE  task'[j] # task[j]
  <1>1. j \in Process /\ task[j].pc = "claim"
    BY DEF Process, JobClaim, At
  <1>2. Done(j).pc = "ended" /\ [task[j] EXCEPT !.pc = "import"].pc = "import"
    BY <1>1 DEF Done, Rest, TypeOK, Task
  <1>3. \/ task' = [task EXCEPT ![j] = Done(j)]
        \/ task' = [task EXCEPT ![j] = [task[j] EXCEPT !.pc = "import"]]
    BY DEF JobClaim, Goto
  <1> QED
    BY <1>1, <1>2, <1>3 DEF TypeOK

\* Every step is of one of these kinds.
LEMMA StepKinds ==
    TypeOK /\ StagedRow /\ [Next]_vars
        => Storing \/ Judging \/ Accepting \/ Moving \/ Elsewhere
  <1> SUFFICES ASSUME TypeOK, StagedRow, [Next]_vars,
                      ~Elsewhere, ~Accepting, ~Moving
               PROVE  Storing \/ Judging
    OBVIOUS
  <1> USE DEF revisions, pointer, intent, settings, bounds
  <1>p. Operator \subseteq Process /\ Job \subseteq Process
    BY DEF Process
  <1>r. /\ {"staging", "storage_failed", "materialized"} = Retryable \cup {"materialized"}
        /\ "staging" \in Retryable \cup {"absent"}
    BY DEF Retryable
  <1>1. ASSUME NEW o \in Operator, Stage(o) PROVE Storing
    <2>t. task[o] \in Task
      BY <1>p DEF TypeOK
    <2>1. ASSUME NEW d \in Digest, NEW mode \in {"plain", "once"},
                 StageIdentify(o, d, mode)
          PROVE  Storing
      <3>1. <<d, selection>> \in Rev
        BY RevPair DEF TypeOK
      <3> QED
        BY <1>r, <2>1, <3>1 DEF StageIdentify, Storing, Elsewhere
    <2>2. CASE StageSettle(o)
      <3>1. task[o].rev # NoRev /\ SetRow(task[o].rev, "materialized")
        BY <2>2 DEF StageSettle, Elsewhere
      <3>2. task[o].rev \in Rev /\ rows[task[o].rev] = "staging"
        BY <2>2, <2>t, <3>1 DEF StageSettle, Task
      <3> QED
        BY <1>r, <2>2, <3>1, <3>2 DEF StageSettle, Storing
    <2>3. CASE StageFail(o)
      <3>1. task[o].rev # NoRev /\ SetRow(task[o].rev, "storage_failed")
        BY <2>3 DEF StageFail, Elsewhere
      <3>2. task[o].rev \in Rev /\ rows[task[o].rev] = "staging"
        BY <1>p, <2>3, <2>t, <3>1 DEF StageFail, StagedRow, At, Task
      <3> QED
        BY <1>r, <2>3, <3>1, <3>2 DEF StageFail, Storing
    <2>4. CASE Accept(o)
      BY <2>4 DEF Accept, Accepting, Elsewhere
    <2>5. CASE Enqueue(o)
      BY <2>5 DEF Enqueue, Elsewhere
    <2> QED
      BY <1>1, <2>1, <2>2, <2>3, <2>4, <2>5 DEF Stage
  <1>2. ASSUME NEW o \in Operator, Refresh(o) PROVE Storing
    <2>1. CASE LatestStored = {}
      BY <1>2, <2>1 DEF Refresh, Elsewhere
    <2>2. ASSUME NEW base \in LatestStored,
                 LET r == <<base[1], selection>> IN
                 \/ /\ rows[r] \in Retryable \cup {"absent"}
                    /\ SetRow(r, "materialized")
                 \/ UNCHANGED rows
          PROVE  Storing
      <3>1. <<base[1], selection>> \in Rev
        BY DEF LatestStored, TypeOK, Rev
      <3> QED
        BY <1>2, <1>r, <2>2, <3>1 DEF Refresh, Storing, Elsewhere
    <2> QED
      BY <1>2, <2>1, <2>2 DEF Refresh
  <1>3. ASSUME NEW o \in Operator, AskRepair(o) PROVE FALSE
    BY <1>3 DEF AskRepair, Elsewhere
  <1>4. ASSUME NEW o \in Operator, NEW r \in Rev, AskActivate(o, r) PROVE FALSE
    BY <1>4 DEF AskActivate, Elsewhere
  <1>5. ASSUME NEW j \in Job, Validate(j) PROVE Judging
    <2>t. task[j] \in Task
      BY <1>p DEF TypeOK
    <2>1. CASE JobStart(j)
      BY <2>1 DEF JobStart, Elsewhere
    <2>2. CASE JobClaim(j)
      <3>1. Claimable(task[j].rev) /\ SetRow(task[j].rev, "validating")
        BY <2>2 DEF JobClaim, Elsewhere
      <3>2. /\ task[j].rev \in Rev
            /\ rows[task[j].rev] \in {"materialized", "validating"}
        BY <2>t, <3>1 DEF Claimable, Task
      <3> QED
        BY <2>2, <3>1, <3>2, ClaimMoves DEF JobClaim, Judging
    <2>3. CASE JobVerdict(j)
      <3>1. PICK st \in Verdicts(task[j].rev) :
               Owns(j, task[j].rev) /\ SetRow(task[j].rev, st)
        BY <2>3 DEF JobVerdict, Elsewhere
      <3>2. st \in {"materialized", "valid", "invalid"}
        BY <3>1 DEF Verdicts
      <3>3. task[j].rev \in Rev
        BY <2>t, <2>3 DEF JobVerdict, Task
      <3> QED
        BY <2>3, <3>1, <3>2, <3>3, VerdictMoves DEF JobVerdict, Judging
    <2>4. CASE JobVanished(j)
      BY <2>4 DEF JobVanished, Elsewhere
    <2>5. CASE JobRevert(j)
      <3>1. Owns(j, task[j].rev) /\ SetRow(task[j].rev, "materialized")
        BY <2>5 DEF JobRevert, Elsewhere
      <3>2. task[j].rev \in Rev
        BY <2>t, <2>5 DEF JobRevert, Task
      <3> QED
        BY <2>5, <3>1, <3>2, VerdictMoves DEF JobRevert, Judging
    <2> QED
      BY <1>5, <2>1, <2>2, <2>3, <2>4, <2>5 DEF Validate
  <1>6. ASSUME NEW p \in Process, Promote(p) PROVE FALSE
    BY <1>6 DEF Promote, PromoteRead, PromoteVerify, PromoteCorrupt,
                PromoteRefuse, Elsewhere, Moving
  <1>7. ASSUME NEW p \in Process, Crash(p) PROVE FALSE
    BY <1>7 DEF Crash, Elsewhere
  <1>8. ASSUME NEW s \in Selection, EditSelection(s) PROVE FALSE
    BY <1>8 DEF EditSelection, Elsewhere
  <1>9. ASSUME NEW q \in {"manual", "automatic_if_valid"}, EditPolicy(q) PROVE FALSE
    BY <1>9 DEF EditPolicy, Elsewhere
  <1>10. ASSUME NEW r \in Rev, LeaseExpires(r) PROVE FALSE
    BY <1>10 DEF LeaseExpires, Elsewhere
  <1>11. ASSUME NEW r \in Rev, DeleteRevision(r) PROVE FALSE
    BY <1>11 DEF Moving
  <1>12. CASE RefreshFail
    BY <1>12 DEF RefreshFail, Elsewhere
  <1>13. CASE Deactivate
    BY <1>13 DEF Moving
  <1>14. CASE UNCHANGED vars
    BY <1>14 DEF vars, Elsewhere
  <1> QED
    BY <1>1, <1>2, <1>3, <1>4, <1>5, <1>6, <1>7, <1>8, <1>9, <1>10, <1>11,
       <1>12, <1>13, <1>14 DEF Next

-----------------------------------------------------------------------------
(* The row a stager works on *)

\* A step of the only process inside the block answers for its own row.
LEMMA RowsHeld ==
    ASSUME TypeOK, LockHeld, NEW p \in Process, holder \in {p, Nobody},
           \A q \in Process \ {p} : task'[q] = task[q],
           task'[p].pc = "stage_write" /\ task'[p].rev # NoRev
               => rows'[task'[p].rev] = "staging",
           task'[p].pc = "accept" /\ task'[p].rev # NoRev
               => (rows'[task'[p].rev] = "active" => task'[p].st = "active")
    PROVE  StagedRow' /\ AcceptedRow'
  <1>1. \A q \in Process \ {p} : task'[q].pc \notin {"stage_write", "accept"}
    BY Exclusion DEF Inside
  <1> QED
    BY <1>1 DEF StagedRow, AcceptedRow

\* A step that brings no process into the block keeps the staged rows when it
\* leaves rows in their write window there and makes none active.
LEMMA RowsQuiet ==
    ASSUME TypeOK, StagedRow, AcceptedRow,
           \A q \in Process :
               task'[q].pc \in {"stage_write", "accept"} => task'[q] = task[q],
           \A r \in Rev : rows[r] = "staging" => rows'[r] = "staging",
           \A r \in Rev : rows'[r] = "active" => rows[r] = "active"
    PROVE  StagedRow' /\ AcceptedRow'
  <1>1. \A q \in Process : task[q].rev \in Rev \cup {NoRev}
    BY DEF TypeOK, Task
  <1> QED
    BY <1>1 DEF StagedRow, AcceptedRow

\* The task p holds after an update of its own.
LEMMA TaskUpdate ==
    ASSUME TypeOK, NEW p \in Process, NEW t, task' = [task EXCEPT ![p] = t]
    PROVE  task'[p] = t /\ \A q \in Process \ {p} : task'[q] = task[q]
  BY DEF TypeOK

\* A process that ends or waits is not among the stagers.
LEMMA DonePc ==
    \A p : Done(p).pc \notin {"stage_write", "accept"}
  BY DEF Done, Rest

\* A move out of the stagers' steps.
LEMMA GotoQuiet ==
    ASSUME TypeOK, NEW p \in Process, NEW pc, Goto(p, pc),
           pc \notin {"stage_write", "accept"}
    PROVE  \A q \in Process :
               task'[q].pc \in {"stage_write", "accept"} => task'[q] = task[q]
  <1>1. [task[p] EXCEPT !.pc = pc].pc = pc
    BY DEF TypeOK, Task
  <1>2. task' = [task EXCEPT ![p] = [task[p] EXCEPT !.pc = pc]]
    BY DEF Goto
  <1> QED
    BY <1>1, <1>2, TaskUpdate

\* The same for a process that ends.
LEMMA DoneQuiet ==
    ASSUME TypeOK, NEW p \in Process, task' = [task EXCEPT ![p] = Done(p)]
    PROVE  \A q \in Process :
               task'[q].pc \in {"stage_write", "accept"} => task'[q] = task[q]
  BY TaskUpdate, DonePc

\* Staging tells a process what it found.
LEMMA RowsStaged ==
    ASSUME TypeOK, LockHeld, NEW o \in Process, holder \in {o, Nobody},
           NEW r, NEW st, NEW mode, NEW pc, Staged(o, r, st, mode, pc),
           pc = "stage_write" => rows'[r] = "staging",
           pc = "accept" /\ rows'[r] = "active" => st = "active"
    PROVE  StagedRow' /\ AcceptedRow'
  <1> DEFINE t == [pc |-> pc, rev |-> r, st |-> st, stale |-> lapsed[r], mode |-> mode]
  <1>1. task'[o] = t /\ \A q \in Process \ {o} : task'[q] = task[q]
    BY TaskUpdate DEF Staged
  <1>2. t.pc = pc /\ t.rev = r /\ t.st = st
    OBVIOUS
  <1> QED
    BY <1>1, <1>2, RowsHeld

\* Staging and queueing keep both.
LEMMA StageRows ==
    ASSUME TypeOK, LockHeld, StagedRow, AcceptedRow, NEW o \in Operator, Stage(o)
    PROVE  StagedRow' /\ AcceptedRow'
  <1>p. o \in Process
    BY DEF Process
  <1>t. task[o].rev \in Rev \cup {NoRev}
    BY <1>p DEF TypeOK, Task
  <1>1. ASSUME NEW d \in Digest, NEW mode \in {"plain", "once"},
               StageIdentify(o, d, mode)
        PROVE  StagedRow' /\ AcceptedRow'
    <2> DEFINE r == <<d, selection>>
    <2>1. r \in Rev
      BY RevPair DEF TypeOK
    <2>2. holder \in {o, Nobody}
      BY <1>1 DEF StageIdentify
    <2>3. CASE SetRow(r, "staging") /\ Staged(o, r, "staging", mode, "stage_write")
      <3>1. rows'[r] = "staging"
        BY <2>1, <2>3 DEF SetRow, TypeOK
      <3> QED
        BY <1>p, <2>2, <2>3, <3>1, RowsStaged
    <2>4. CASE Staged(o, r, rows[r], mode, "accept") /\ UNCHANGED rows
      BY <1>p, <2>2, <2>4, RowsStaged
    <2> QED
      BY <1>1, <2>3, <2>4 DEF StageIdentify
  <1>2. CASE StageSettle(o)
    <2>1. holder = o
      BY <1>2, <1>p DEF StageSettle, At, LockHeld
    <2>2. CASE task[o].rev # NoRev
      <3>1. rows'[task[o].rev] = "materialized"
        BY <1>2, <1>t, <2>2 DEF StageSettle, SetRow, TypeOK
      <3> QED
        BY <1>2, <1>p, <2>1, <2>2, <3>1, RowsStaged DEF StageSettle
    <2>3. CASE task[o].rev = NoRev
      BY <1>2, <1>p, <2>3, DoneQuiet, RowsQuiet DEF StageSettle, Release
    <2> QED
      BY <2>2, <2>3
  <1>3. CASE StageFail(o)
    <2>1. holder = o
      BY <1>3, <1>p DEF StageFail, At, LockHeld
    <2>2. task'[o] = Done(o) /\ \A q \in Process \ {o} : task'[q] = task[q]
      BY <1>3, <1>p, TaskUpdate DEF StageFail, Release
    <2> QED
      BY <1>p, <2>1, <2>2, DonePc, RowsHeld
  <1>4. CASE Accept(o)
    <2>1. UNCHANGED rows
      BY <1>4 DEF Accept, revisions
    <2> QED
      BY <1>4, <1>p, <2>1, GotoQuiet, DoneQuiet, RowsQuiet DEF Accept, Release
  <1>5. CASE Enqueue(o)
    <2>1. UNCHANGED rows
      BY <1>5 DEF Enqueue, revisions
    <2>2. \A q \in Process :
             task'[q].pc \in {"stage_write", "accept"} => task'[q] = task[q]
      <3>1. CASE Owed(task[o])
        <4>1. PICK j \in Job : task' = [task EXCEPT ![o] = Done(o),
                  ![j] = [Rest("queued") EXCEPT !.rev = task[o].rev]]
          BY <1>5, <3>1 DEF Enqueue
        <4>2. [Rest("queued") EXCEPT !.rev = task[o].rev].pc = "queued"
          BY DEF Rest
        <4>3. o # j /\ j \in Process
          BY ProjectServingConstants DEF Process
        <4>4. task'[o] = Done(o)
          BY <4>1, <4>3, <1>p DEF TypeOK
        <4>5. task'[j].pc = "queued"
          BY <4>1, <4>2, <4>3 DEF TypeOK
        <4>6. \A q \in Process \ {o, j} : task'[q] = task[q]
          BY <4>1, <4>3, <1>p DEF TypeOK
        <4> QED
          BY <4>4, <4>5, <4>6, DonePc
      <3>2. CASE ~Owed(task[o])
        BY <1>5, <1>p, <3>2, DoneQuiet DEF Enqueue
      <3> QED
        BY <3>1, <3>2
    <2> QED
      BY <2>1, <2>2, RowsQuiet
  <1> QED
    BY <1>1, <1>2, <1>3, <1>4, <1>5 DEF Stage

\* Every step keeps the rows of the stagers in view.
LEMMA RowsStep ==
    TypeOK /\ LockHeld /\ StagedRow /\ AcceptedRow /\ [Next]_vars
        => StagedRow' /\ AcceptedRow'
  <1> SUFFICES ASSUME TypeOK, LockHeld, StagedRow, AcceptedRow, [Next]_vars
               PROVE  StagedRow' /\ AcceptedRow'
    OBVIOUS
  <1> DEFINE Q == \A q \in Process :
                     task'[q].pc \in {"stage_write", "accept"} => task'[q] = task[q]
  <1>p. Operator \subseteq Process /\ Job \subseteq Process
    BY DEF Process
  <1>q. UNCHANGED rows /\ Q => StagedRow' /\ AcceptedRow'
    BY RowsQuiet
  <1>1. ASSUME NEW o \in Operator, Stage(o) PROVE StagedRow' /\ AcceptedRow'
    BY <1>1, StageRows
  <1>2. ASSUME NEW o \in Operator, Refresh(o) PROVE StagedRow' /\ AcceptedRow'
    <2>1. CASE LatestStored = {}
      BY <1>2, <1>q, <2>1 DEF Refresh
    <2>2. ASSUME NEW base \in LatestStored,
                 LET r == <<base[1], selection>> IN
                 \/ /\ SetRow(r, "materialized")
                    /\ Staged(o, r, "materialized", "plain", "accept")
                 \/ /\ Staged(o, r, rows[r], "plain", "accept")
                    /\ UNCHANGED rows
          PROVE  StagedRow' /\ AcceptedRow'
      <3> DEFINE r == <<base[1], selection>>
      <3>1. r \in Rev
        BY DEF LatestStored, TypeOK, Rev
      <3>2. holder = Nobody
        BY <1>2 DEF Refresh
      <3>3. CASE SetRow(r, "materialized")
                 /\ Staged(o, r, "materialized", "plain", "accept")
        <4>1. rows'[r] = "materialized"
          BY <3>1, <3>3 DEF SetRow, TypeOK
        <4> QED
          BY <1>p, <3>2, <3>3, <4>1, RowsStaged
      <3>4. CASE Staged(o, r, rows[r], "plain", "accept") /\ UNCHANGED rows
        BY <1>p, <3>2, <3>4, RowsStaged
      <3> QED
        BY <2>2, <3>3, <3>4
    <2> QED
      BY <1>2, <2>1, <2>2 DEF Refresh
  <1>3. ASSUME NEW o \in Operator, AskRepair(o) PROVE StagedRow' /\ AcceptedRow'
    <2>1. [Rest("promote_read") EXCEPT !.rev = active, !.mode = "repair"].pc = "promote_read"
      BY DEF Rest
    <2>2. Q
      BY <1>3, <1>p, <2>1, TaskUpdate DEF AskRepair
    <2> QED
      BY <1>3, <1>q, <2>2 DEF AskRepair, revisions
  <1>4. ASSUME NEW o \in Operator, NEW r \in Rev, AskActivate(o, r)
        PROVE  StagedRow' /\ AcceptedRow'
    <2>1. [Rest("promote_read") EXCEPT !.rev = r].pc = "promote_read"
      BY DEF Rest
    <2>2. Q
      BY <1>4, <1>p, <2>1, TaskUpdate DEF AskActivate
    <2> QED
      BY <1>4, <1>q, <2>2 DEF AskActivate, revisions
  <1>5. ASSUME NEW j \in Job, Validate(j) PROVE StagedRow' /\ AcceptedRow'
    <2>1. Q
      BY <1>5, <1>p, GotoQuiet, DoneQuiet
         DEF Validate, JobStart, JobClaim, JobVerdict, JobVanished, JobRevert, Stop
    <2>2. ASSUME NEW r, NEW st \in {"validating", "valid", "invalid", "materialized"},
                 SetRow(r, st), rows[r] # "staging"
          PROVE  /\ \A x \in Rev : rows[x] = "staging" => rows'[x] = "staging"
                 /\ \A x \in Rev : rows'[x] = "active" => rows[x] = "active"
      BY <2>2 DEF SetRow, TypeOK
    <2>3. \/ UNCHANGED rows
          \/ \E st \in {"validating", "valid", "invalid", "materialized"} :
                SetRow(task[j].rev, st) /\ rows[task[j].rev] # "staging"
      <3>1. JobStart(j) \/ JobVanished(j) => UNCHANGED rows
        BY DEF JobStart, JobVanished, revisions
      <3>2. CASE JobClaim(j)
        BY <3>2 DEF JobClaim, Claimable, revisions
      <3>3. CASE JobVerdict(j)
        BY <3>3 DEF JobVerdict, Owns, Verdicts
      <3>4. CASE JobRevert(j)
        BY <3>4 DEF JobRevert, Owns, revisions
      <3> QED
        BY <1>5, <3>1, <3>2, <3>3, <3>4 DEF Validate
    <2> QED
      BY <1>q, <2>1, <2>2, <2>3, RowsQuiet
  <1>6. ASSUME NEW p \in Process, Promote(p) PROVE StagedRow' /\ AcceptedRow'
    <2>1. CASE PromoteRead(p)
      BY <1>q, <2>1, GotoQuiet, DoneQuiet DEF PromoteRead, Stop, revisions
    <2>2. CASE PromoteVerify(p)
      BY <1>q, <2>2, GotoQuiet DEF PromoteVerify, revisions
    <2>3. CASE PromoteCorrupt(p)
      BY <1>q, <2>3, DoneQuiet DEF PromoteCorrupt, Stop, revisions
    <2>4. CASE PromoteCommit(p)
      <3>1. holder = p
        BY <2>4 DEF PromoteCommit, At, LockHeld
      <3>2. task'[p] = Done(p) /\ \A q \in Process \ {p} : task'[q] = task[q]
        BY <2>4, TaskUpdate DEF PromoteCommit, Release
      <3> QED
        BY <3>1, <3>2, DonePc, RowsHeld
    <2>5. CASE PromoteRefuse(p)
      BY <1>q, <2>5, DoneQuiet DEF PromoteRefuse, Release, revisions
    <2> QED
      BY <1>6, <2>1, <2>2, <2>3, <2>4, <2>5 DEF Promote
  <1>7. ASSUME NEW p \in Process, Crash(p) PROVE StagedRow' /\ AcceptedRow'
    BY <1>7, <1>q, DoneQuiet DEF Crash, Release, revisions
  <1>8. ASSUME NEW r \in Rev, DeleteRevision(r) PROVE StagedRow' /\ AcceptedRow'
    <2>1. \A q \in Process :
             /\ task'[q].pc = task[q].pc /\ task'[q].st = task[q].st
             /\ task'[q].rev # NoRev =>
                   task'[q].rev = task[q].rev /\ task[q].rev \in Rev \ {r}
      BY <1>8 DEF DeleteRevision, TypeOK, Task
    <2>2. \A x \in Rev \ {r} : rows'[x] = rows[x]
      BY <1>8 DEF DeleteRevision, SetRow, TypeOK
    <2> QED
      BY <2>1, <2>2 DEF StagedRow, AcceptedRow
  <1>9. CASE Deactivate
    <2>1. \A q \in Process : task[q].pc \notin Inside
      BY <1>9, ProjectServingConstants DEF Deactivate, LockHeld, Inside
    <2>2. UNCHANGED task
      BY <1>9 DEF Deactivate
    <2> QED
      BY <2>1, <2>2 DEF StagedRow, AcceptedRow, Inside
  <1>10. CASE UNCHANGED <<rows, task>>
    BY <1>10 DEF StagedRow, AcceptedRow
  <1>11. /\ \A s \in Selection : EditSelection(s) => UNCHANGED <<rows, task>>
         /\ \A q : EditPolicy(q) => UNCHANGED <<rows, task>>
         /\ \A r \in Rev : LeaseExpires(r) => UNCHANGED <<rows, task>>
         /\ RefreshFail \/ UNCHANGED vars => UNCHANGED <<rows, task>>
    BY DEF EditSelection, EditPolicy, LeaseExpires, RefreshFail, vars, revisions
  <1> QED
    BY <1>1, <1>2, <1>3, <1>4, <1>5, <1>6, <1>7, <1>8, <1>9, <1>10, <1>11 DEF Next

-----------------------------------------------------------------------------
(* Pointer, statuses and Scripts *)

\* What a promotion leaves of the statuses, given that they agreed before.
LEMMA PromotedRows ==
    ASSUME TypeOK, PointerAgreesWithStatus, NEW p \in Process, PromoteCommit(p)
    PROVE  /\ active' \in Rev /\ active' = task[p].rev
           /\ rows[active'] \in Activatable \cup {"active"}
           /\ rows' = Promoted(active')
           /\ \A q \in Rev : rows'[q] =
                 (IF q = active' THEN "active"
                  ELSE IF rows[q] = "active" THEN "retired" ELSE rows[q])
  <1>1. task[p].rev \in Rev
    BY DEF PromoteCommit, Promotable, TypeOK, Task
  <1>2. active' = task[p].rev /\ rows' = Promoted(active')
    BY DEF PromoteCommit
  <1>3. rows[active'] \in Activatable \cup {"active"}
    BY <1>2 DEF PromoteCommit, Promotable, MayPromote, AlreadyActive
  <1> QED
    BY <1>1, <1>2, <1>3 DEF Promoted, PointerAgreesWithStatus

\* Pointer, statuses, Scripts and request stay in agreement.
LEMMA AgreementStep ==
    ServingInv /\ [Next]_vars => Agreement'
  <1> SUFFICES ASSUME ServingInv, [Next]_vars PROVE Agreement'
    OBVIOUS
  <1>t. TypeOK /\ PointerAgreesWithStatus /\ PublishedMatchesServing /\ NoRequestOnServed
    BY DEF ServingInv, Agreement
  <1>1. ASSUME UNCHANGED <<pointer, intent>>,
               \A r \in Rev : (rows'[r] = "active") <=> (rows[r] = "active")
        PROVE  Agreement'
    BY <1>t, <1>1 DEF Agreement, PointerAgreesWithStatus, PublishedMatchesServing,
                NoRequestOnServed, pointer, intent
  <1>2. CASE Storing
    <2>1. \A r \in Rev : (rows'[r] = "active") <=> (rows[r] = "active")
      BY <1>2, <1>t DEF Storing, SetRow, Retryable, TypeOK
    <2> QED
      BY <1>1, <1>2, <2>1 DEF Storing
  <1>3. CASE Judging
    <2>1. \A r \in Rev : (rows'[r] = "active") <=> (rows[r] = "active")
      BY <1>3, <1>t DEF Judging, SetRow, Owns, TypeOK
    <2> QED
      BY <1>1, <1>3, <2>1 DEF Judging
  <1>4. CASE Accepting
    <2>1. PICK o \in Operator : task[o].rev # NoRev /\ Accept(o)
      BY <1>4 DEF Accepting
    <2>2. UNCHANGED <<rows, pointer>> /\ source' = task[o].rev
          /\ requested' = StillRequested(task[o].rev, task[o].st, task[o].mode)
      BY <2>1 DEF Accept, revisions
    <2>3. o \in Process /\ task[o].rev \in Rev
      BY <1>t, <2>1 DEF Process, TypeOK, Task
    <2>4. rows[task[o].rev] = "active" => task[o].st = "active"
      BY <2>1, <2>3 DEF ServingInv, AcceptedRow, Accept, At
    <2>5. NoRequestOnServed'
      BY <1>t, <2>2, <2>3, <2>4
         DEF NoRequestOnServed, StillRequested, PointerAgreesWithStatus, pointer
    <2> QED
      BY <1>t, <2>2, <2>5
         DEF Agreement, PointerAgreesWithStatus, PublishedMatchesServing, pointer
  <1>5. ASSUME NEW p \in Process, PromoteCommit(p) PROVE Agreement'
    <2>1. /\ active' \in Rev
          /\ \A q \in Rev : rows'[q] =
                (IF q = active' THEN "active"
                 ELSE IF rows[q] = "active" THEN "retired" ELSE rows[q])
      BY <1>t, <1>5, PromotedRows
    <2>2. PointerAgreesWithStatus'
      BY <2>1 DEF PointerAgreesWithStatus
    <2>3. live' = Publishes[active'] /\ live' \subseteq Script
      BY <1>5, <2>1, ProjectServingConstants DEF PromoteCommit, SynchronizeScripts
    <2>4. \A x \in live' : seen'[x] = active'
      BY <1>5, <2>3 DEF PromoteCommit, SynchronizeScripts
    <2>5. NoRequestOnServed'
      BY <1>5 DEF PromoteCommit, NoRequestOnServed
    <2> QED
      BY <2>2, <2>3, <2>4, <2>5 DEF Agreement, PublishedMatchesServing
  <1>6. CASE Deactivate
    <2>1. rows' = [rows EXCEPT ![active] = "retired"] /\ active' = NoRev /\ live' = {}
      BY <1>6 DEF Deactivate, SetRow, SynchronizeScripts
    <2>2. PointerAgreesWithStatus'
      BY <1>t, <2>1, ProjectServingConstants DEF PointerAgreesWithStatus, TypeOK
    <2>3. NoRequestOnServed'
      BY <1>6, <2>1 DEF NoRequestOnServed, Deactivate, intent
    <2> QED
      BY <2>1, <2>2, <2>3 DEF Agreement, PublishedMatchesServing
  <1>7. ASSUME NEW r \in Rev, DeleteRevision(r) PROVE Agreement'
    <2>1. /\ rows' = [rows EXCEPT ![r] = "absent"]
          /\ active' = IF active = r THEN NoRev ELSE active
          /\ source' = IF source = r THEN NoRev ELSE source
          /\ seen' = [x \in Script |-> IF seen[x] = r THEN NoRev ELSE seen[x]]
          /\ UNCHANGED <<live, requested>>
      BY <1>7 DEF DeleteRevision, SetRow
    <2>2. PointerAgreesWithStatus'
      BY <1>t, <2>1, ProjectServingConstants DEF PointerAgreesWithStatus, TypeOK
    <2>3. PublishedMatchesServing'
      BY <1>t, <2>1 DEF PublishedMatchesServing, TypeOK
    <2>4. NoRequestOnServed'
      BY <1>t, <2>1 DEF NoRequestOnServed
    <2> QED
      BY <2>2, <2>3, <2>4 DEF Agreement
  <1>8. CASE Elsewhere
    BY <1>1, <1>8 DEF Elsewhere
  <1> QED
    BY <1>2, <1>3, <1>4, <1>5, <1>6, <1>7, <1>8, StepKinds DEF ServingInv, Moving

-----------------------------------------------------------------------------
(* The invariant and what follows from it *)

\* Nothing is staged, requested or served at the start.
LEMMA InitInv == Init => ServingInv
  <1> SUFFICES ASSUME Init PROVE ServingInv
    OBVIOUS
  <1>1. TypeOK
    BY InitType
  <1>2. \A p \in Process : task[p].pc = "idle"
    BY DEF Init, Rest
  <1>3. LockHeld /\ StagedRow /\ AcceptedRow
    BY <1>2 DEF LockHeld, StagedRow, AcceptedRow
  <1>4. Agreement
    BY ProjectServingConstants
       DEF Init, Agreement, PointerAgreesWithStatus, PublishedMatchesServing,
           NoRequestOnServed
  <1> QED
    BY <1>1, <1>3, <1>4 DEF ServingInv

\* The inductive invariant: the lock is honoured, what was read under it still
\* holds when it is used, and pointer, statuses, Scripts and request agree.
THEOREM ServingInvariant == Spec => []ServingInv
  <1>1. ServingInv /\ [Next]_vars => ServingInv'
    BY TypeStep, LockStep, RowsStep, AgreementStep DEF ServingInv
  <1> QED
    BY <1>1, InitInv, PTL DEF Spec

\* The revision the project points at, and no other, is active.
THEOREM PointerAgrees == Spec => []PointerAgreesWithStatus
  <1>1. ServingInv => PointerAgreesWithStatus
    BY DEF ServingInv, Agreement
  <1> QED
    BY <1>1, ServingInvariant, PTL

\* The published Scripts are those of the revision in force.
THEOREM PublishedMatches == Spec => []PublishedMatchesServing
  <1>1. ServingInv => PublishedMatchesServing
    BY DEF ServingInv, Agreement
  <1> QED
    BY <1>1, ServingInvariant, PTL

\* No activation request stands on the source already served.
THEOREM RequestsMean == Spec => []NoRequestOnServed
  <1>1. ServingInv => NoRequestOnServed
    BY DEF ServingInv, Agreement
  <1> QED
    BY <1>1, ServingInvariant, PTL

\* How one step can change one status.
LEMMA RowMoves ==
    ASSUME ServingInv, [Next]_vars, NEW r \in Rev, rows'[r] # rows[r]
    PROVE  \/ rows[r] \in Retryable \cup {"absent"}
              /\ rows'[r] \in Retryable \cup {"materialized"}
           \/ rows[r] = "materialized" /\ rows'[r] = "validating"
           \/ /\ rows[r] = "validating"
              /\ rows'[r] \in {"materialized", "valid", "invalid"}
              /\ \E j \in Job : owner[r] = j /\ task'[j] # task[j]
           \/ rows[r] \in Activatable /\ rows'[r] = "active"
           \/ rows[r] = "active" /\ rows'[r] = "retired"
           \/ rows'[r] = "absent"
  <1>t. TypeOK /\ StagedRow /\ PointerAgreesWithStatus
    BY DEF ServingInv, Agreement
  <1>1. CASE Storing
    <2>1. PICK q \in Rev, st \in Retryable \cup {"materialized"} :
             rows[q] \in Retryable \cup {"absent"} /\ rows' = [rows EXCEPT ![q] = st]
      BY <1>1 DEF Storing, SetRow
    <2> QED
      BY <1>t, <2>1 DEF TypeOK
  <1>2. CASE Judging
    <2>1. PICK j \in Job, q \in Rev :
             /\ task'[j] # task[j]
             /\ \/ /\ rows[q] \in {"materialized", "validating"}
                   /\ rows' = [rows EXCEPT ![q] = "validating"]
                \/ /\ Owns(j, q)
                   /\ \E st \in {"materialized", "valid", "invalid"} :
                         rows' = [rows EXCEPT ![q] = st]
      BY <1>2 DEF Judging, SetRow
    <2> QED
      BY <1>t, <2>1 DEF Owns, TypeOK
  <1>3. CASE Accepting
    BY <1>3 DEF Accepting, Accept, revisions
  <1>4. ASSUME NEW p \in Process, PromoteCommit(p)
        PROVE  \/ rows[r] \in Activatable /\ rows'[r] = "active"
               \/ rows[r] = "active" /\ rows'[r] = "retired"
    BY <1>t, <1>4, PromotedRows
  <1>5. CASE Deactivate
    BY <1>t, <1>5 DEF Deactivate, SetRow, PointerAgreesWithStatus, TypeOK
  <1>6. ASSUME NEW q \in Rev, DeleteRevision(q) PROVE rows'[r] = "absent"
    BY <1>t, <1>6 DEF DeleteRevision, SetRow, TypeOK
  <1>7. CASE Elsewhere
    BY <1>7 DEF Elsewhere
  <1> QED
    BY <1>t, <1>1, <1>2, <1>3, <1>4, <1>5, <1>6, <1>7, StepKinds DEF Moving

\* Only the Job that owns a claim settles it.
THEOREM OwnerSettles == Spec => OnlyOwnerSettles
  <1> DEFINE A == \A r \in Rev :
                    rows[r] = "validating" /\ rows'[r] \notin {"validating", "absent"}
                       => \E j \in Job : owner[r] = j /\ task'[j] # task[j]
  <1>1. ServingInv /\ [Next]_vars => [A]_vars
    <2> SUFFICES ASSUME ServingInv, [Next]_vars, NEW r \in Rev,
                        rows[r] = "validating", rows'[r] \notin {"validating", "absent"}
                 PROVE  \E j \in Job : owner[r] = j /\ task'[j] # task[j]
      OBVIOUS
    <2> QED
      BY RowMoves DEF Retryable, Activatable
  <1>2. [][A]_vars <=> OnlyOwnerSettles
    BY DEF OnlyOwnerSettles
  <1> QED
    BY <1>1, <1>2, ServingInvariant, PTL DEF Spec

\* No step sets or keeps the bit for a source nobody asked for.
LEMMA AskedStep ==
    ServingInv /\ RequestWasAsked /\ [Next]_vars => RequestWasAsked'
  <1> SUFFICES ASSUME ServingInv, RequestWasAsked, [Next]_vars PROVE RequestWasAsked'
    OBVIOUS
  <1>t. TypeOK /\ StagedRow /\ NoRequestOnServed
    BY DEF ServingInv, Agreement
  <1>1. CASE UNCHANGED intent
    BY <1>1 DEF RequestWasAsked, intent
  <1>2. CASE Storing \/ Judging \/ Elsewhere
    BY <1>1, <1>2 DEF Storing, Judging, Elsewhere
  <1>3. CASE Accepting
    <2>1. PICK o \in Operator : task[o].rev # NoRev /\ Accept(o)
      BY <1>3 DEF Accepting
    <2> DEFINE r == task[o].rev
    <2>2. /\ source' = r /\ asked' = AskedOn(r, task[o].mode)
          /\ requested' = StillRequested(r, task[o].st, task[o].mode)
      BY <2>1 DEF Accept
    <2>3. requested' => task[o].mode = "once" \/ (source = r /\ requested)
      BY <2>2 DEF StillRequested
    <2> QED
      BY <2>1, <2>2, <2>3 DEF RequestWasAsked, AskedOn
  <1>4. ASSUME NEW p \in Process, PromoteCommit(p) PROVE RequestWasAsked'
    <2>1. /\ requested' = (requested /\ source # task[p].rev)
          /\ source' = source /\ asked' = asked \ {active, task[p].rev}
      BY <1>4 DEF PromoteCommit
    <2> QED
      BY <1>t, <2>1 DEF RequestWasAsked, NoRequestOnServed
  <1>5. CASE Deactivate
    <2>1. UNCHANGED <<source, requested>> /\ asked' = asked \ {active}
      BY <1>5 DEF Deactivate
    <2> QED
      BY <1>t, <2>1 DEF RequestWasAsked, NoRequestOnServed
  <1>6. ASSUME NEW r \in Rev, DeleteRevision(r) PROVE RequestWasAsked'
    BY <1>6 DEF DeleteRevision, RequestWasAsked
  <1> QED
    BY <1>t, <1>2, <1>3, <1>4, <1>5, <1>6, StepKinds DEF Moving

\* Under the manual policy no Job puts in force what nobody asked for since it
\* was last in force and since another source was accepted.
THEOREM ManualAsked == Spec => ManualServesAsked
  <1> DEFINE A == \A j \in Job :
                    active' \notin {active, NoRev} /\ task'[j] # task[j] /\ policy = "manual"
                       => active' \in asked
  <1>1. ServingInv /\ RequestWasAsked /\ [Next]_vars => [A]_vars
    <2> SUFFICES ASSUME ServingInv, RequestWasAsked, [Next]_vars, NEW j \in Job,
                        active' \notin {active, NoRev}, task'[j] # task[j],
                        policy = "manual"
                 PROVE  active' \in asked
      OBVIOUS
    <2>t. TypeOK /\ StagedRow
      BY DEF ServingInv
    <2>1. Storing \/ Judging \/ Accepting \/ Elsewhere => active' = active
      BY DEF Storing, Judging, Accepting, Accept, Elsewhere, pointer
    <2>2. Deactivate => active' = NoRev
      BY DEF Deactivate
    <2>3. \A r \in Rev : DeleteRevision(r) => active' \in {active, NoRev}
      BY DEF DeleteRevision
    <2>4. PICK p \in Process : PromoteCommit(p)
      BY <2>t, <2>1, <2>2, <2>3, StepKinds DEF Moving
    <2>5. p = j
      BY <2>t, <2>4, TaskUpdate DEF PromoteCommit, Release, Process
    <2>6. source = active' /\ requested
      BY <2>4, <2>5 DEF PromoteCommit, Promotable, AutomaticStands
    <2> QED
      BY <2>6 DEF RequestWasAsked
  <1>2. Init => RequestWasAsked
    BY DEF Init, RequestWasAsked
  <1>3. [][A]_vars <=> ManualServesAsked
    BY DEF ManualServesAsked
  <1> QED
    BY <1>1, <1>2, <1>3, AskedStep, ServingInvariant, PTL DEF Spec

-----------------------------------------------------------------------------
(* The revisions follow the lifecycle *)

\* A step that moves one row along the table.
LEMMA RowMove ==
    ASSUME NEW r \in Rev, NEW st \in Status,
           <<rows[r], st>> \in Lifecycle!Stored \cup Lifecycle!Judged,
           rows' = [rows EXCEPT ![r] = st]
    PROVE  Lifecycle!Next
BY DEF Lifecycle!Next, Lifecycle!Move, Lifecycle!Status, Status

\* Every step is a step of the lifecycle or leaves the statuses alone.
LEMMA LifecycleStep == ServingInv /\ [Next]_vars => [Lifecycle!Next]_rows
  <1> SUFFICES ASSUME ServingInv, [Next]_vars, rows' # rows
               PROVE  Lifecycle!Next
    OBVIOUS
  <1>t. TypeOK /\ StagedRow /\ PointerAgreesWithStatus
    BY DEF ServingInv, Agreement
  <1>1. CASE Storing
    <2>1. PICK r \in Rev, st \in Retryable \cup {"materialized"} :
             /\ rows[r] \in Retryable \cup {"absent"}
             /\ rows' = [rows EXCEPT ![r] = st]
             /\ st = "storage_failed" => rows[r] = "staging"
      BY <1>1 DEF Storing, SetRow
    <2>2. rows[r] # st
      BY <1>t, <2>1 DEF TypeOK
    <2>3. st \in Status /\ <<rows[r], st>> \in Lifecycle!Stored
      BY <2>1, <2>2 DEF Lifecycle!Stored, Retryable, Status
    <2> QED
      BY <2>1, <2>3, RowMove
  <1>2. CASE Judging
    <2>1. PICK r \in Rev, st \in {"validating", "materialized", "valid", "invalid"} :
             /\ rows' = [rows EXCEPT ![r] = st]
             /\ \/ rows[r] \in {"materialized", "validating"} /\ st = "validating"
                \/ rows[r] = "validating" /\ st # "validating"
      BY <1>2 DEF Judging, SetRow, Owns
    <2>2. rows[r] # st
      BY <1>t, <2>1 DEF TypeOK
    <2>3. st \in Status /\ <<rows[r], st>> \in Lifecycle!Judged
      BY <2>1, <2>2 DEF Lifecycle!Judged, Status
    <2> QED
      BY <2>1, <2>3, RowMove
  <1>3. CASE Accepting \/ Elsewhere
    BY <1>3 DEF Accepting, Accept, Elsewhere, revisions
  <1>4. ASSUME NEW p \in Process, PromoteCommit(p) PROVE Lifecycle!Next
    <2>1. /\ active' \in Rev
          /\ rows[active'] \in Activatable \cup {"active"}
          /\ \A q \in Rev : rows'[q] =
                (IF q = active' THEN "active"
                 ELSE IF rows[q] = "active" THEN "retired" ELSE rows[q])
      BY <1>t, <1>4, PromotedRows
    <2>2. rows' \in [Rev -> RowState] /\ rows \in [Rev -> RowState]
      BY <1>t, <1>4, <2>1 DEF TypeOK, PromoteCommit, Promoted, RowState, Status
    <2>3. rows[active'] # "active"
      <3> SUFFICES ASSUME rows[active'] = "active" PROVE rows' = rows
        OBVIOUS
      <3>1. \A q \in Rev : rows[q] = "active" => q = active'
        BY <1>t, <2>1 DEF PointerAgreesWithStatus
      <3> QED
        BY <2>1, <2>2, <3>1
    <2>4. Lifecycle!Activate(active')
      BY <2>1, <2>2, <2>3 DEF Lifecycle!Activate, Lifecycle!Activatable, Activatable
    <2> QED
      BY <2>1, <2>4 DEF Lifecycle!Next
  <1>5. CASE Deactivate
    <2>1. active \in Rev /\ rows[active] = "active"
      BY <1>5, <1>t DEF Deactivate, TypeOK, PointerAgreesWithStatus
    <2>2. Lifecycle!Deactivate(active)
      BY <1>5, <2>1 DEF Deactivate, SetRow, Lifecycle!Deactivate
    <2> QED
      BY <2>1, <2>2 DEF Lifecycle!Next
  <1>6. ASSUME NEW r \in Rev, DeleteRevision(r) PROVE Lifecycle!Next
    <2>1. rows' = [q \in Rev |-> IF q \in {r} THEN "absent" ELSE rows[q]]
      BY <1>6, <1>t DEF DeleteRevision, SetRow, TypeOK
    <2> QED
      BY <2>1 DEF Lifecycle!Delete, Lifecycle!Next
  <1> QED
    BY <1>t, <1>1, <1>2, <1>3, <1>4, <1>5, <1>6, StepKinds DEF Moving

\* A verdict stands against every Job that comes late, and nothing but a
\* verdict leads to activation.
THEOREM ServingFollows == Spec => FollowsLifecycle
  <1>1. Init => Lifecycle!Init
    BY DEF Init, Lifecycle!Init
  <1> QED
    BY <1>1, LifecycleStep, ServingInvariant, PTL
       DEF Spec, FollowsLifecycle, Lifecycle!Spec

-----------------------------------------------------------------------------
(* The project implements its contract *)

Approved == {r \in Rev : rows[r] \in {"valid", "active", "retired"}}

\* Every step is a step of the contract or leaves its state alone.
LEMMA ContractStep ==
    ServingInv /\ [Next]_vars => [Contract!Next]_(Contract!contract)
  <1> SUFFICES ASSUME ServingInv, [Next]_vars
               PROVE  Contract!Next \/ UNCHANGED <<Approved, active, live>>
    BY DEF Contract!contract, Approved
  <1>t. TypeOK /\ StagedRow /\ PointerAgreesWithStatus
    BY DEF ServingInv, Agreement
  <1>1. CASE Storing
    <2>1. UNCHANGED <<active, live>>
      BY <1>1 DEF Storing, pointer
    <2>2. Approved' = Approved
      BY <1>1, <1>t DEF Storing, SetRow, Retryable, Approved, TypeOK
    <2> QED
      BY <2>1, <2>2
  <1>2. CASE Judging
    <2>1. UNCHANGED <<active, live>>
      BY <1>2 DEF Judging, pointer
    <2>2. PICK q \in Rev, st \in {"validating", "materialized", "valid", "invalid"} :
             /\ rows[q] \in {"materialized", "validating"}
             /\ rows' = [rows EXCEPT ![q] = st]
      BY <1>2 DEF Judging, SetRow, Owns
    <2>3. Approved' = IF st = "valid" THEN Approved \cup {q} ELSE Approved
      BY <1>t, <2>2 DEF Approved, TypeOK
    <2>4. st = "valid" => Contract!Approve(q)
      BY <2>1, <2>3 DEF Contract!Approve, Approved
    <2> QED
      BY <2>1, <2>3, <2>4 DEF Contract!Next
  <1>3. CASE Accepting \/ Elsewhere
    BY <1>3 DEF Accepting, Accept, Elsewhere, revisions, pointer, Approved
  <1>4. ASSUME NEW p \in Process, PromoteCommit(p) PROVE Contract!Next
    <2>1. /\ active' \in Rev
          /\ rows[active'] \in Activatable \cup {"active"}
          /\ \A q \in Rev : rows'[q] =
                (IF q = active' THEN "active"
                 ELSE IF rows[q] = "active" THEN "retired" ELSE rows[q])
      BY <1>t, <1>4, PromotedRows
    <2>2. Approved' = Approved /\ active' \in Approved
      BY <2>1 DEF Approved, Activatable
    <2>3. live' = Publishes[active']
      BY <1>4 DEF PromoteCommit, SynchronizeScripts
    <2>4. Contract!Serve(active')
      BY <2>2, <2>3 DEF Contract!Serve, Approved
    <2> QED
      BY <2>1, <2>4 DEF Contract!Next
  <1>5. CASE Deactivate
    <2>1. /\ rows' = [rows EXCEPT ![active] = "retired"]
          /\ active' = NoRev /\ live' = {} /\ rows[active] = "active"
      BY <1>5, <1>t DEF Deactivate, SetRow, SynchronizeScripts,
                        PointerAgreesWithStatus, TypeOK
    <2>2. Approved' = Approved
      BY <1>t, <2>1 DEF Approved, TypeOK
    <2>3. Contract!StandDown
      BY <2>1, <2>2 DEF Contract!StandDown, Approved
    <2> QED
      BY <2>3 DEF Contract!Next
  <1>6. ASSUME NEW r \in Rev, DeleteRevision(r) PROVE Contract!Next
    <2>1. /\ rows' = [rows EXCEPT ![r] = "absent"]
          /\ active' = IF active = r THEN NoRev ELSE active
          /\ live' = live
      BY <1>6 DEF DeleteRevision, SetRow
    <2>2. Approved' = Approved \ {r}
      BY <1>t, <2>1 DEF Approved, TypeOK
    <2>3. Contract!Withdraw(r)
      BY <2>1, <2>2 DEF Contract!Withdraw, Approved
    <2> QED
      BY <2>3 DEF Contract!Next
  <1> QED
    BY <1>t, <1>1, <1>2, <1>3, <1>4, <1>5, <1>6, StepKinds DEF Moving

\* With all its locks, leases and late Jobs a project does what its contract
\* says and nothing else.
THEOREM Implements == Spec => ImplementsContract
  <1>1. Init => Contract!Init
    BY DEF Init, Contract!Init
  <1> QED
    BY <1>1, ContractStep, ServingInvariant, PTL
       DEF Spec, ImplementsContract, Contract!Spec
=============================================================================
