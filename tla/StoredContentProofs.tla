------------------------- MODULE StoredContentProofs -------------------------
(***************************************************************************)
(* What is proved of StoredContent for every set of digests, selections,   *)
(* files, workers and deleters, and for any number of faults and deletes.  *)
(*                                                                         *)
(* SettledContentComplete is not inductive.  Content is safe because the   *)
(* steps that settle a row or remove a file act on what they read under    *)
(* the lock, so the invariant adds that a worker inside the lock's block   *)
(* is its holder, that a tree about to be claimed was found whole, and     *)
(* that a tree being removed was found unnamed.  The first of these is     *)
(* what a lost session breaks, hence the assumption that none is lost.     *)
(*                                                                         *)
(* That the rows follow RevisionLifecycle needs no lock.  That no tree is  *)
(* stranded needs that no two open deletes name one tree, since each would *)
(* take the rows of the other for standing.                                *)
(***************************************************************************)
EXTENDS StoredContent, TLAPS

\* Only a lock that outlives its block makes the rest true.
LockHeld ==
    /\ lost = {}
    /\ drops = 0
    /\ \A w \in Worker : task[w].pc \in LockedPc => holder = w

\* The tree a row is about to claim is whole.
ClaimProven ==
    \A w \in Worker :
        task[w].pc \in {"stage_settle", "refresh_candidate"}
            => store[task[w].key[1]] = File

\* The tree being removed has no row.
RemovalProven ==
    \A w \in Worker :
        task[w].pc = "cleanup_remove"
            => \A s \in Selection : rows[<<task[w].key[1], s>>] = "absent"

Content == ClaimProven /\ RemovalProven /\ SettledContentComplete

ContentInv == TypeOK /\ LockHeld /\ Content

-----------------------------------------------------------------------------
(* Type correctness *)

\* A worker inside an operation carries a revision identity.
LEMMA TaskKey ==
    ASSUME TypeOK, NEW w \in Worker, task[w].pc # "idle"
    PROVE  /\ task[w] \in [pc : Pc, key : Key]
           /\ task[w].key \in Key
           /\ task[w].key[1] \in Digest
  BY DEF TypeOK, Task, Idle, Key

\* One move of a worker keeps its task well formed.
LEMMA MoveType ==
    ASSUME TypeOK, NEW w \in Worker, task[w].pc # "idle", NEW pc \in Pc, Move(w, pc)
    PROVE  task' \in [Worker -> Task]
  <1>1. [task[w] EXCEPT !.pc = pc] \in Task
    BY TaskKey DEF Task
  <1> QED
    BY <1>1 DEF TypeOK, Move

\* Leaving the block keeps tasks and lock well formed.
LEMMA ReleaseType ==
    ASSUME TypeOK, NEW w \in Worker, Release(w)
    PROVE  task' \in [Worker -> Task] /\ holder' \in Worker \cup {Nobody}
  BY DEF TypeOK, Release, Task

\* So does entering it.
LEMMA AcquireType ==
    ASSUME TypeOK, NEW w \in Worker, NEW pc \in Pc, NEW k \in Key, Acquire(w, pc, k)
    PROVE  task' \in [Worker -> Task] /\ holder' \in Worker \cup {Nobody}
  BY DEF TypeOK, Acquire, Task

\* A status update keeps the rows well formed.
LEMMA SetRowType ==
    ASSUME TypeOK, NEW k \in Key, NEW st \in RowState, SetRow(k, st)
    PROVE  rows' \in [Key -> RowState]
  BY DEF TypeOK, SetRow

\* Every step of the operations keeps the types.
LEMMA TypeStep == TypeOK /\ [Next]_vars => TypeOK'
  <1> SUFFICES ASSUME TypeOK, [Next]_vars PROVE TypeOK'
    OBVIOUS
  <1> USE DEF LockedPc, Pc
  <1>1. ASSUME NEW w \in Worker, NEW k \in Key, StageLock(w, k)
        PROVE  TypeOK'
    BY <1>1, AcquireType DEF StageLock, TypeOK, jobs, bounds
  <1>2. ASSUME NEW w \in Worker, StageIdentify(w)
        PROVE  TypeOK'
    <2> DEFINE k == task[w].key
    <2>1. k \in Key
      BY <1>2, TaskKey DEF StageIdentify, At
    <2>2. rows' \in [Key -> RowState]
      BY <1>2, <2>1, SetRowType DEF StageIdentify, TypeOK, RowState, Status
    <2>3. task' \in [Worker -> Task] /\ holder' \in Worker \cup {Nobody}
      BY <1>2, MoveType, ReleaseType DEF StageIdentify, At, TypeOK
    <2> QED
      BY <1>2, <2>2, <2>3 DEF StageIdentify, TypeOK, jobs, bounds
  <1>3. ASSUME NEW w \in Worker, StageClaim(w)
        PROVE  TypeOK'
    <2>1. task[w].key \in Key
      BY <1>3, TaskKey DEF StageClaim, At
    <2>2. rows' \in [Key -> RowState]
      BY <1>3, <2>1, SetRowType DEF StageClaim, TypeOK, RowState, Status
    <2>3. task' \in [Worker -> Task] /\ holder' \in Worker \cup {Nobody}
      BY <1>3, MoveType, ReleaseType DEF StageClaim, At, TypeOK
    <2> QED
      BY <1>3, <2>2, <2>3 DEF StageClaim, TypeOK, jobs, bounds
  <1>4. ASSUME NEW w \in Worker, StageWrite(w)
        PROVE  TypeOK'
    <2>1. task[w].key \in Key /\ task[w].key[1] \in Digest
      BY <1>4, TaskKey DEF StageWrite, At
    <2>2. store' \in [Digest -> SUBSET File]
      BY <1>4, <2>1 DEF StageWrite, TypeOK
    <2>3. task' \in [Worker -> Task] /\ holder' \in Worker \cup {Nobody}
      BY <1>4, MoveType DEF StageWrite, At, TypeOK
    <2> QED
      BY <1>4, <2>1, <2>2, <2>3 DEF StageWrite, Fault, TypeOK, jobs, bounds
  <1>5. ASSUME NEW w \in Worker, StageFail(w)
        PROVE  TypeOK'
    <2>1. task[w].key \in Key /\ task[w].key[1] \in Digest
      BY <1>5, TaskKey DEF StageFail, At
    <2>2. rows' \in [Key -> RowState]
      BY <1>5, <2>1 DEF StageFail, TypeOK, RowState, Status
    <2>3. task' \in [Worker -> Task] /\ holder' \in Worker \cup {Nobody}
      BY <1>5, ReleaseType DEF StageFail, At, TypeOK
    <2> QED
      BY <1>5, <2>1, <2>2, <2>3 DEF StageFail, Fault, TypeOK, jobs, bounds
  <1>6. ASSUME NEW w \in Worker, StageSettle(w)
        PROVE  TypeOK'
    <2>1. task[w].key \in Key /\ task[w].key[1] \in Digest
      BY <1>6, TaskKey DEF StageSettle, At
    <2>2. rows' \in [Key -> RowState]
      BY <1>6, <2>1 DEF StageSettle, TypeOK, RowState, Status
    <2>3. task' \in [Worker -> Task] /\ holder' \in Worker \cup {Nobody}
      BY <1>6, ReleaseType DEF StageSettle, At, TypeOK
    <2> QED
      BY <1>6, <2>1, <2>2, <2>3 DEF StageSettle, Fault, TypeOK, jobs, bounds
  <1>7. ASSUME NEW w \in Worker, NEW k \in Key, RefreshLock(w, k)
        PROVE  TypeOK'
    BY <1>7, AcquireType DEF RefreshLock, TypeOK, jobs, bounds
  <1>8. ASSUME NEW w \in Worker, RefreshVerify(w)
        PROVE  TypeOK'
    <2>1. task[w].key \in Key /\ task[w].key[1] \in Digest
      BY <1>8, TaskKey DEF RefreshVerify, At
    <2>2. task' \in [Worker -> Task] /\ holder' \in Worker \cup {Nobody}
      BY <1>8, MoveType, ReleaseType DEF RefreshVerify, At, TypeOK
    <2> QED
      BY <1>8, <2>1, <2>2 DEF RefreshVerify, Fault, TypeOK, jobs, bounds
  <1>9. ASSUME NEW w \in Worker, RefreshCandidate(w)
        PROVE  TypeOK'
    <2>1. task[w].key \in Key /\ task[w].key[1] \in Digest
      BY <1>9, TaskKey DEF RefreshCandidate, At
    <2>2. rows' \in [Key -> RowState]
      BY <1>9, <2>1 DEF RefreshCandidate, TypeOK, RowState, Status
    <2>3. task' \in [Worker -> Task] /\ holder' \in Worker \cup {Nobody}
      BY <1>9, ReleaseType DEF RefreshCandidate, At, TypeOK
    <2> QED
      BY <1>9, <2>1, <2>2, <2>3 DEF RefreshCandidate, Fault, TypeOK, jobs, bounds
  <1>10. ASSUME NEW w \in Worker, NEW k \in Key, PromoteRead(w, k)
        PROVE  TypeOK'
    BY <1>10 DEF PromoteRead, TypeOK, Task, jobs, bounds
  <1>11. ASSUME NEW w \in Worker, PromoteLock(w)
        PROVE  TypeOK'
    <2>1. task[w].key \in Key /\ task[w].key[1] \in Digest
      BY <1>11, TaskKey DEF PromoteLock, At
    <2>2. task' \in [Worker -> Task] /\ holder' \in Worker \cup {Nobody}
      BY <1>11, AcquireType, <2>1 DEF PromoteLock, At, TypeOK
    <2> QED
      BY <1>11, <2>1, <2>2 DEF PromoteLock, Fault, TypeOK, jobs, bounds
  <1>12. ASSUME NEW w \in Worker, PromoteVerify(w)
        PROVE  TypeOK'
    <2>1. task[w].key \in Key /\ task[w].key[1] \in Digest
      BY <1>12, TaskKey DEF PromoteVerify, At
    <2>2. task' \in [Worker -> Task] /\ holder' \in Worker \cup {Nobody}
      BY <1>12, MoveType, ReleaseType DEF PromoteVerify, At, TypeOK
    <2> QED
      BY <1>12, <2>1, <2>2 DEF PromoteVerify, Fault, TypeOK, jobs, bounds
  <1>13. ASSUME NEW w \in Worker, PromoteCommit(w)
        PROVE  TypeOK'
    <2>1. task[w].key \in Key /\ task[w].key[1] \in Digest
      BY <1>13, TaskKey DEF PromoteCommit, At
    <2>2. rows' \in [Key -> RowState]
      BY <1>13, <2>1 DEF PromoteCommit, TypeOK, RowState, Status
    <2>3. task' \in [Worker -> Task] /\ holder' \in Worker \cup {Nobody}
      BY <1>13, ReleaseType DEF PromoteCommit, At, TypeOK
    <2> QED
      BY <1>13, <2>1, <2>2, <2>3 DEF PromoteCommit, Fault, TypeOK, jobs, bounds
  <1>14. ASSUME NEW k \in Key, Deactivate(k)
        PROVE  TypeOK'
    BY <1>14, SetRowType DEF Deactivate, TypeOK, RowState, Status, jobs, bounds
  <1>15. ASSUME NEW k \in Key, ValidationMoves(k)
        PROVE  TypeOK'
    BY <1>15, SetRowType DEF ValidationMoves, TypeOK, RowState, Status, jobs, bounds
  <1>16. ASSUME NEW x \in Deleter, NEW K \in SUBSET Key,
               NEW cascade \in BOOLEAN, DeleteRows(x, K, cascade)
        PROVE  TypeOK'
    BY <1>16 DEF DeleteRows, Owed, Delete, TypeOK, jobs, bounds
  <1>17. ASSUME NEW x \in Deleter, DeleteCommit(x)
        PROVE  TypeOK'
    <2>1. rows' \in [Key -> RowState]
      BY <1>17 DEF DeleteCommit, TypeOK, RowState
    <2>2. pending' \in [Key -> Nat]
      BY <1>17 DEF DeleteCommit, TypeOK
    <2>3. deleting' \in [Deleter -> Delete]
      BY <1>17 DEF DeleteCommit, NoDelete, Delete, TypeOK
    <2> QED
      BY <1>17, <2>1, <2>2, <2>3 DEF DeleteCommit, TypeOK
  <1>18. ASSUME NEW x \in Deleter, DeleteRollback(x)
        PROVE  TypeOK'
    BY <1>18 DEF DeleteRollback, NoDelete, Delete, TypeOK, jobs, bounds
  <1>19. ASSUME NEW w \in Worker, NEW k \in Key, CleanupLock(w, k)
        PROVE  TypeOK'
    BY <1>19, AcquireType DEF CleanupLock, TypeOK, bounds
  <1>20. ASSUME NEW w \in Worker, CleanupRecheck(w)
        PROVE  TypeOK'
    <2>1. task[w].key \in Key /\ task[w].key[1] \in Digest
      BY <1>20, TaskKey DEF CleanupRecheck, At
    <2>2. task' \in [Worker -> Task] /\ holder' \in Worker \cup {Nobody}
      BY <1>20, MoveType, ReleaseType DEF CleanupRecheck, At, TypeOK
    <2> QED
      BY <1>20, <2>1, <2>2 DEF CleanupRecheck, Fault, TypeOK, jobs, bounds
  <1>21. ASSUME NEW w \in Worker, CleanupRemove(w)
        PROVE  TypeOK'
    <2>1. task[w].key \in Key /\ task[w].key[1] \in Digest
      BY <1>21, TaskKey DEF CleanupRemove, At
    <2>2. store' \in [Digest -> SUBSET File]
      BY <1>21, <2>1 DEF CleanupRemove, TypeOK
    <2>3. task' \in [Worker -> Task] /\ holder' \in Worker \cup {Nobody}
      BY <1>21, ReleaseType DEF CleanupRemove, At, TypeOK
    <2> QED
      BY <1>21, <2>1, <2>2, <2>3 DEF CleanupRemove, Fault, TypeOK, jobs, bounds
  <1>22. ASSUME NEW w \in Worker, CleanupFail(w)
        PROVE  TypeOK'
    <2>1. task[w].key \in Key /\ task[w].key[1] \in Digest
      BY <1>22, TaskKey DEF CleanupFail, At
    <2>2. stalled' \in [Key -> Nat]
      BY <1>22, <2>1 DEF CleanupFail, TypeOK
    <2>3. task' \in [Worker -> Task] /\ holder' \in Worker \cup {Nobody}
      BY <1>22, ReleaseType DEF CleanupFail, At, TypeOK
    <2> QED
      BY <1>22, <2>1, <2>2, <2>3 DEF CleanupFail, Fault, TypeOK, jobs, bounds
  <1>23. ASSUME NEW k \in Key, CleanupRequeue(k)
        PROVE  TypeOK'
    BY <1>23 DEF CleanupRequeue, TypeOK, bounds
  <1>24. ASSUME NEW w \in Worker, Crash(w)
        PROVE  TypeOK'
    <2>1. task[w].key \in Key /\ task[w].key[1] \in Digest
      BY <1>24, TaskKey DEF Crash, At
    <2>2. stalled' \in [Key -> Nat]
      BY <1>24, <2>1 DEF Crash, TypeOK
    <2>3. task' \in [Worker -> Task] /\ holder' \in Worker \cup {Nobody}
      BY <1>24, ReleaseType DEF Crash, At, TypeOK
    <2> QED
      BY <1>24, <2>1, <2>2, <2>3 DEF Crash, Fault, TypeOK, jobs, bounds
  <1>25. ASSUME NEW w \in Worker, ConnectionDrop(w)
        PROVE  TypeOK'
    BY <1>25 DEF ConnectionDrop, TypeOK, jobs
  <1>26. ASSUME NEW w \in Worker, ConnectionError(w)
        PROVE  TypeOK'
    <2>1. stalled' \in [Key -> Nat]
      <3>1. CASE task[w].pc \in {"cleanup_recheck", "cleanup_remove"}
        BY <1>26, <3>1, TaskKey DEF ConnectionError, TypeOK
      <3>2. CASE task[w].pc \notin {"cleanup_recheck", "cleanup_remove"}
        BY <1>26, <3>2 DEF ConnectionError, TypeOK
      <3> QED
        BY <3>1, <3>2
    <2>2. task' \in [Worker -> Task] /\ holder' \in Worker \cup {Nobody}
      BY <1>26, ReleaseType DEF ConnectionError, TypeOK
    <2> QED
      BY <1>26, <2>1, <2>2 DEF ConnectionError, TypeOK, bounds
  <1>27. CASE UNCHANGED vars
    BY <1>27 DEF vars, TypeOK
  <1> QED
    BY <1>1, <1>2, <1>3, <1>4, <1>5, <1>6, <1>7, <1>8, <1>9, <1>10, <1>11,
       <1>12, <1>13, <1>14, <1>15, <1>16, <1>17, <1>18, <1>19, <1>20, <1>21,
       <1>22, <1>23, <1>24, <1>25, <1>26, <1>27
       DEF Next, Start, Stage, Refresh, Promote, Cleanup, Deletion
\* Every variable keeps its type through every operation, crash and lost
\* session (storage/service.py, jobs.py, signals.py).
THEOREM TypeCorrect == Spec => []TypeOK
  <1>1. Init => TypeOK
    BY StoredContentConstants
       DEF Init, TypeOK, RowState, Status, Task, Idle, NoDelete, Delete
  <1>2. TypeOK /\ [Next]_vars => TypeOK'
    BY TypeStep
  <1> QED
    BY <1>1, <1>2, PTL DEF Spec

-----------------------------------------------------------------------------
(* The project lock *)

\* Two workers are never both inside the lock's block.
LEMMA Exclusion ==
    ASSUME LockHeld, NEW v \in Worker, NEW w \in Worker,
           task[v].pc \in LockedPc, task[w].pc \in LockedPc
    PROVE  v = w
  BY DEF LockHeld

\* Each way a worker moves leaves only the holder inside.
LEMMA LockMove ==
    ASSUME TypeOK, LockHeld, NEW w \in Worker, task[w].pc \in LockedPc,
           NEW pc \in LockedPc, Move(w, pc) /\ UNCHANGED holder
    PROVE  \A v \in Worker : task'[v].pc \in LockedPc => holder' = v
  BY TaskKey DEF LockHeld, Move, TypeOK, LockedPc

\* Leaving the block leaves nobody inside it without the lock.
LEMMA LockRelease ==
    ASSUME TypeOK, LockHeld, NEW w \in Worker, Release(w)
    PROVE  \A v \in Worker : task'[v].pc \in LockedPc => holder' = v
  BY DEF LockHeld, Release, Idle, TypeOK, LockedPc

\* Entering it needs the lock free, hence the block empty.
LEMMA LockAcquire ==
    ASSUME TypeOK, LockHeld, NEW w \in Worker, NEW pc, NEW k \in Key,
           Acquire(w, pc, k)
    PROVE  \A v \in Worker : task'[v].pc \in LockedPc => holder' = v
  BY StoredContentConstants DEF LockHeld, Acquire, TypeOK

\* While no session is lost, the block is only entered through the lock.
LEMMA LockStep ==
    ASSUME MaxDrops = 0, TypeOK, LockHeld, [Next]_vars
    PROVE  LockHeld'
  <1> USE DEF LockHeld
  <1>1. ASSUME NEW w \in Worker, NEW k \in Key, StageLock(w, k)
        PROVE  LockHeld'
    BY <1>1, LockAcquire DEF StageLock, bounds
  <1>2. ASSUME NEW w \in Worker, StageIdentify(w)
        PROVE  LockHeld'
    BY <1>2, LockMove, LockRelease DEF StageIdentify, At, LockedPc, bounds
  <1>3. ASSUME NEW w \in Worker, StageClaim(w)
        PROVE  LockHeld'
    BY <1>3, LockMove, LockRelease DEF StageClaim, At, LockedPc, bounds
  <1>4. ASSUME NEW w \in Worker, StageWrite(w)
        PROVE  LockHeld'
    BY <1>4, LockMove DEF StageWrite, At, LockedPc, bounds
  <1>5. ASSUME NEW w \in Worker, StageFail(w)
        PROVE  LockHeld'
    BY <1>5, LockRelease DEF StageFail, bounds
  <1>6. ASSUME NEW w \in Worker, StageSettle(w)
        PROVE  LockHeld'
    BY <1>6, LockRelease DEF StageSettle, bounds
  <1>7. ASSUME NEW w \in Worker, NEW k \in Key, RefreshLock(w, k)
        PROVE  LockHeld'
    BY <1>7, LockAcquire DEF RefreshLock, bounds
  <1>8. ASSUME NEW w \in Worker, RefreshVerify(w)
        PROVE  LockHeld'
    BY <1>8, LockMove, LockRelease DEF RefreshVerify, At, LockedPc, bounds
  <1>9. ASSUME NEW w \in Worker, RefreshCandidate(w)
        PROVE  LockHeld'
    BY <1>9, LockRelease DEF RefreshCandidate, bounds
  <1>10. ASSUME NEW w \in Worker, NEW k \in Key, PromoteRead(w, k)
        PROVE  LockHeld'
    BY <1>10 DEF PromoteRead, TypeOK, LockedPc, bounds
  <1>11. ASSUME NEW w \in Worker, PromoteLock(w)
        PROVE  LockHeld'
    BY <1>11, LockAcquire, TaskKey DEF PromoteLock, At, bounds
  <1>12. ASSUME NEW w \in Worker, PromoteVerify(w)
        PROVE  LockHeld'
    BY <1>12, LockMove, LockRelease DEF PromoteVerify, At, LockedPc, bounds
  <1>13. ASSUME NEW w \in Worker, PromoteCommit(w)
        PROVE  LockHeld'
    BY <1>13, LockRelease DEF PromoteCommit, bounds
  <1>14. ASSUME NEW k \in Key, Deactivate(k)
        PROVE  LockHeld'
    BY <1>14 DEF Deactivate, bounds
  <1>15. ASSUME NEW k \in Key, ValidationMoves(k)
        PROVE  LockHeld'
    BY <1>15 DEF ValidationMoves, bounds
  <1>16. ASSUME NEW x \in Deleter, NEW K \in SUBSET Key,
               NEW cascade \in BOOLEAN, DeleteRows(x, K, cascade)
        PROVE  LockHeld'
    BY <1>16 DEF DeleteRows, bounds
  <1>17. ASSUME NEW x \in Deleter, DeleteCommit(x)
        PROVE  LockHeld'
    BY <1>17 DEF DeleteCommit, bounds
  <1>18. ASSUME NEW x \in Deleter, DeleteRollback(x)
        PROVE  LockHeld'
    BY <1>18 DEF DeleteRollback, bounds
  <1>19. ASSUME NEW w \in Worker, NEW k \in Key, CleanupLock(w, k)
        PROVE  LockHeld'
    BY <1>19, LockAcquire DEF CleanupLock, bounds
  <1>20. ASSUME NEW w \in Worker, CleanupRecheck(w)
        PROVE  LockHeld'
    BY <1>20, LockMove, LockRelease DEF CleanupRecheck, At, LockedPc, bounds
  <1>21. ASSUME NEW w \in Worker, CleanupRemove(w)
        PROVE  LockHeld'
    BY <1>21, LockRelease DEF CleanupRemove, bounds
  <1>22. ASSUME NEW w \in Worker, CleanupFail(w)
        PROVE  LockHeld'
    BY <1>22, LockRelease DEF CleanupFail, bounds
  <1>23. ASSUME NEW k \in Key, CleanupRequeue(k)
        PROVE  LockHeld'
    BY <1>23 DEF CleanupRequeue, bounds
  <1>24. ASSUME NEW w \in Worker, Crash(w)
        PROVE  LockHeld'
    BY <1>24, LockRelease DEF Crash, bounds
  <1>25. ASSUME NEW w \in Worker, ConnectionDrop(w)
        PROVE  LockHeld'
    BY <1>25, StoredContentConstants DEF ConnectionDrop, TypeOK, bounds
  <1>26. ASSUME NEW w \in Worker, ConnectionError(w)
        PROVE  LockHeld'
    BY <1>26, LockRelease DEF ConnectionError, bounds
  <1>27. CASE UNCHANGED vars
    BY <1>27 DEF vars
  <1> QED
    BY <1>1, <1>2, <1>3, <1>4, <1>5, <1>6, <1>7, <1>8, <1>9, <1>10, <1>11,
       <1>12, <1>13, <1>14, <1>15, <1>16, <1>17, <1>18, <1>19, <1>20, <1>21,
       <1>22, <1>23, <1>24, <1>25, <1>26, <1>27
       DEF Next, Start, Stage, Refresh, Promote, Cleanup, Deletion

-----------------------------------------------------------------------------
(* Settled content *)

\* Workers that newly prove a claim or a removal.
Proving == {"stage_settle", "refresh_candidate", "cleanup_remove"}

\* A step that stores and removes nothing, creates and settles no row, and
\* brings no worker to act on a proof.
Quiet ==
    /\ UNCHANGED store
    /\ \A k \in Key : rows'[k] \in Settled => rows[k] \in Settled
    /\ \A k \in Key : rows[k] = "absent" => rows'[k] = "absent"
    /\ \A w \in Worker : task'[w].pc \in Proving => task'[w] = task[w]

\* Most steps are quiet, and a quiet step disturbs nothing.
LEMMA QuietStep ==
    ASSUME TypeOK, LockHeld, Content, Quiet
    PROVE  Content'
  <1>1. ClaimProven'
    BY DEF Content, Quiet, ClaimProven, Proving
  <1>2. RemovalProven'
    <2> SUFFICES ASSUME NEW w \in Worker, task'[w].pc = "cleanup_remove", NEW s \in Selection
                 PROVE  rows'[<<task'[w].key[1], s>>] = "absent"
      BY DEF RemovalProven
    <2>1. task'[w] = task[w]
      BY DEF Quiet, Proving
    <2>2. <<task[w].key[1], s>> \in Key
      BY <2>1, TaskKey DEF Key
    <2> QED
      BY <2>1, <2>2 DEF Content, Quiet, RemovalProven
  <1>3. SettledContentComplete'
    BY DEF Content, Quiet, SettledContentComplete
  <1> QED
    BY <1>1, <1>2, <1>3 DEF Content

\* What Move and Release do to the workers' tasks.
LEMMA MoveEffect ==
    ASSUME TypeOK, NEW w \in Worker, task[w].pc # "idle", NEW pc, Move(w, pc)
    PROVE  /\ task'[w].pc = pc /\ task'[w].key = task[w].key
           /\ \A v \in Worker \ {w} : task'[v] = task[v]
  <1>1. task[w] \in [pc : Pc, key : Key]
    BY TaskKey
  <1> QED
    BY <1>1 DEF TypeOK, Move

\* Release sends its worker home and touches no other.
LEMMA ReleaseEffect ==
    ASSUME TypeOK, NEW w \in Worker, Release(w)
    PROVE  /\ task'[w].pc = "idle"
           /\ \A v \in Worker \ {w} : task'[v] = task[v]
  BY DEF TypeOK, Release, Idle

\* The steps that are not quiet create a row, store or remove a file, or act
\* on a proof, all inside the block and so one at a time.
LEMMA ContentStep ==
    ASSUME TypeOK, LockHeld, Content, [Next]_vars
    PROVE  Content'
  <1>1. ASSUME NEW w \in Worker, NEW k \in Key, StageLock(w, k)
        PROVE  Content'
    <2>1. Quiet
      BY <1>1 DEF StageLock, Quiet, Proving, Acquire, TypeOK
    <2> QED
      BY <2>1, QuietStep
  <1>2. ASSUME NEW w \in Worker, StageIdentify(w)
        PROVE  Content'
    <2> DEFINE k == task[w].key
    <2>1. k \in Key /\ task[w].pc = "stage_identify"
      BY <1>2, TaskKey DEF StageIdentify, At
    <2>2. CASE rows[k] = "absent" /\ SetRow(k, "staging") /\ Move(w, "stage_claim")
      <3>1. ClaimProven'
        BY <1>2, <2>1, <2>2, MoveEffect DEF StageIdentify, Content, ClaimProven
      <3>2. \A v \in Worker : task'[v].pc # "cleanup_remove"
        BY <2>1, <2>2, MoveEffect, Exclusion DEF LockedPc
      <3>3. SettledContentComplete'
        BY <1>2, <2>2 DEF StageIdentify, Content, SettledContentComplete, SetRow,
                          TypeOK, Settled, Retryable
      <3> QED
        BY <3>1, <3>2, <3>3 DEF Content, RemovalProven
    <2>3. CASE UNCHANGED rows /\ (Move(w, "stage_claim") \/ Release(w))
      <3>1. \A v \in Worker : task'[v].pc \in Proving => task'[v] = task[v]
        BY <2>1, <2>3, MoveEffect, ReleaseEffect DEF Proving
      <3>2. Quiet
        BY <1>2, <2>3, <3>1 DEF StageIdentify, Quiet
      <3> QED
        BY <3>2, QuietStep
    <2> QED
      BY <1>2, <2>2, <2>3 DEF StageIdentify
  <1>3. ASSUME NEW w \in Worker, StageClaim(w)
        PROVE  Content'
    <2>1. Quiet
      BY <1>3, MoveEffect, ReleaseEffect
         DEF StageClaim, Quiet, Proving, SetRow, Settled, Retryable, Exists, At, TypeOK
    <2> QED
      BY <2>1, QuietStep
  <1>4. ASSUME NEW w \in Worker, StageWrite(w)
        PROVE  Content'
    <2> DEFINE d == task[w].key[1]
    <2>1. d \in Digest /\ task[w].pc = "stage_write"
      BY <1>4, TaskKey DEF StageWrite, At
    <2>2. ASSUME NEW e \in Digest, store[e] = File
          PROVE  store'[e] = File
      BY <1>4, <2>1, <2>2 DEF StageWrite, TypeOK
    <2>3. ClaimProven'
      <3> SUFFICES ASSUME NEW v \in Worker,
                          task'[v].pc \in {"stage_settle", "refresh_candidate"}
                   PROVE  store'[task'[v].key[1]] = File
        BY DEF ClaimProven
      <3>1. CASE v = w
        BY <1>4, <2>1, <3>1, MoveEffect DEF StageWrite, Complete
      <3>2. CASE v # w
        <4>1. task'[v] = task[v]
          BY <1>4, <3>2 DEF StageWrite, Move, TypeOK
        <4> QED
          BY <4>1, <2>2, TaskKey DEF Content, ClaimProven
      <3> QED
        BY <3>1, <3>2
    <2>4. RemovalProven'
      BY <1>4, <2>1, MoveEffect DEF StageWrite, Content, RemovalProven
    <2>5. SettledContentComplete'
      BY <1>4, <2>2 DEF StageWrite, Content, SettledContentComplete, Key
    <2> QED
      BY <2>3, <2>4, <2>5 DEF Content
  <1>5. ASSUME NEW w \in Worker, StageFail(w)
        PROVE  Content'
    <2>1. Quiet
      BY <1>5 DEF StageFail, Quiet, Proving, Release, Idle, Settled, Retryable, TypeOK
    <2> QED
      BY <2>1, QuietStep
  <1>6. ASSUME NEW w \in Worker, StageSettle(w)
        PROVE  Content'
    <2> DEFINE k == task[w].key
    <2>1. k \in Key /\ store[k[1]] = File
      BY <1>6, TaskKey DEF StageSettle, At, Content, ClaimProven
    <2>2. ClaimProven'
      BY <1>6 DEF StageSettle, Release, Idle, Content, ClaimProven, TypeOK
    <2>3. RemovalProven'
      <3>1. \A j \in Key : rows[j] = "absent" => rows'[j] = "absent"
        BY <1>6 DEF StageSettle, TypeOK
      <3>2. \A v \in Worker : task'[v].pc = "cleanup_remove" => task'[v] = task[v]
        BY <1>6 DEF StageSettle, Release, Idle, TypeOK
      <3> QED
        BY <3>1, <3>2, TaskKey DEF Content, RemovalProven, Key
    <2>4. SettledContentComplete'
      BY <1>6, <2>1 DEF StageSettle, Content, SettledContentComplete, TypeOK
    <2> QED
      BY <2>2, <2>3, <2>4 DEF Content
  <1>7. ASSUME NEW w \in Worker, NEW k \in Key, RefreshLock(w, k)
        PROVE  Content'
    <2>1. Quiet
      BY <1>7 DEF RefreshLock, Quiet, Proving, Acquire, TypeOK
    <2> QED
      BY <2>1, QuietStep
  <1>8. ASSUME NEW w \in Worker, RefreshVerify(w)
        PROVE  Content'
    <2>1. task[w].key[1] \in Digest /\ task[w].pc = "refresh_verify"
      BY <1>8, TaskKey DEF RefreshVerify, At
    <2>2. ClaimProven'
      BY <1>8, <2>1, MoveEffect, ReleaseEffect
         DEF RefreshVerify, Complete, Content, ClaimProven
    <2>3. RemovalProven'
      BY <1>8, <2>1, MoveEffect, ReleaseEffect DEF RefreshVerify, Content, RemovalProven
    <2>4. SettledContentComplete'
      BY <1>8 DEF RefreshVerify, Content, SettledContentComplete
    <2> QED
      BY <2>2, <2>3, <2>4 DEF Content
  <1>9. ASSUME NEW w \in Worker, RefreshCandidate(w)
        PROVE  Content'
    <2> DEFINE k == task[w].key
    <2>1. k \in Key /\ store[k[1]] = File /\ task[w].pc = "refresh_candidate"
      BY <1>9, TaskKey DEF RefreshCandidate, At, Content, ClaimProven
    <2>2. ClaimProven'
      BY <1>9 DEF RefreshCandidate, Release, Idle, Content, ClaimProven, TypeOK
    <2>3. \A v \in Worker : task[v].pc # "cleanup_remove"
      BY <2>1, Exclusion DEF LockedPc
    <2>4. \A v \in Worker : task'[v].pc # "cleanup_remove"
      BY <1>9, <2>3 DEF RefreshCandidate, Release, Idle, TypeOK
    <2>5. SettledContentComplete'
      BY <1>9, <2>1 DEF RefreshCandidate, Content, SettledContentComplete, TypeOK
    <2> QED
      BY <2>2, <2>4, <2>5 DEF Content, RemovalProven
  <1>10. ASSUME NEW w \in Worker, NEW k \in Key, PromoteRead(w, k)
        PROVE  Content'
    <2>1. Quiet
      BY <1>10 DEF PromoteRead, Quiet, Proving, TypeOK
    <2> QED
      BY <2>1, QuietStep
  <1>11. ASSUME NEW w \in Worker, PromoteLock(w)
        PROVE  Content'
    <2>1. Quiet
      BY <1>11 DEF PromoteLock, Quiet, Proving, Acquire, TypeOK
    <2> QED
      BY <2>1, QuietStep
  <1>12. ASSUME NEW w \in Worker, PromoteVerify(w)
        PROVE  Content'
    <2>1. Quiet
      BY <1>12, MoveEffect, ReleaseEffect
         DEF PromoteVerify, Quiet, Proving, At, TypeOK
    <2> QED
      BY <2>1, QuietStep
  <1>13. ASSUME NEW w \in Worker, PromoteCommit(w)
        PROVE  Content'
    <2>1. Quiet
      BY <1>13 DEF PromoteCommit, Quiet, Proving, Release, Idle, Activatable, Settled,
                   Retryable, Status, TypeOK
    <2> QED
      BY <2>1, QuietStep
  <1>14. ASSUME NEW k \in Key, Deactivate(k)
        PROVE  Content'
    <2>1. Quiet
      BY <1>14 DEF Deactivate, Quiet, Proving, SetRow, Settled, Retryable, Status, TypeOK
    <2> QED
      BY <2>1, QuietStep
  <1>15. ASSUME NEW k \in Key, ValidationMoves(k)
        PROVE  Content'
    <2>1. Quiet
      BY <1>15 DEF ValidationMoves, Quiet, Proving, SetRow, Settled, Retryable, Status, TypeOK
    <2> QED
      BY <2>1, QuietStep
  <1>16. ASSUME NEW x \in Deleter, NEW K \in SUBSET Key,
               NEW cascade \in BOOLEAN, DeleteRows(x, K, cascade)
        PROVE  Content'
    <2>1. Quiet
      BY <1>16 DEF DeleteRows, Quiet, Proving, TypeOK
    <2> QED
      BY <2>1, QuietStep
  <1>17. ASSUME NEW x \in Deleter, DeleteCommit(x)
        PROVE  Content'
    <2>1. Quiet
      BY <1>17 DEF DeleteCommit, Quiet, Proving, Settled, Retryable, Status, TypeOK
    <2> QED
      BY <2>1, QuietStep
  <1>18. ASSUME NEW x \in Deleter, DeleteRollback(x)
        PROVE  Content'
    <2>1. Quiet
      BY <1>18 DEF DeleteRollback, Quiet, Proving, TypeOK
    <2> QED
      BY <2>1, QuietStep
  <1>19. ASSUME NEW w \in Worker, NEW k \in Key, CleanupLock(w, k)
        PROVE  Content'
    <2>1. Quiet
      BY <1>19 DEF CleanupLock, Quiet, Proving, Acquire, TypeOK
    <2> QED
      BY <2>1, QuietStep
  <1>20. ASSUME NEW w \in Worker, CleanupRecheck(w)
        PROVE  Content'
    <2>1. task[w].key[1] \in Digest /\ task[w].pc = "cleanup_recheck"
      BY <1>20, TaskKey DEF CleanupRecheck, At
    <2>2. ClaimProven'
      BY <1>20, <2>1, MoveEffect, ReleaseEffect DEF CleanupRecheck, Content, ClaimProven
    <2>3. RemovalProven'
      BY <1>20, <2>1, MoveEffect, ReleaseEffect
         DEF CleanupRecheck, Named, Exists, Content, RemovalProven
    <2>4. SettledContentComplete'
      BY <1>20 DEF CleanupRecheck, Content, SettledContentComplete
    <2> QED
      BY <2>2, <2>3, <2>4 DEF Content
  <1>21. ASSUME NEW w \in Worker, CleanupRemove(w)
        PROVE  Content'
    <2> DEFINE d == task[w].key[1]
    <2>1. d \in Digest /\ task[w].pc = "cleanup_remove"
      BY <1>21, TaskKey DEF CleanupRemove, At
    <2>2. \A v \in Worker : task'[v].pc \notin {"stage_settle", "refresh_candidate"}
      BY <1>21, <2>1, Exclusion DEF CleanupRemove, Release, Idle, LockedPc, TypeOK
    <2>3. RemovalProven'
      BY <1>21 DEF CleanupRemove, Release, Idle, Content, RemovalProven, TypeOK
    <2>4. \A s \in Selection : rows[<<d, s>>] = "absent"
      BY <2>1 DEF Content, RemovalProven
    <2>5. SettledContentComplete'
      <3> SUFFICES ASSUME NEW k \in Key, rows'[k] \in Settled
                   PROVE  store'[k[1]] = File
        BY DEF SettledContentComplete
      <3>1. rows' = rows
        BY <1>21 DEF CleanupRemove
      <3>2. k[1] # d
        BY <2>4, <3>1 DEF Key, Settled, Retryable, Status
      <3>3. store'[k[1]] = store[k[1]]
        BY <1>21, <2>1, <3>2 DEF CleanupRemove, TypeOK, Key
      <3> QED
        BY <3>1, <3>3 DEF Content, SettledContentComplete
    <2> QED
      BY <2>2, <2>3, <2>5 DEF Content, ClaimProven
  <1>22. ASSUME NEW w \in Worker, CleanupFail(w)
        PROVE  Content'
    <2>1. Quiet
      BY <1>22 DEF CleanupFail, Quiet, Proving, Release, Idle, TypeOK
    <2> QED
      BY <2>1, QuietStep
  <1>23. ASSUME NEW k \in Key, CleanupRequeue(k)
        PROVE  Content'
    <2>1. Quiet
      BY <1>23 DEF CleanupRequeue, Quiet, Proving, TypeOK
    <2> QED
      BY <2>1, QuietStep
  <1>24. ASSUME NEW w \in Worker, Crash(w)
        PROVE  Content'
    <2>1. Quiet
      BY <1>24 DEF Crash, Quiet, Proving, Release, Idle, TypeOK
    <2> QED
      BY <2>1, QuietStep
  <1>25. ASSUME NEW w \in Worker, ConnectionDrop(w)
        PROVE  Content'
    <2>1. Quiet
      BY <1>25 DEF ConnectionDrop, Quiet, Proving, TypeOK
    <2> QED
      BY <2>1, QuietStep
  <1>26. ASSUME NEW w \in Worker, ConnectionError(w)
        PROVE  Content'
    <2>1. Quiet
      BY <1>26 DEF ConnectionError, Quiet, Proving, Release, Idle, TypeOK
    <2> QED
      BY <2>1, QuietStep
  <1>27. CASE UNCHANGED vars
    <2>1. Quiet
      BY <1>27 DEF vars, Quiet
    <2> QED
      BY <2>1, QuietStep
  <1> QED
    BY <1>1, <1>2, <1>3, <1>4, <1>5, <1>6, <1>7, <1>8, <1>9, <1>10, <1>11,
       <1>12, <1>13, <1>14, <1>15, <1>16, <1>17, <1>18, <1>19, <1>20, <1>21,
       <1>22, <1>23, <1>24, <1>25, <1>26, <1>27
       DEF Next, Start, Stage, Refresh, Promote, Cleanup, Deletion

\* The inductive invariant holds while no session loses the lock.
THEOREM ContentInvariant == MaxDrops = 0 => (Spec => []ContentInv)
  <1> SUFFICES ASSUME MaxDrops = 0
               PROVE  Spec => []ContentInv
    OBVIOUS
  <1>1. Init => ContentInv
    <2> SUFFICES ASSUME Init PROVE ContentInv
      OBVIOUS
    <2>1. TypeOK
      BY StoredContentConstants
         DEF Init, TypeOK, RowState, Status, Task, Idle, NoDelete, Delete
    <2> QED
      BY <2>1 DEF Init, ContentInv, Content, LockHeld, ClaimProven, RemovalProven,
                  SettledContentComplete, Settled, Status, Idle, LockedPc
  <1>2. ContentInv /\ [Next]_vars => ContentInv'
    BY TypeStep, LockStep, ContentStep DEF ContentInv
  <1> QED
    BY <1>1, <1>2, PTL DEF Spec

\* A row that left its write window names a tree the backend holds whole,
\* whatever crashes, failures, deletions and late cleanups come between, as
\* long as no session loses the project lock (storage/service.py, locks.py).
THEOREM SettledContentSafe == MaxDrops = 0 => (Spec => []SettledContentComplete)
  <1> SUFFICES ASSUME MaxDrops = 0
               PROVE  Spec => []SettledContentComplete
    OBVIOUS
  <1>1. ContentInv => SettledContentComplete
    BY DEF ContentInv, Content
  <1> QED
    BY <1>1, ContentInvariant, PTL

-----------------------------------------------------------------------------
(* The rows follow the lifecycle *)

\* A conditional update of one row.
LEMMA RowMove ==
    ASSUME NEW k \in Key, NEW st \in Status,
           <<rows[k], st>> \in Lifecycle!Stored \cup Lifecycle!Judged,
           rows' = [rows EXCEPT ![k] = st]
    PROVE  Lifecycle!Next
BY DEF Lifecycle!Next, Lifecycle!Move, Lifecycle!Status, Status

\* Every step is a step of the lifecycle or leaves the rows alone.
LEMMA LifecycleStep == TypeOK /\ [Next]_vars => [Lifecycle!Next]_rows
  <1> SUFFICES ASSUME TypeOK, [Next]_vars, rows' # rows
               PROVE  Lifecycle!Next
    OBVIOUS
  <1>1. ASSUME NEW w \in Worker, StageIdentify(w) PROVE Lifecycle!Next
    <2>1. /\ task[w].key \in Key /\ rows[task[w].key] = "absent"
          /\ rows' = [rows EXCEPT ![task[w].key] = "staging"]
      BY <1>1, TaskKey DEF StageIdentify, At, SetRow
    <2> QED
      BY <2>1, RowMove DEF Lifecycle!Stored, Status
  <1>2. ASSUME NEW w \in Worker, StageClaim(w) PROVE Lifecycle!Next
    <2>1. /\ task[w].key \in Key /\ rows[task[w].key] \in Retryable
          /\ rows' = [rows EXCEPT ![task[w].key] = "staging"]
      BY <1>2, TaskKey DEF StageClaim, At, SetRow
    <2>2. rows[task[w].key] # "staging"
      BY <2>1 DEF TypeOK
    <2> QED
      BY <2>1, <2>2, RowMove DEF Lifecycle!Stored, Retryable, Status
  <1>3. ASSUME NEW w \in Worker, StageFail(w) \/ StageSettle(w) PROVE Lifecycle!Next
    <2>1. /\ task[w].key \in Key /\ rows[task[w].key] = "staging"
          /\ \E st \in {"storage_failed", "materialized"} :
                rows' = [rows EXCEPT ![task[w].key] = st]
      BY <1>3, TaskKey DEF StageFail, StageSettle, At
    <2> QED
      BY <2>1, RowMove DEF Lifecycle!Stored, Status
  <1>4. ASSUME NEW w \in Worker, RefreshCandidate(w) PROVE Lifecycle!Next
    <2>1. /\ task[w].key \in Key /\ rows[task[w].key] \in Retryable \cup {"absent"}
          /\ rows' = [rows EXCEPT ![task[w].key] = "materialized"]
      BY <1>4, TaskKey DEF RefreshCandidate, At
    <2> QED
      BY <2>1, RowMove DEF Lifecycle!Stored, Retryable, Status
  <1>5. ASSUME NEW w \in Worker, PromoteCommit(w) PROVE Lifecycle!Next
    <2>1. task[w].key \in Key /\ Lifecycle!Activate(task[w].key)
      BY <1>5, TaskKey
         DEF PromoteCommit, At, Lifecycle!Activate, Lifecycle!Activatable, Activatable
    <2> QED
      BY <2>1 DEF Lifecycle!Next
  <1>6. ASSUME NEW k \in Key, Deactivate(k) PROVE Lifecycle!Next
    BY <1>6 DEF Deactivate, SetRow, Lifecycle!Deactivate, Lifecycle!Next
  <1>7. ASSUME NEW k \in Key, ValidationMoves(k) PROVE Lifecycle!Next
    <2>1. PICK st \in {"validating", "valid", "invalid", "materialized"} :
             /\ <<rows[k], st>> \in Lifecycle!Judged
             /\ rows' = [rows EXCEPT ![k] = st]
      BY <1>7 DEF ValidationMoves, SetRow, Lifecycle!Judged
    <2> QED
      BY <2>1, RowMove DEF Status
  <1>8. ASSUME NEW x \in Deleter, DeleteCommit(x) PROVE Lifecycle!Next
    <2>1. deleting[x].keys \in SUBSET Key
      BY DEF TypeOK, Delete
    <2>2. Lifecycle!Delete(deleting[x].keys)
      BY <1>8 DEF DeleteCommit, Lifecycle!Delete
    <2> QED
      BY <2>1, <2>2 DEF Lifecycle!Next
  <1>9. ASSUME NEW w \in Worker, NEW k \in Key,
               StageLock(w, k) \/ RefreshLock(w, k) \/ PromoteRead(w, k) \/ CleanupLock(w, k)
        PROVE  FALSE
    BY <1>9 DEF StageLock, RefreshLock, PromoteRead, CleanupLock
  <1>10. ASSUME NEW w \in Worker,
                \/ StageWrite(w) \/ RefreshVerify(w) \/ PromoteLock(w)
                \/ PromoteVerify(w) \/ Cleanup(w) \/ Crash(w)
                \/ ConnectionDrop(w) \/ ConnectionError(w)
         PROVE  FALSE
    BY <1>10 DEF StageWrite, RefreshVerify, PromoteLock, PromoteVerify, Cleanup,
        CleanupRecheck, CleanupRemove, CleanupFail, Crash, ConnectionDrop, ConnectionError
  <1>11. ASSUME NEW x \in Deleter, NEW K \in SUBSET Key, NEW cascade \in BOOLEAN,
                DeleteRows(x, K, cascade) \/ DeleteRollback(x)
         PROVE  FALSE
    BY <1>11 DEF DeleteRows, DeleteRollback
  <1>12. ASSUME NEW k \in Key, CleanupRequeue(k) PROVE FALSE
    BY <1>12 DEF CleanupRequeue
  <1>13. ~UNCHANGED vars
    BY DEF vars
  <1> QED
    BY <1>1, <1>2, <1>3, <1>4, <1>5, <1>6, <1>7, <1>8, <1>9, <1>10, <1>11, <1>12, <1>13
       DEF Next, Start, Stage, Refresh, Promote, Deletion

\* No stager, failed write, retry or promotion that comes late takes a row off
\* its lifecycle, lost sessions included: the conditional updates of
\* storage/service.py need no lock for this.
THEOREM StoringFollows == Spec => FollowsLifecycle
  <1>1. Init => Lifecycle!Init
    BY DEF Init, Lifecycle!Init
  <1> QED
    BY <1>1, LifecycleStep, TypeCorrect, PTL DEF Spec, FollowsLifecycle, Lifecycle!Spec

-----------------------------------------------------------------------------
(* Removal *)

\* A file disappears only by a removal in progress, hence from a tree no row
\* names.
LEMMA RemovalStep ==
    ASSUME ContentInv, [Next]_vars, NEW d \in Digest, ~(store[d] \subseteq store'[d])
    PROVE  \A s \in Selection : rows[<<d, s>>] = "absent"
  <1>1. PICK w \in Worker : CleanupRemove(w)
    <2>1. store' # store
      OBVIOUS
    <2>2. ASSUME NEW w \in Worker, StageWrite(w)
          PROVE  FALSE
      BY <2>2, TaskKey DEF StageWrite, At, ContentInv, TypeOK
    <2>3. ASSUME NEW w \in Worker, NEW k \in Key,
                 StageLock(w, k) \/ RefreshLock(w, k) \/ PromoteRead(w, k) \/ CleanupLock(w, k)
          PROVE  FALSE
      BY <2>1, <2>3 DEF StageLock, RefreshLock, PromoteRead, CleanupLock
    <2>4. ASSUME NEW w \in Worker,
                 \/ StageIdentify(w) \/ StageClaim(w) \/ StageFail(w) \/ StageSettle(w)
                 \/ Refresh(w) \/ Promote(w)
          PROVE  FALSE
      BY <2>1, <2>4 DEF StageIdentify, StageClaim, StageFail, StageSettle, Refresh,
          RefreshVerify, RefreshCandidate, Promote, PromoteLock, PromoteVerify, PromoteCommit
    <2>5. ASSUME NEW w \in Worker,
                 \/ CleanupRecheck(w) \/ CleanupFail(w) \/ Crash(w)
                 \/ ConnectionDrop(w) \/ ConnectionError(w)
          PROVE  FALSE
      BY <2>1, <2>5 DEF CleanupRecheck, CleanupFail, Crash, ConnectionDrop, ConnectionError
    <2>6. ASSUME NEW k \in Key, Deactivate(k) \/ ValidationMoves(k) \/ CleanupRequeue(k)
          PROVE  FALSE
      BY <2>1, <2>6 DEF Deactivate, ValidationMoves, CleanupRequeue
    <2>7. ASSUME NEW x \in Deleter, NEW K \in SUBSET Key, NEW cascade \in BOOLEAN,
                 DeleteRows(x, K, cascade) \/ DeleteCommit(x) \/ DeleteRollback(x)
          PROVE  FALSE
      BY <2>1, <2>7 DEF DeleteRows, DeleteCommit, DeleteRollback
    <2>8. CASE UNCHANGED vars
      BY <2>1, <2>8 DEF vars
    <2> QED
      BY <2>2, <2>3, <2>4, <2>5, <2>6, <2>7, <2>8 DEF Next, Start, Stage, Cleanup, Deletion
  <1>2. task[w].pc = "cleanup_remove" /\ task[w].key[1] \in Digest
    BY <1>1, TaskKey DEF CleanupRemove, At, ContentInv
  <1>3. d = task[w].key[1]
    BY <1>1, <1>2 DEF CleanupRemove, ContentInv, TypeOK
  <1> QED
    BY <1>2, <1>3 DEF ContentInv, Content, RemovalProven

\* A cleanup removes a file only while no row names its tree, however long
\* after the delete that queued it (jobs.ProjectStorageCleanupJob.run).
THEOREM CleanupSpares == MaxDrops = 0 => (Spec => CleanupSparesNamed)
  <1> SUFFICES ASSUME MaxDrops = 0
               PROVE  Spec => CleanupSparesNamed
    OBVIOUS
  <1>1. ContentInv /\ [Next]_vars
          => [\A d \in Digest :
                 ~(store[d] \subseteq store'[d])
                    => \A s \in Selection : rows[<<d, s>>] = "absent"]_vars
    BY RemovalStep
  <1> QED
    BY <1>1, ContentInvariant, PTL DEF Spec, CleanupSparesNamed
-----------------------------------------------------------------------------
(* No tree is stranded *)

\* A worker runs the cleanup recorded for row k.
Cleaning(w, k) ==
    task[w].pc \in {"cleanup_recheck", "cleanup_remove"} /\ task[w].key = k

\* Row k is there, or a cleanup it left behind is still to end.
Answers(k) ==
    \/ Exists(k)
    \/ pending[k] + stalled[k] > 0
    \/ \E w \in Worker : Cleaning(w, k)

Accounted(d) == \E s \in Selection : Answers(<<d, s>>)

\* What a stager is about to store is accounted for before it is there: its
\* row may go while it writes, but not without a cleanup.
WriterAccounted ==
    \A w \in Worker : At(w, "stage_write") => Accounted(task[w].key[1])

\* An open transaction deletes rows that are there, and owes a cleanup for
\* each, unless another row of the tree outlives it.
DebtsRight ==
    \A x \in Deleter : \A k \in deleting[x].keys :
        /\ Exists(k)
        /\ \/ k \in deleting[x].owes
           \/ \E s \in Selection :
                 Exists(<<k[1], s>>) /\ <<k[1], s>> \notin deleting[x].keys

\* No two open transactions delete rows of one tree.
DeletesApart ==
    \A x, y \in Deleter : x # y =>
        \A j \in deleting[x].keys, k \in deleting[y].keys : j[1] # k[1]

AccountInv == ContentAccountedFor /\ WriterAccounted /\ DebtsRight

LEMMA AccountedMeans ==
    ContentAccountedFor <=> \A d \in Digest : store[d] # {} => Accounted(d)
  BY DEF ContentAccountedFor, Accounted, Answers, Exists, Cleaning

\* Rows stay, and whoever runs a cleanup goes on with it.
RowsStay == \A k \in Key : Exists(k) => Exists(k)'

CleanupsGoOn == \A w \in Worker, k \in Key : Cleaning(w, k) => Cleaning(w, k)'

AnswersStay == \A k \in Key : Answers(k) => Answers(k)'

LEMMA AnswersWhile ==
    ASSUME RowsStay, CleanupsGoOn, UNCHANGED <<pending, stalled>>
    PROVE  AnswersStay
  BY DEF AnswersStay, Answers, RowsStay, CleanupsGoOn

\* A worker that moves is no cleanup, or the Job of the one it ran is kept.
LEMMA AnswersMoved ==
    ASSUME TypeOK, NEW w \in Worker, UNCHANGED <<rows, pending>>,
           \A v \in Worker \ {w} : task'[v] = task[v],
           stalled' = IF task[w].pc \in {"cleanup_recheck", "cleanup_remove"}
                      THEN [stalled EXCEPT ![task[w].key] = @ + 1] ELSE stalled
    PROVE  AnswersStay
  <1> SUFFICES ASSUME NEW k \in Key, Answers(k) PROVE Answers(k)'
    BY DEF AnswersStay
  <1>1. pending[k] \in Nat /\ stalled[k] \in Nat /\ stalled'[k] \in Nat
        /\ stalled'[k] >= stalled[k]
    BY DEF TypeOK
  <1>2. CASE Exists(k) \/ pending[k] + stalled[k] > 0
    BY <1>1, <1>2 DEF Answers, Exists
  <1>3. CASE Cleaning(w, k)
    <2>1. stalled'[k] = stalled[k] + 1
      BY <1>3 DEF Cleaning, TypeOK
    <2> QED
      BY <1>1, <2>1 DEF Answers
  <1>4. ASSUME NEW v \in Worker \ {w}, Cleaning(v, k)
        PROVE  Answers(k)'
    BY <1>4 DEF Answers, Cleaning
  <1> QED
    BY <1>2, <1>3, <1>4 DEF Answers

LEMMA AccountedStays ==
    ASSUME AnswersStay, NEW d \in Digest, Accounted(d)
    PROVE  Accounted(d)'
  BY DEF AnswersStay, Accounted, Key

LEMMA DebtsStay ==
    ASSUME TypeOK, DebtsRight, RowsStay, UNCHANGED deleting
    PROVE  DebtsRight'
  <1>1. \A x \in Deleter : deleting[x].keys \subseteq Key
    BY DEF TypeOK, Delete
  <1> QED
    BY <1>1 DEF DebtsRight, RowsStay, Key

\* A writer that did not move is accounted for as before.
LEMMA WriterStays ==
    ASSUME TypeOK, WriterAccounted, \A d \in Digest : Accounted(d) => Accounted(d)',
           NEW w \in Worker, task'[w] = task[w], At(w, "stage_write")
    PROVE  Accounted(task[w].key[1])'
  <1>1. PICK d \in Digest : d = task[w].key[1]
    BY TaskKey DEF At
  <1>2. Accounted(d)'
    BY <1>1 DEF WriterAccounted
  <1> QED
    BY <1>1, <1>2

\* Most steps store nothing, bring nobody to store, and keep every answer.
Harmless ==
    /\ UNCHANGED <<store, deleting>>
    /\ RowsStay /\ AnswersStay
    /\ \A w \in Worker : At(w, "stage_write")' => task'[w] = task[w]

LEMMA HarmlessStep ==
    ASSUME TypeOK, AccountInv, Harmless
    PROVE  AccountInv'
  <1>1. ContentAccountedFor'
    BY AccountedMeans, AccountedStays DEF AccountInv, Harmless, ContentAccountedFor,
       Accounted, Answers, Exists, Cleaning
  <1>2. WriterAccounted'
    <2> SUFFICES ASSUME NEW w \in Worker, At(w, "stage_write")'
                 PROVE  Accounted(task[w].key[1])'
      BY DEF WriterAccounted
    <2>1. task'[w] = task[w] /\ At(w, "stage_write")
      BY DEF Harmless, At
    <2> QED
      BY <2>1, WriterStays, AccountedStays DEF AccountInv, Harmless
  <1>3. DebtsRight'
    BY DebtsStay DEF AccountInv, Harmless
  <1> QED
    BY <1>1, <1>2, <1>3 DEF AccountInv

\* The operations that stage, refresh and promote, apart from the two steps
\* that enter the write and store a file.
LEMMA OperationHarmless ==
    ASSUME TypeOK, NEW w \in Worker,
           \/ \E k \in Key : StageLock(w, k) \/ RefreshLock(w, k) \/ PromoteRead(w, k)
           \/ StageIdentify(w) \/ StageFail(w) \/ StageSettle(w)
           \/ Refresh(w) \/ Promote(w)
    PROVE  Harmless
  <1> USE DEF jobs, bounds, At
  <1>1. /\ UNCHANGED <<store, deleting, pending, stalled>>
        /\ task[w].pc \notin {"cleanup_recheck", "cleanup_remove"}
    BY DEF StageLock, RefreshLock, PromoteRead, StageIdentify, StageFail, StageSettle,
       Refresh, RefreshVerify, RefreshCandidate, Promote, PromoteLock, PromoteVerify,
       PromoteCommit
  <1>2. \A v \in Worker \ {w} : task'[v] = task[v]
    BY DEF TypeOK, StageLock, RefreshLock, PromoteRead, StageIdentify, StageFail,
       StageSettle, Refresh, RefreshVerify, RefreshCandidate, Promote, PromoteLock,
       PromoteVerify, PromoteCommit, Acquire, Release, Move
  <1>3. task'[w].pc # "stage_write"
    <2>1. ASSUME NEW k \in Key, StageLock(w, k) \/ RefreshLock(w, k) \/ PromoteRead(w, k)
          PROVE  task'[w].pc # "stage_write"
      BY <2>1 DEF TypeOK, StageLock, RefreshLock, PromoteRead, Acquire
    <2>2. CASE StageIdentify(w) \/ StageFail(w) \/ StageSettle(w)
      BY <2>2, MoveEffect, ReleaseEffect DEF StageIdentify, StageFail, StageSettle
    <2>3. CASE Refresh(w)
      BY <2>3, MoveEffect, ReleaseEffect DEF Refresh, RefreshVerify, RefreshCandidate
    <2>4. CASE PromoteLock(w)
      BY <2>4 DEF TypeOK, PromoteLock, Acquire
    <2>5. CASE PromoteVerify(w) \/ PromoteCommit(w)
      BY <2>5, MoveEffect, ReleaseEffect DEF PromoteVerify, PromoteCommit
    <2> QED
      BY <2>1, <2>2, <2>3, <2>4, <2>5 DEF Promote
  <1>4. RowsStay
    <2>1. CASE rows' = rows
      BY <2>1 DEF RowsStay, Exists
    <2>2. CASE StageIdentify(w) \/ StageFail(w) \/ StageSettle(w) \/ RefreshCandidate(w)
      BY <2>2, TaskKey DEF RowsStay, Exists, StageIdentify, StageFail, StageSettle,
         RefreshCandidate, SetRow, TypeOK
    <2>3. CASE PromoteCommit(w)
      BY <2>3 DEF RowsStay, Exists, PromoteCommit
    <2> QED
      BY <2>1, <2>2, <2>3 DEF StageLock, RefreshLock, PromoteRead, Refresh, RefreshVerify,
         Promote, PromoteLock, PromoteVerify
  <1>5. CleanupsGoOn
    BY <1>1, <1>2 DEF CleanupsGoOn, Cleaning
  <1>6. AnswersStay
    BY <1>1, <1>4, <1>5, AnswersWhile
  <1> QED
    BY <1>1, <1>2, <1>3, <1>4, <1>6 DEF Harmless

\* Its own row answers for what a stager goes on to store: the update that
\* enters the write window found it.
LEMMA ClaimAccounts ==
    ASSUME TypeOK, AccountInv, NEW w \in Worker, StageClaim(w)
    PROVE  AccountInv'
  <1> USE DEF jobs, bounds, At
  <1>0. task[w].pc = "stage_claim"
    BY DEF StageClaim
  <1>k. PICK k \in Key : k = task[w].key
    BY <1>0, TaskKey
  <1>1. UNCHANGED <<store, deleting, pending, stalled>>
    BY DEF StageClaim
  <1>2. \A v \in Worker \ {w} : task'[v] = task[v]
    BY <1>0, MoveEffect, ReleaseEffect DEF StageClaim
  <1>3. RowsStay
    BY <1>0, TaskKey DEF StageClaim, RowsStay, Exists, SetRow, TypeOK
  <1>4. AnswersStay
    BY <1>0, <1>1, <1>2, <1>3, AnswersWhile DEF CleanupsGoOn, Cleaning
  <1>5. CASE task'[w].pc = "stage_write"
    <2>1. task'[w].key = k /\ Exists(k)'
      BY <1>0, <1>k, <1>5, MoveEffect, ReleaseEffect
         DEF StageClaim, SetRow, Exists, TypeOK
    <2>2. Accounted(task[w].key[1])'
      BY <2>1 DEF Accounted, Answers, Key
    <2>3. \A v \in Worker \ {w} : At(v, "stage_write")' => Accounted(task[v].key[1])'
      BY <1>2, <1>4, WriterStays, AccountedStays DEF AccountInv
    <2>4. WriterAccounted'
      BY <2>1, <2>2, <2>3 DEF WriterAccounted
    <2>5. ContentAccountedFor'
      BY <1>1, <1>4, AccountedMeans, AccountedStays DEF AccountInv, ContentAccountedFor,
         Accounted, Answers, Exists, Cleaning
    <2>6. DebtsRight'
      BY <1>1, <1>3, DebtsStay DEF AccountInv
    <2> QED
      BY <2>4, <2>5, <2>6 DEF AccountInv
  <1>6. CASE task'[w].pc # "stage_write"
    BY <1>1, <1>2, <1>3, <1>4, <1>6, HarmlessStep DEF Harmless
  <1> QED
    BY <1>5, <1>6

\* A stored file is one its writer has accounted for.
LEMMA WriteAccounts ==
    ASSUME TypeOK, AccountInv, NEW w \in Worker, StageWrite(w)
    PROVE  AccountInv'
  <1> USE DEF jobs, bounds, At
  <1>1. UNCHANGED <<rows, deleting, pending, stalled>> /\ task[w].pc = "stage_write"
    BY DEF StageWrite
  <1>2. RowsStay
    BY <1>1 DEF RowsStay, Exists
  <1>3. /\ \A v \in Worker \ {w} : task'[v] = task[v]
        /\ \A v \in Worker : At(v, "stage_write")' => task'[v] = task[v]
    BY <1>1, MoveEffect DEF StageWrite
  <1>4. AnswersStay
    BY <1>1, <1>2, <1>3, AnswersWhile DEF CleanupsGoOn, Cleaning
  <1>5. CASE UNCHANGED store
    BY <1>1, <1>2, <1>3, <1>4, <1>5, HarmlessStep DEF Harmless
  <1>6. CASE store' # store
    <2>d. PICK d \in Digest : d = task[w].key[1]
      BY <1>1, TaskKey
    <2>1. \A e \in Digest \ {d} : store'[e] = store[e]
      BY <1>6, <2>d DEF StageWrite, TypeOK
    <2>2. Accounted(d)
      BY <1>1, <2>d DEF AccountInv, WriterAccounted
    <2>3. \A e \in Digest : store'[e] # {} => Accounted(e)'
      BY <1>1, <1>4, <2>1, <2>2, AccountedMeans, AccountedStays DEF AccountInv
    <2>4. ContentAccountedFor'
      BY <2>3 DEF ContentAccountedFor, Accounted, Answers, Exists, Cleaning
    <2>5. WriterAccounted'
      BY <1>3, <1>4, WriterStays, AccountedStays DEF AccountInv, WriterAccounted
    <2>6. DebtsRight'
      BY <1>1, <1>2, DebtsStay DEF AccountInv
    <2> QED
      BY <2>4, <2>5, <2>6 DEF AccountInv
  <1> QED
    BY <1>5, <1>6

\* A cleanup is taken off the queue, fails or is left behind: its Job answers on.
LEMMA CleanupHarmless ==
    ASSUME TypeOK, NEW w \in Worker,
           \/ \E k \in Key : CleanupLock(w, k)
           \/ CleanupFail(w) \/ Crash(w) \/ ConnectionDrop(w) \/ ConnectionError(w)
    PROVE  Harmless
  <1> USE DEF jobs, bounds, At
  <1>1. UNCHANGED <<rows, store, deleting>>
    BY DEF CleanupLock, CleanupFail, Crash, ConnectionDrop, ConnectionError
  <1>2. /\ \A v \in Worker \ {w} : task'[v] = task[v]
        /\ task'[w] = task[w] \/ task'[w].pc # "stage_write"
    BY ReleaseEffect DEF TypeOK, CleanupLock, CleanupFail, Crash, ConnectionDrop,
       ConnectionError, Acquire
  <1>3. RowsStay
    BY <1>1 DEF RowsStay, Exists
  <1>4. ASSUME NEW k \in Key, CleanupLock(w, k)
        PROVE  AnswersStay
    <2>1. task'[w] = [pc |-> "cleanup_recheck", key |-> k]
      BY <1>4 DEF CleanupLock, Acquire, TypeOK
    <2>2. Cleaning(w, k)'
      BY <2>1 DEF Cleaning
    <2>3. \A j \in Key \ {k} : pending'[j] = pending[j] /\ stalled'[j] = stalled[j]
      BY <1>4 DEF CleanupLock, TypeOK
    <2>4. CleanupsGoOn
      BY <1>2, <1>4 DEF CleanupLock, CleanupsGoOn, Cleaning
    <2> QED
      BY <1>3, <2>2, <2>3, <2>4 DEF AnswersStay, Answers, RowsStay, CleanupsGoOn
  <1>5. ASSUME CleanupFail(w) \/ Crash(w) \/ ConnectionError(w)
        PROVE  AnswersStay
    <2>1. /\ UNCHANGED pending
          /\ stalled' = IF task[w].pc \in {"cleanup_recheck", "cleanup_remove"}
                        THEN [stalled EXCEPT ![task[w].key] = @ + 1] ELSE stalled
      BY <1>5 DEF CleanupFail, Crash, ConnectionError
    <2> QED
      BY <1>1, <1>2, <2>1, AnswersMoved
  <1>6. ASSUME ConnectionDrop(w)
        PROVE  AnswersStay
    <2>1. UNCHANGED <<task, pending, stalled>>
      BY <1>6 DEF ConnectionDrop
    <2>2. CleanupsGoOn
      BY <2>1 DEF CleanupsGoOn, Cleaning
    <2> QED
      BY <1>3, <2>1, <2>2, AnswersWhile
  <1> QED
    BY <1>1, <1>2, <1>3, <1>4, <1>5, <1>6 DEF Harmless

\* A cleanup that finds its tree named again leaves it to that row.
LEMMA RecheckAccounts ==
    ASSUME TypeOK, AccountInv, NEW w \in Worker, CleanupRecheck(w)
    PROVE  AccountInv'
  <1> USE DEF jobs, bounds, At
  <1>0. task[w].pc = "cleanup_recheck"
    BY DEF CleanupRecheck
  <1>k. PICK k \in Key : k = task[w].key /\ k[1] \in Digest
    BY <1>0, TaskKey
  <1>1. UNCHANGED <<rows, store, deleting, pending, stalled>>
    BY DEF CleanupRecheck
  <1>2. /\ \A v \in Worker \ {w} : task'[v] = task[v]
        /\ task'[w].pc # "stage_write"
    BY <1>0, <1>k, <1>1, MoveEffect, ReleaseEffect DEF CleanupRecheck
  <1>3. RowsStay
    BY <1>0, <1>k, <1>1 DEF RowsStay, Exists
  <1>4. CASE Named(k[1])
    <2>1. Accounted(k[1])'
      BY <1>0, <1>k, <1>1, <1>4 DEF Named, Exists, Accounted, Answers
    <2>2. \A j \in Key : Answers(j) => Answers(j)' \/ j = k
      BY <1>0, <1>k, <1>1, <1>2 DEF Answers, Exists, Cleaning
    <2>3. ASSUME NEW d \in Digest, Accounted(d)
          PROVE  Accounted(d)'
      <3>1. PICK s \in Selection : Answers(<<d, s>>)
        BY <2>3 DEF Accounted
      <3>2. <<d, s>> \in Key
        BY DEF Key
      <3> QED
        BY <2>1, <2>2, <3>1, <3>2 DEF Accounted
    <2>4. ContentAccountedFor'
      <3>1. \A d \in Digest : store'[d] # {} => Accounted(d)'
        BY <1>0, <1>k, <1>1, <2>3, AccountedMeans DEF AccountInv
      <3> QED
        BY <3>1 DEF ContentAccountedFor, Accounted, Answers, Exists, Cleaning
    <2>5. WriterAccounted'
      BY <1>2, <2>3, WriterStays DEF AccountInv, WriterAccounted
    <2>6. DebtsRight'
      BY <1>0, <1>k, <1>1, <1>3, DebtsStay DEF AccountInv
    <2> QED
      BY <2>4, <2>5, <2>6 DEF AccountInv
  <1>5. CASE ~Named(k[1])
    <2>1. task'[w].pc = "cleanup_remove" /\ task'[w].key = k
      BY <1>0, <1>k, <1>1, <1>5, MoveEffect DEF CleanupRecheck
    <2>2. CleanupsGoOn
      BY <1>2, <1>k, <2>1 DEF CleanupsGoOn, Cleaning
    <2> QED
      BY <1>0, <1>k, <1>1, <1>2, <1>3, <2>2, AnswersWhile, HarmlessStep DEF Harmless
  <1> QED
    BY <1>4, <1>5

\* A cleanup that ends leaves nothing to account for: the tree is gone, and
\* whoever would store it again waits for the lock.
LEMMA RemovalAccounts ==
    ASSUME TypeOK, LockHeld, AccountInv, NEW w \in Worker, CleanupRemove(w)
    PROVE  AccountInv'
  <1> USE DEF jobs, bounds, At
  <1>0. task[w].pc = "cleanup_remove"
    BY DEF CleanupRemove
  <1>k. PICK k \in Key : k = task[w].key /\ k[1] \in Digest
    BY <1>0, TaskKey
  <1>1. UNCHANGED <<rows, deleting, pending, stalled>>
    BY DEF CleanupRemove
  <1>2. /\ \A v \in Worker \ {w} : task'[v] = task[v]
        /\ task'[w] = task[w] \/ task'[w].pc = "idle"
    BY <1>0, <1>k, <1>1, ReleaseEffect DEF CleanupRemove
  <1>3. /\ \A d \in Digest \ {k[1]} : store'[d] = store[d]
        /\ store'[k[1]] \subseteq store[k[1]]
        /\ task'[w] = task[w] \/ store'[k[1]] = {}
    BY <1>0, <1>k, <1>1 DEF CleanupRemove, TypeOK
  <1>4. \A v \in Worker : task'[v].pc # "stage_write"
    <2>1. \A v \in Worker \ {w} : task[v].pc # "stage_write"
      BY <1>0, <1>k, <1>1, Exclusion DEF LockedPc
    <2> QED
      BY <1>0, <1>k, <1>1, <1>2, <2>1
  <1>5. RowsStay
    BY <1>0, <1>k, <1>1 DEF RowsStay, Exists
  <1>6. \A j \in Key : Answers(j) => Answers(j)' \/ (j = k /\ task'[w] # task[w])
    BY <1>0, <1>k, <1>1, <1>2 DEF Answers, Exists, Cleaning
  <1>7. ASSUME NEW d \in Digest, store'[d] # {}
        PROVE  Accounted(d)'
    <2>1. store[d] # {} /\ (d = k[1] => task'[w] = task[w])
      BY <1>3, <1>7, <1>k
    <2>2. PICK s \in Selection : Answers(<<d, s>>)
      BY <2>1, AccountedMeans DEF AccountInv, Accounted
    <2>3. <<d, s>> \in Key /\ (<<d, s>> = k => d = k[1])
      BY DEF Key
    <2> QED
      BY <1>6, <2>1, <2>2, <2>3 DEF Accounted
  <1>8. ContentAccountedFor'
    BY <1>7 DEF ContentAccountedFor, Accounted, Answers, Exists, Cleaning
  <1>9. WriterAccounted'
    BY <1>4 DEF WriterAccounted
  <1> QED
    BY <1>0, <1>k, <1>1, <1>5, <1>8, <1>9, DebtsStay DEF AccountInv

\* Rows move between statuses, a failed Job is queued again, a transaction ends
\* without a trace.
LEMMA ElsewhereHarmless ==
    ASSUME TypeOK, NEW k \in Key,
           Deactivate(k) \/ ValidationMoves(k) \/ CleanupRequeue(k)
    PROVE  Harmless
  <1> USE DEF jobs, bounds
  <1>1. UNCHANGED <<store, deleting, task>>
    BY DEF Deactivate, ValidationMoves, CleanupRequeue
  <1>2. RowsStay
    BY DEF Deactivate, ValidationMoves, CleanupRequeue, RowsStay, Exists, SetRow, TypeOK
  <1>3. \A j \in Key : pending[j] + stalled[j] > 0 => (pending[j] + stalled[j] > 0)'
    <2>1. CASE UNCHANGED <<pending, stalled>>
      BY <2>1
    <2>2. CASE CleanupRequeue(k)
      BY <2>2 DEF CleanupRequeue, TypeOK
    <2> QED
      BY <2>1, <2>2 DEF Deactivate, ValidationMoves
  <1>4. AnswersStay
    BY <1>1, <1>2, <1>3 DEF AnswersStay, Answers, RowsStay, Cleaning
  <1> QED
    BY <1>1, <1>2, <1>4 DEF Harmless, At

\* The receiver records a cleanup for every row of the transaction whose tree
\* no other row names.
LEMMA DeleteRowsAccounts ==
    ASSUME TypeOK, AccountInv, NEW x \in Deleter, NEW K \in SUBSET Key,
           NEW cascade \in BOOLEAN, DeleteRows(x, K, cascade)
    PROVE  AccountInv'
  <1> USE DEF jobs, bounds
  <1>1. UNCHANGED <<rows, store, task, pending, stalled>>
    BY DEF DeleteRows
  <1>2. ContentAccountedFor' /\ WriterAccounted'
    BY <1>1 DEF AccountInv, ContentAccountedFor, WriterAccounted, At, Accounted,
       Answers, Exists, Cleaning
  <1>3. /\ deleting'[x].keys = K /\ deleting'[x].owes = Owed(K)
        /\ \A y \in Deleter \ {x} : deleting'[y] = deleting[y]
    BY DEF DeleteRows, TypeOK
  <1>4. ASSUME NEW k \in K
        PROVE  /\ Exists(k)
               /\ \/ k \in Owed(K)
                  \/ \E s \in Selection : Exists(<<k[1], s>>) /\ <<k[1], s>> \notin K
    <2>1. Exists(k)
      BY DEF DeleteRows
    <2>2. ASSUME NEW j \in Key \ K, Exists(j), j[1] = k[1]
          PROVE  \E s \in Selection : Exists(<<k[1], s>>) /\ <<k[1], s>> \notin K
      <3>1. j[2] \in Selection /\ j = <<k[1], j[2]>>
        BY <2>2 DEF Key
      <3> QED
        BY <2>2, <3>1
    <2> QED
      BY <2>1, <2>2 DEF Owed
  <1>5. DebtsRight'
    BY <1>1, <1>3, <1>4 DEF AccountInv, DebtsRight, Exists
  <1> QED
    BY <1>2, <1>5 DEF AccountInv

\* With its rows go the cleanups recorded for them, and the rows that outlive
\* them are still there: only another transaction on the tree could have
\* taken those.
LEMMA CommitAccounts ==
    ASSUME TypeOK, AccountInv, DeletesApart, NEW x \in Deleter, DeleteCommit(x)
    PROVE  AccountInv'
  <1> DEFINE tx == deleting[x]
  <1>1. /\ UNCHANGED <<store, task, stalled>>
        /\ rows' = [k \in Key |-> IF k \in tx.keys THEN "absent" ELSE rows[k]]
        /\ pending' = [k \in Key |-> IF k \in tx.owes THEN pending[k] + 1 ELSE pending[k]]
        /\ deleting'[x].keys = {}
        /\ \A y \in Deleter \ {x} : deleting'[y] = deleting[y]
    BY DEF DeleteCommit, TypeOK, NoDelete
  <1>2. \A k \in Key : Exists(k) /\ k \notin tx.keys => Exists(k)'
    BY <1>1 DEF Exists
  <1>3. \A k \in Key : Answers(k) /\ k \notin tx.keys => Answers(k)'
    BY <1>1, <1>2 DEF Answers, Cleaning, TypeOK
  <1>4. ASSUME NEW k \in Key, k \in tx.keys
        PROVE  Accounted(k[1])'
    <2>1. k[1] \in Digest /\ k[2] \in Selection /\ k = <<k[1], k[2]>>
      BY DEF Key
    <2>2. CASE k \in tx.owes
      <3>1. pending'[k] + stalled'[k] > 0
        BY <1>1, <2>2 DEF TypeOK
      <3> QED
        BY <2>1, <3>1 DEF Accounted, Answers
    <2>3. CASE k \notin tx.owes
      <3>1. PICK s \in Selection : Exists(<<k[1], s>>) /\ <<k[1], s>> \notin tx.keys
        BY <1>4, <2>3 DEF AccountInv, DebtsRight
      <3>2. <<k[1], s>> \in Key
        BY <2>1 DEF Key
      <3> QED
        BY <1>2, <3>1, <3>2 DEF Accounted, Answers
    <2> QED
      BY <2>2, <2>3
  <1>5. ASSUME NEW d \in Digest, Accounted(d)
        PROVE  Accounted(d)'
    <2>1. PICK s \in Selection : Answers(<<d, s>>)
      BY <1>5 DEF Accounted
    <2>2. <<d, s>> \in Key
      BY DEF Key
    <2>3. CASE <<d, s>> \in tx.keys
      BY <1>4, <2>2, <2>3
    <2>4. CASE <<d, s>> \notin tx.keys
      BY <1>3, <2>1, <2>2, <2>4 DEF Accounted
    <2> QED
      BY <2>3, <2>4
  <1>6. ContentAccountedFor'
    <2>1. \A d \in Digest : store'[d] # {} => Accounted(d)'
      BY <1>1, <1>5, AccountedMeans DEF AccountInv
    <2> QED
      BY <2>1 DEF ContentAccountedFor, Accounted, Answers, Exists, Cleaning
  <1>7. WriterAccounted'
    BY <1>1, <1>5, WriterStays DEF AccountInv, WriterAccounted, At
  <1>8. DebtsRight'
    <2> SUFFICES ASSUME NEW y \in Deleter \ {x}, NEW k \in deleting[y].keys
                 PROVE  /\ Exists(k)'
                        /\ \/ k \in deleting[y].owes
                           \/ \E s \in Selection : /\ Exists(<<k[1], s>>)'
                                                   /\ <<k[1], s>> \notin deleting[y].keys
      BY <1>1 DEF DebtsRight
    <2>1. k \in Key /\ k[1] \in Digest
      BY DEF TypeOK, Delete, Key
    <2>2. \A j \in tx.keys : j[1] # k[1]
      BY DEF DeletesApart
    <2>3. Exists(k)'
      BY <1>2, <2>1, <2>2 DEF AccountInv, DebtsRight
    <2>4. \A s \in Selection : Exists(<<k[1], s>>) => Exists(<<k[1], s>>)'
      <3> TAKE s \in Selection
      <3>1. <<k[1], s>> \in Key /\ <<k[1], s>>[1] = k[1]
        BY <2>1 DEF Key
      <3> QED
        BY <1>2, <2>2, <3>1
    <2> QED
      BY <2>3, <2>4 DEF AccountInv, DebtsRight
  <1> QED
    BY <1>6, <1>7, <1>8 DEF AccountInv

LEMMA RollbackAccounts ==
    ASSUME TypeOK, AccountInv, NEW x \in Deleter, DeleteRollback(x)
    PROVE  AccountInv'
  <1> USE DEF jobs, bounds
  <1>1. /\ UNCHANGED <<rows, store, task, pending, stalled>>
        /\ deleting'[x].keys = {}
        /\ \A y \in Deleter \ {x} : deleting'[y] = deleting[y]
    BY DEF DeleteRollback, NoDelete, TypeOK
  <1> QED
    BY <1>1 DEF AccountInv, ContentAccountedFor, WriterAccounted, DebtsRight, At,
       Accounted, Answers, Exists, Cleaning

LEMMA AccountStep ==
    ASSUME TypeOK, LockHeld, AccountInv, DeletesApart, [Next]_vars
    PROVE  AccountInv'
  <1>1. ASSUME NEW w \in Worker,
               \/ \E k \in Key : StageLock(w, k) \/ RefreshLock(w, k) \/ PromoteRead(w, k)
               \/ StageIdentify(w) \/ StageFail(w) \/ StageSettle(w)
               \/ Refresh(w) \/ Promote(w)
        PROVE  AccountInv'
    BY <1>1, OperationHarmless, HarmlessStep
  <1>2. ASSUME NEW w \in Worker, StageClaim(w) \/ StageWrite(w)
        PROVE  AccountInv'
    BY <1>2, ClaimAccounts, WriteAccounts
  <1>3. ASSUME NEW w \in Worker,
               \/ \E k \in Key : CleanupLock(w, k)
               \/ CleanupFail(w) \/ Crash(w) \/ ConnectionDrop(w) \/ ConnectionError(w)
        PROVE  AccountInv'
    BY <1>3, CleanupHarmless, HarmlessStep
  <1>4. ASSUME NEW w \in Worker, CleanupRecheck(w) \/ CleanupRemove(w)
        PROVE  AccountInv'
    BY <1>4, RecheckAccounts, RemovalAccounts
  <1>5. ASSUME NEW k \in Key, Deactivate(k) \/ ValidationMoves(k) \/ CleanupRequeue(k)
        PROVE  AccountInv'
    BY <1>5, ElsewhereHarmless, HarmlessStep
  <1>6. ASSUME NEW x \in Deleter, Deletion(x)
        PROVE  AccountInv'
    BY <1>6, DeleteRowsAccounts, CommitAccounts, RollbackAccounts DEF Deletion
  <1>7. CASE UNCHANGED vars
    BY <1>7 DEF vars, AccountInv, ContentAccountedFor, WriterAccounted, DebtsRight, At,
       Accounted, Answers, Exists, Cleaning, jobs
  <1> QED
    BY <1>1, <1>2, <1>3, <1>4, <1>5, <1>6, <1>7
       DEF Next, Start, Stage, Refresh, Promote, Cleanup

\* Content is always named by a row or owed by a cleanup that is still to end,
\* whatever crashes, failures and late Jobs come between, while no two open
\* transactions delete rows of one tree: each receiver reckons with rows the
\* other is about to take (signals.py, jobs.ProjectStorageCleanupJob).
THEOREM NothingStranded ==
    MaxDrops = 0 /\ Spec /\ []DeletesApart => []ContentAccountedFor
  <1> SUFFICES ASSUME MaxDrops = 0
               PROVE  Spec /\ []DeletesApart => []ContentAccountedFor
    OBVIOUS
  <1>1. Init => AccountInv
    BY StoredContentConstants DEF Init, AccountInv, ContentAccountedFor, WriterAccounted,
       DebtsRight, At, Idle, NoDelete
  <1>2. ContentInv /\ AccountInv /\ DeletesApart /\ [Next]_vars => AccountInv'
    BY AccountStep DEF ContentInv
  <1>3. AccountInv => ContentAccountedFor
    BY DEF AccountInv
  <1> QED
    BY <1>1, <1>2, <1>3, ContentInvariant, PTL DEF Spec

\* In particular while deletes run one transaction at a time.
THEOREM OneDeleterStrandsNothing ==
    ASSUME \A x, y \in Deleter : x = y
    PROVE  MaxDrops = 0 /\ Spec => []ContentAccountedFor
  <1>1. DeletesApart
    BY DEF DeletesApart
  <1> QED
    BY <1>1, NothingStranded, PTL
=============================================================================
