------------------------- MODULE RuntimeCacheProofs -------------------------
(***************************************************************************)
(* The safety of RuntimeCache for every set of threads, processes and      *)
(* files and any number of sessions, rebuilds, faults and kills.           *)
(*                                                                         *)
(* Whoever is between its judgment and its seal holds the slot's lock      *)
(* (LockInv), so nobody else proves or renames a tree there; what is       *)
(* proven verifies (ProvenInv), and who imports has sealed it (ImportInv). *)
(***************************************************************************)
EXTENDS RuntimeCache, TLAPS

USE CacheConstants, NoneIsNoTree

-----------------------------------------------------------------------------
(* Trees *)

LEMMA EmptyType ==
  /\ Empty \in Tree /\ Empty.provenBy = {} /\ Empty.has = {}
  /\ \A whole \in BOOLEAN :
       /\ [Empty EXCEPT !.has = File, !.foul = ~whole] \in Tree
       /\ [Empty EXCEPT !.has = File, !.foul = ~whole].provenBy = {}
BY DEF Empty, Tree

\* A thread's proof changes nothing else of a tree.
LEMMA ProvenTree ==
  ASSUME slot \in Tree, NEW t \in Thread
  PROVE  /\ ProvenTo(t) \in Tree /\ ProvenTo(t).provenBy = slot.provenBy \cup {t}
         /\ ProvenTo(t).sealed = slot.sealed
         /\ Verifies(ProvenTo(t)) <=> Verifies(slot)
BY DEF Tree, ProvenTo, Verifies

\* Nobody comes to judge against a tree, to seal it or to import from it.
NoneArrives ==
    \A u \in Thread : pc'[u] \in {"aside", "seal", "exec"} => pc'[u] = pc[u]

Arrives(t, place) ==
    /\ pc'[t] = place
    /\ \A u \in Thread \ {t} : pc'[u] \in {"aside", "seal", "exec"} => pc'[u] = pc[u]

\* What a step makes of the slot: nothing ...
Leaves == NoneArrives /\ slot' = slot /\ meddles' >= meddles

Condemns(t) ==
    /\ Arrives(t, "aside") /\ slot' = slot /\ meddles' = meddles
    /\ slot # None => ~Verifies(slot)

\* ... the same tree, purged, proven or sealed ...
Purges ==
    /\ NoneArrives /\ meddles' = meddles
    /\ slot # None /\ slot' = [slot EXCEPT !.bytecode = FALSE]

Proves(t) ==
    /\ pc[t] \in {"judge", "publish"} /\ Arrives(t, "seal") /\ meddles' = meddles
    /\ slot # None /\ Verifies(slot) /\ slot' = ProvenTo(t)

Seals(t) ==
    /\ pc[t] = "seal" /\ Arrives(t, "exec") /\ meddles' = meddles
    /\ slot # None /\ slot' = [slot EXCEPT !.sealed = TRUE]

\* ... another tree, or none ...
Publishes(t) ==
    /\ pc[t] = "publish" /\ Arrives(t, "seal") /\ meddles' = meddles
    /\ slot # None => slot.has = {}
    /\ slot' \in Tree /\ Verifies(slot') /\ slot'.provenBy = {t}

Removes(t) ==
    /\ pc[t] = "aside" /\ NoneArrives /\ meddles' = meddles /\ slot' = None

\* ... or a tree of which nothing is proven.
Spoils ==
    /\ NoneArrives
    /\ slot' # None => slot' \in Tree /\ slot'.provenBy = {}
    /\ \/ meddles' = meddles + 1
       \/ slot # None /\ ~slot.sealed /\ slot' # None /\ meddles' = meddles
            /\ \E t \in Thread : pc[t] = "exec"

Moves ==
    \/ Leaves \/ Purges \/ Spoils
    \/ \E t \in Thread : \/ Condemns(t) \/ Proves(t) \/ Seals(t)
                          \/ Publishes(t) \/ Removes(t)

-----------------------------------------------------------------------------
(* Types, and the lock *)

Critical == {"purge", "judge", "aside", "fill", "publish", "seal"}

\* A staging tree is a tree while it is filled, and was read back whole by
\* the time it is published.
StagingInv ==
    \A t \in Thread :
        /\ pc[t] = "fill" => staging[t] \in Tree /\ staging[t].provenBy = {}
        /\ pc[t] = "publish" =>
             staging[t] \in Tree /\ Verifies(staging[t]) /\ staging[t].provenBy = {t}

LockInv == \A t \in Thread : pc[t] \in Critical => flock = t

\* Until a tree is read back, another may be built.
AttemptInv ==
    \A t \in Thread :
        pc[t] \in {"lock", "purge", "judge", "aside", "fill"} => attempt[t] < MaxAttempts

Base == TypeOK /\ StagingInv /\ LockInv /\ AttemptInv

LEMMA RaiseBase ==
  ASSUME Base, NEW t \in Thread, Raise(t),
         slot' \in Tree \cup {None}, meddles' \in Nat,
         UNCHANGED <<session, loaded, kills, sessions>>
  PROVE  Base'
<1>1. TypeOK'
  BY DEF Base, TypeOK, Raise, Goto, Keep, Pc
<1>2. pc'[t] = "sweep" /\ \A u \in Thread \ {t} :
        pc'[u] = pc[u] /\ staging'[u] = staging[u] /\ (pc[u] \in Critical => flock' = flock)
  BY DEF Base, TypeOK, LockInv, Raise, Goto
<1>3. StagingInv'
  BY <1>2 DEF Base, StagingInv, Verifies
<1>4. LockInv'
  BY <1>2 DEF Base, LockInv, Critical
<1>5. AttemptInv'
  BY <1>2 DEF Base, AttemptInv, Raise, Keep
<1> QED
  BY <1>1, <1>3, <1>4, <1>5 DEF Base

\* A step that moves one thread to a place where it has no staging tree.
LEMMA MoveBase ==
  ASSUME Base, NEW t \in Thread, NEW place \in Pc \ {"fill", "publish"}, Goto(t, place),
         slot' \in Tree \cup {None}, staging' \in [Thread -> Tree \cup {None}],
         \A u \in Thread \ {t} : staging'[u] = staging[u],
         session' \in [Process -> Thread \cup {Nobody}],
         loaded' \in [Process -> SUBSET Unit],
         todo' \in [Thread -> SUBSET File], got' \in [Thread -> SUBSET File],
         attempt' \in [Thread -> 0..MaxAttempts],
         \A u \in Thread \ {t} : attempt'[u] = attempt[u],
         place \in {"lock", "purge", "judge", "aside"} => attempt'[t] < MaxAttempts,
         meddles' \in Nat, kills' \in Nat, sessions' \in Nat,
         \/ flock' = flock /\ (place \in Critical => flock = t)
         \/ flock = Nobody /\ flock' = t
         \/ flock = t /\ flock' = Nobody /\ place \notin Critical
  PROVE  Base'
<1>1. pc' \in [Thread -> Pc] /\ pc'[t] = place /\ \A u \in Thread \ {t} : pc'[u] = pc[u]
  BY DEF Base, TypeOK, Goto
<1>2. TypeOK'
  BY <1>1 DEF Base, TypeOK
<1>3. StagingInv'
  BY <1>1 DEF Base, StagingInv, Verifies
<1>4. LockInv'
  BY <1>1 DEF Base, LockInv, Critical
<1>5. AttemptInv'
  BY <1>1 DEF Base, AttemptInv
<1> QED
  BY <1>2, <1>3, <1>4, <1>5 DEF Base

LEMMA SessionMoves ==
  ASSUME Base, NEW t \in Thread, BeginSession(t) \/ BeginImport(t) \/ EndSession(t)
  PROVE  Base' /\ Moves
<1>0. PICK place \in {"open", "lock", "idle"} :
        Goto(t, place) /\ (place = "lock" => BeginImport(t))
  BY DEF BeginSession, BeginImport, EndSession
<1>1. /\ slot' \in Tree \cup {None} /\ staging' \in [Thread -> Tree \cup {None}]
      /\ \A u \in Thread \ {t} : staging'[u] = staging[u]
      /\ flock' = flock
  BY DEF Base, TypeOK, BeginSession, BeginImport, EndSession
<1>2. /\ session' \in [Process -> Thread \cup {Nobody}]
      /\ loaded' \in [Process -> SUBSET Unit]
      /\ todo' \in [Thread -> SUBSET File] /\ got' \in [Thread -> SUBSET File]
  BY DEF Base, TypeOK, BeginSession, BeginImport, EndSession, bounds
<1>3. /\ attempt' \in [Thread -> 0..MaxAttempts]
      /\ \A u \in Thread \ {t} : attempt'[u] = attempt[u]
      /\ BeginImport(t) => attempt'[t] < MaxAttempts
  BY DEF Base, TypeOK, BeginSession, BeginImport, EndSession
<1>4. meddles' \in Nat /\ kills' \in Nat /\ sessions' \in Nat
  BY DEF Base, TypeOK, BeginSession, BeginImport, EndSession, bounds
<1>5. place \in Pc \ {"fill", "publish"} /\ place \notin Critical
  BY DEF Pc, Critical
<1>6. Base'
  <2>1. place \in {"lock", "purge", "judge", "aside"} => attempt'[t] < MaxAttempts
    BY <1>0, <1>3
  <2> QED
    BY <1>0, <1>1, <1>2, <1>3, <1>4, <1>5, <2>1, MoveBase
<1>7. slot' = slot /\ meddles' = meddles
  BY DEF BeginSession, BeginImport, EndSession, bounds
<1>8. NoneArrives
  BY <1>0 DEF NoneArrives, Goto, Base, TypeOK
<1> QED
  BY <1>6, <1>7, <1>8 DEF Moves, Leaves, Base, TypeOK

LEMMA RaiseArrives ==
  ASSUME Base, NEW t \in Thread, Raise(t)
  PROVE  NoneArrives
BY DEF Base, TypeOK, Raise, Goto, NoneArrives

LEMMA LockMoves ==
  ASSUME Base, NEW t \in Thread, TakeSlotLock(t)
  PROVE  Base' /\ Moves
<1>1. Goto(t, "purge") /\ slot' = slot /\ meddles' = meddles /\ flock' = t /\ flock = Nobody
  BY DEF TakeSlotLock, SlotFree, bounds
<1>2. Base'
  <2>1. attempt[t] < MaxAttempts
    BY DEF TakeSlotLock, At, Base, AttemptInv
  <2> QED
    BY <1>1, <2>1, MoveBase DEF TakeSlotLock, Base, TypeOK, Pc, bounds
<1>3. NoneArrives
  BY <1>1 DEF NoneArrives, Goto, Base, TypeOK
<1> QED
  BY <1>1, <1>2, <1>3 DEF Moves, Leaves, Base, TypeOK

LEMMA PurgeMoves ==
  ASSUME Base, NEW t \in Thread, Purge(t)
  PROVE  Base' /\ Moves
<1>1. /\ pc[t] = "purge" /\ flock = t /\ attempt[t] < MaxAttempts
      /\ UNCHANGED <<session, loaded, kills, sessions>>
  BY DEF Purge, At, Base, LockInv, AttemptInv, Critical
<1>2. slot' \in Tree \cup {None}
  BY DEF Purge, Base, TypeOK, Tree
<1>3. CASE Raise(t) /\ Fault /\ slot' = slot
  <2>1. meddles' \in Nat /\ meddles' >= meddles
    BY <1>3 DEF Fault, Base, TypeOK
  <2> QED
    BY <1>1, <1>2, <1>3, <2>1, RaiseBase, RaiseArrives DEF Moves, Leaves
<1>4. CASE Goto(t, "judge") /\ Keep /\ UNCHANGED <<staging, flock, meddles>>
           /\ slot' = IF slot = None THEN None ELSE [slot EXCEPT !.bytecode = FALSE]
  <2>1. Base'
    BY <1>1, <1>2, <1>4, MoveBase DEF Base, TypeOK, Pc, Keep
  <2>2. NoneArrives
    BY <1>4 DEF NoneArrives, Goto, Base, TypeOK
  <2>3. meddles' >= meddles
    BY <1>4 DEF Base, TypeOK
  <2> QED
    BY <1>4, <2>1, <2>2, <2>3 DEF Moves, Leaves, Purges
<1> QED
  BY <1>3, <1>4 DEF Purge

\* A thread that starts or goes on to fill a tree of which nothing is proven.
LEMMA FillBase ==
  ASSUME Base, NEW t \in Thread, pc' \in [Thread -> Pc], pc'[t] = "fill",
         \A u \in Thread \ {t} : pc'[u] = pc[u] /\ staging'[u] = staging[u],
         staging' \in [Thread -> Tree \cup {None}],
         staging'[t] \in Tree, staging'[t].provenBy = {},
         slot' \in Tree \cup {None}, meddles' \in Nat, flock = t,
         attempt[t] < MaxAttempts,
         Keep, UNCHANGED <<flock, session, loaded, kills, sessions>>
  PROVE  Base' /\ NoneArrives
<1>1. TypeOK'
  BY DEF Base, TypeOK, Keep
<1>2. StagingInv'
  BY DEF Base, StagingInv, Verifies
<1>3. LockInv'
  BY DEF Base, LockInv, Critical
<1>4. AttemptInv'
  BY DEF Base, AttemptInv, Keep
<1> QED
  BY <1>1, <1>2, <1>3, <1>4 DEF Base, NoneArrives

LEMMA JudgeMoves ==
  ASSUME Base, NEW t \in Thread, Judge(t)
  PROVE  Base' /\ Moves
<1>1. /\ pc[t] = "judge" /\ flock = t /\ Keep /\ UNCHANGED <<flock, session, loaded, bounds>>
      /\ meddles' = meddles /\ attempt[t] < MaxAttempts
  BY DEF Judge, At, Base, LockInv, AttemptInv, Critical, bounds
<1>2. CASE slot = None /\ staging' = [staging EXCEPT ![t] = Empty] /\ Goto(t, "fill") /\ slot' = slot
  <2>1. /\ pc'[t] = "fill" /\ pc' \in [Thread -> Pc]
        /\ \A u \in Thread \ {t} : pc'[u] = pc[u]
    BY <1>2 DEF Goto, Base, TypeOK, Pc
  <2>2. /\ staging' \in [Thread -> Tree \cup {None}] /\ staging'[t] = Empty
        /\ \A u \in Thread \ {t} : staging'[u] = staging[u]
    BY <1>2, EmptyType DEF Base, TypeOK
  <2>3. slot' \in Tree \cup {None} /\ meddles' \in Nat
    BY <1>1, <1>2 DEF Base, TypeOK
  <2>4. Base' /\ NoneArrives
    BY <1>1, <1>2, <2>1, <2>2, <2>3, EmptyType, FillBase DEF bounds
  <2> QED
    BY <1>1, <1>2, <2>4 DEF Base, TypeOK, Moves, Leaves
<1>3. CASE slot # None /\ Verifies(slot) /\ slot' = ProvenTo(t) /\ Goto(t, "seal")
           /\ UNCHANGED staging
  <2>1. slot' \in Tree
    BY <1>3, ProvenTree DEF Base, TypeOK
  <2>2. Base'
    BY <1>1, <1>3, <2>1, MoveBase DEF Base, TypeOK, Pc, Keep, bounds
  <2>3. Arrives(t, "seal")
    BY <1>3 DEF Arrives, Goto, Base, TypeOK
  <2>4. Proves(t)
    BY <1>1, <1>3, <2>3 DEF Proves
  <2> QED
    BY <2>2, <2>4 DEF Moves
<1>4. CASE slot # None /\ ~Verifies(slot) /\ Goto(t, "aside") /\ UNCHANGED <<slot, staging>>
  <2>1. Base'
    BY <1>1, <1>4, MoveBase DEF Base, TypeOK, Pc, Keep, bounds
  <2>2. Arrives(t, "aside")
    BY <1>4 DEF Arrives, Goto, Base, TypeOK
  <2>3. Condemns(t)
    BY <1>1, <1>4, <2>2 DEF Condemns
  <2> QED
    BY <2>1, <2>3 DEF Moves
<1> QED
  BY <1>2, <1>3, <1>4 DEF Judge

LEMMA AsideMoves ==
  ASSUME Base, NEW t \in Thread, SetAside(t)
  PROVE  Base' /\ Moves
<1>1. /\ pc[t] = "aside" /\ flock = t /\ attempt[t] < MaxAttempts
      /\ UNCHANGED <<session, loaded, kills, sessions>>
  BY DEF SetAside, At, Base, LockInv, AttemptInv, Critical
<1>2. CASE /\ slot # None /\ slot' = None /\ staging' = [staging EXCEPT ![t] = Empty]
           /\ Goto(t, "fill") /\ Keep /\ UNCHANGED <<flock, meddles>>
  <2>1. /\ pc'[t] = "fill" /\ pc' \in [Thread -> Pc]
        /\ \A u \in Thread \ {t} : pc'[u] = pc[u]
    BY <1>2 DEF Goto, Base, TypeOK, Pc
  <2>2. /\ staging' \in [Thread -> Tree \cup {None}] /\ staging'[t] = Empty
        /\ \A u \in Thread \ {t} : staging'[u] = staging[u]
    BY <1>2, EmptyType DEF Base, TypeOK
  <2>3. meddles' \in Nat
    BY <1>2 DEF Base, TypeOK
  <2>4. Base' /\ NoneArrives
    BY <1>1, <1>2, <2>1, <2>2, <2>3, EmptyType, FillBase
  <2>5. Removes(t)
    BY <1>1, <1>2, <2>4 DEF Removes
  <2> QED
    BY <2>4, <2>5 DEF Moves
<1>3. CASE (slot = None \/ Fault) /\ Raise(t) /\ slot' = slot
           /\ (slot = None => UNCHANGED meddles)
  <2>1. meddles' \in Nat /\ meddles' >= meddles
    BY <1>3 DEF Fault, Base, TypeOK
  <2>2. slot' \in Tree \cup {None}
    BY <1>3 DEF Base, TypeOK
  <2> QED
    BY <1>1, <1>3, <2>1, <2>2, RaiseBase, RaiseArrives DEF Moves, Leaves
<1> QED
  BY <1>2, <1>3 DEF SetAside

LEMMA FillMoves ==
  ASSUME Base, NEW t \in Thread, NEW f \in File, Fill(t, f)
  PROVE  Base' /\ Moves
<1>1. /\ pc[t] = "fill" /\ flock = t /\ slot' = slot
      /\ UNCHANGED <<session, loaded, kills, sessions>>
      /\ staging[t] \in Tree /\ staging[t].provenBy = {} /\ attempt[t] < MaxAttempts
  BY DEF Fill, At, Base, LockInv, StagingInv, AttemptInv, Critical
<1>2. slot' \in Tree \cup {None} /\ meddles' \in Nat /\ meddles' >= meddles
  BY <1>1 DEF Fill, Fault, Base, TypeOK
<1>3. CASE Raise(t)
  BY <1>1, <1>2, <1>3, RaiseBase, RaiseArrives DEF Moves, Leaves
<1>4. CASE /\ Keep /\ UNCHANGED <<pc, flock>>
           /\ \/ staging' = [staging EXCEPT ![t].has = @ \cup {f}]
              \/ staging' = [staging EXCEPT ![t].has = @ \cup {f}, ![t].foul = TRUE]
  <2>1. PICK tree \in Tree : tree.provenBy = {} /\ staging' = [staging EXCEPT ![t] = tree]
    <3>1. /\ [staging[t] EXCEPT !.has = @ \cup {f}] \in Tree
          /\ [staging[t] EXCEPT !.has = @ \cup {f}].provenBy = {}
          /\ [staging[t] EXCEPT !.has = @ \cup {f}, !.foul = TRUE] \in Tree
          /\ [staging[t] EXCEPT !.has = @ \cup {f}, !.foul = TRUE].provenBy = {}
      BY <1>1 DEF Tree
    <3>2. \/ staging' = [staging EXCEPT ![t] = [staging[t] EXCEPT !.has = @ \cup {f}]]
          \/ staging' = [staging EXCEPT ![t] = [staging[t] EXCEPT !.has = @ \cup {f}, !.foul = TRUE]]
      BY <1>4 DEF Base, TypeOK
    <3> QED
      BY <3>1, <3>2
  <2>2. /\ staging' \in [Thread -> Tree \cup {None}]
        /\ staging'[t] \in Tree /\ staging'[t].provenBy = {}
        /\ \A u \in Thread \ {t} : staging'[u] = staging[u]
    BY <2>1 DEF Base, TypeOK
  <2>3. pc' \in [Thread -> Pc] /\ pc'[t] = "fill" /\ \A u \in Thread \ {t} : pc'[u] = pc[u]
    BY <1>1, <1>4 DEF Base, TypeOK
  <2> QED
    BY <1>1, <1>2, <1>4, <2>2, <2>3, FillBase DEF Moves, Leaves
<1> QED
  BY <1>3, <1>4 DEF Fill

LEMMA CheckMoves ==
  ASSUME Base, NEW t \in Thread, CheckStaging(t)
  PROVE  Base' /\ Moves
<1>1. /\ pc[t] = "fill" /\ flock = t /\ staging[t] \in Tree
      /\ UNCHANGED <<slot, session, loaded, todo, got, bounds>>
      /\ attempt' = [attempt EXCEPT ![t] = @ + 1] /\ attempt[t] < MaxAttempts
  BY DEF CheckStaging, At, Base, LockInv, StagingInv, AttemptInv, Critical
<1>2. /\ attempt' \in [Thread -> 0..MaxAttempts] /\ attempt'[t] = attempt[t] + 1
      /\ \A u \in Thread \ {t} : attempt'[u] = attempt[u]
  BY <1>1 DEF Base, TypeOK
<1>3. meddles' \in Nat /\ meddles' >= meddles
  BY <1>1 DEF Base, TypeOK, bounds
<1>4. CASE /\ Filled(t) /\ staging' = [staging EXCEPT ![t].provenBy = {t}]
           /\ Goto(t, "publish") /\ flock' = flock
  <2>1. /\ pc'[t] = "publish" /\ pc' \in [Thread -> Pc]
        /\ \A u \in Thread \ {t} : pc'[u] = pc[u]
    BY <1>4 DEF Goto, Base, TypeOK, Pc
  <2>2. /\ [staging[t] EXCEPT !.provenBy = {t}] \in Tree
        /\ [staging[t] EXCEPT !.provenBy = {t}].provenBy = {t}
        /\ Verifies([staging[t] EXCEPT !.provenBy = {t}])
    BY <1>1, <1>4 DEF Tree, Filled, Verifies
  <2>3. staging' = [staging EXCEPT ![t] = [staging[t] EXCEPT !.provenBy = {t}]]
    BY <1>4 DEF Base, TypeOK
  <2>4. /\ staging' \in [Thread -> Tree \cup {None}]
        /\ staging'[t] = [staging[t] EXCEPT !.provenBy = {t}]
        /\ \A u \in Thread \ {t} : staging'[u] = staging[u]
    BY <2>2, <2>3 DEF Base, TypeOK
  <2>5. TypeOK'
    BY <1>1, <1>2, <1>4, <2>1, <2>4 DEF Base, TypeOK, bounds
  <2>6. StagingInv'
    BY <2>1, <2>2, <2>4 DEF Base, StagingInv, Verifies
  <2>7. LockInv'
    BY <1>1, <1>4, <2>1 DEF Base, LockInv, Critical
  <2>8. AttemptInv'
    BY <1>2, <2>1 DEF Base, AttemptInv
  <2>9. NoneArrives
    BY <2>1 DEF NoneArrives
  <2> QED
    BY <1>1, <1>3, <2>5, <2>6, <2>7, <2>8, <2>9 DEF Base, Moves, Leaves
<1>5. CASE /\ staging' = [staging EXCEPT ![t] = None]
           /\ \/ Goto(t, "purge") /\ flock' = flock /\ attempt[t] + 1 < MaxAttempts
              \/ Goto(t, "sweep") /\ flock' = Nobody
  <2>1. Base'
    <3>1. /\ staging' \in [Thread -> Tree \cup {None}]
          /\ \A u \in Thread \ {t} : staging'[u] = staging[u]
      BY <1>5 DEF Base, TypeOK
    <3>2. "purge" \in Pc \ {"fill", "publish"} /\ "sweep" \in Pc \ {"fill", "publish"}
          /\ "sweep" \notin Critical
      BY DEF Pc, Critical
    <3> QED
      BY <1>1, <1>2, <1>5, <3>1, <3>2, MoveBase DEF Base, TypeOK, bounds
  <2>2. NoneArrives
    BY <1>5 DEF NoneArrives, Goto, Base, TypeOK
  <2> QED
    BY <1>1, <1>3, <2>1, <2>2 DEF Moves, Leaves
<1> QED
  BY <1>1, <1>4, <1>5 DEF CheckStaging

LEMMA PublishMoves ==
  ASSUME Base, NEW t \in Thread, Publish(t)
  PROVE  Base' /\ Moves
<1>1. /\ pc[t] = "publish" /\ flock = t
      /\ UNCHANGED <<session, loaded, bounds>> /\ meddles' = meddles
      /\ staging[t] \in Tree /\ Verifies(staging[t]) /\ staging[t].provenBy = {t}
  BY DEF Publish, At, Base, LockInv, StagingInv, Critical, bounds
<1>2. CASE ~Vacant /\ ~Verifies(slot) /\ Raise(t) /\ slot' = slot
  BY <1>1, <1>2, RaiseBase, RaiseArrives DEF Moves, Leaves, Base, TypeOK, bounds
<1>3. CASE /\ staging' = [staging EXCEPT ![t] = None]
           /\ Goto(t, "seal") /\ Keep /\ flock' = flock
           /\ \/ Vacant /\ slot' = staging[t]
              \/ ~Vacant /\ Verifies(slot) /\ slot' = ProvenTo(t)
  <2>1. /\ staging' \in [Thread -> Tree \cup {None}]
        /\ \A u \in Thread \ {t} : staging'[u] = staging[u]
    BY <1>3 DEF Base, TypeOK
  <2>2. slot' \in Tree
    <3>1. CASE slot' = staging[t]
      BY <1>1, <3>1
    <3>2. CASE ~Vacant /\ slot' = ProvenTo(t)
      <4>1. slot \in Tree
        BY <3>2 DEF Base, TypeOK, Vacant
      <4> QED
        BY <3>2, <4>1, ProvenTree
    <3> QED
      BY <1>3, <3>1, <3>2
  <2>3. Base'
    BY <1>1, <1>3, <2>1, <2>2, MoveBase DEF Base, TypeOK, Pc, Keep, bounds
  <2>4. Arrives(t, "seal")
    BY <1>3 DEF Arrives, Goto, Base, TypeOK
  <2>5. Publishes(t) \/ Proves(t)
    BY <1>1, <1>3, <2>2, <2>4 DEF Publishes, Proves, Vacant
  <2> QED
    BY <2>3, <2>5 DEF Moves
<1> QED
  BY <1>2, <1>3 DEF Publish

LEMMA SealMoves ==
  ASSUME Base, NEW t \in Thread, Seal(t)
  PROVE  Base' /\ Moves
<1>1. /\ pc[t] = "seal" /\ flock = t
      /\ UNCHANGED <<session, loaded, kills, sessions>>
  BY DEF Seal, At, Base, LockInv, Critical
<1>2. CASE /\ slot # None /\ slot' = Sealed(t)
           /\ flock' = (IF flock = t THEN Nobody ELSE flock)
           /\ Goto(t, "exec") /\ Keep /\ UNCHANGED <<staging, meddles>>
  <2>1. slot' \in Tree
    BY <1>2 DEF Base, TypeOK, Sealed, Tree
  <2>2. "exec" \in Pc \ {"fill", "publish"} /\ "exec" \notin Critical
    BY DEF Pc, Critical
  <2>3. Base'
    BY <1>1, <1>2, <2>1, <2>2, MoveBase DEF Base, TypeOK, Keep
  <2>4. Arrives(t, "exec")
    BY <1>2 DEF Arrives, Goto, Base, TypeOK
  <2>5. Seals(t)
    BY <1>1, <1>2, <2>4 DEF Seals, Sealed
  <2> QED
    BY <2>3, <2>5 DEF Moves
<1>3. CASE Raise(t) /\ slot' = slot /\ (meddles' = meddles \/ Fault)
  <2>1. meddles' \in Nat /\ meddles' >= meddles
    BY <1>3 DEF Fault, Base, TypeOK
  <2>2. slot' \in Tree \cup {None}
    BY <1>3 DEF Base, TypeOK
  <2> QED
    BY <1>1, <1>3, <2>1, <2>2, RaiseBase, RaiseArrives DEF Moves, Leaves
<1> QED
  BY <1>2, <1>3 DEF Seal

LEMMA ImportMoves ==
  ASSUME Base, NEW t \in Thread, NEW f \in File, Import(t, f) \/ FailImport(t, f)
  PROVE  Base' /\ Moves
<1>1. /\ pc[t] = "exec" /\ UNCHANGED <<staging, flock, session, attempt, bounds>>
      /\ meddles' = meddles
  BY DEF Import, FailImport, At, bounds
<1>2. PICK place \in {"open", "sweep"} : Goto(t, place)
  BY DEF Import, FailImport
<1>3. /\ todo' \in [Thread -> SUBSET File] /\ got' \in [Thread -> SUBSET File]
      /\ loaded' \in [Process -> SUBSET Unit]
  BY DEF Base, TypeOK, Import, FailImport, LeftLoaded, Unit
<1>4. \/ slot' = slot
      \/ /\ slot # None /\ ~slot.sealed
         /\ slot' = [slot EXCEPT !.bytecode = TRUE, !.provenBy = {}]
  BY DEF Import, FailImport
<1>5. slot' \in Tree \cup {None}
  BY <1>4 DEF Base, TypeOK, Tree
<1>6. place \in Pc \ {"fill", "publish"} /\ place \notin Critical
  BY DEF Pc, Critical
<1>7. Base'
  BY <1>1, <1>2, <1>3, <1>5, <1>6, MoveBase DEF Base, TypeOK, bounds
<1>8. NoneArrives
  BY <1>2 DEF NoneArrives, Goto, Base, TypeOK
<1>9. CASE slot' = slot
  BY <1>1, <1>7, <1>8, <1>9 DEF Moves, Leaves, Base, TypeOK
<1>10. CASE /\ slot # None /\ ~slot.sealed
            /\ slot' = [slot EXCEPT !.bytecode = TRUE, !.provenBy = {}]
  <2>1. slot' \in Tree /\ slot'.provenBy = {} /\ slot' # None
    BY <1>10 DEF Base, TypeOK, Tree
  <2>2. Spoils
    BY <1>1, <1>8, <1>10, <2>1 DEF Spoils
  <2> QED
    BY <1>7, <2>2 DEF Moves
<1> QED
  BY <1>4, <1>9, <1>10

LEMMA KillMoves ==
  ASSUME Base, NEW p \in Process, Kill(p)
  PROVE  Base' /\ Moves
<1> DEFINE Dead == {t \in Thread : ProcessOf[t] = p}
<1>1. /\ pc' = [t \in Thread |-> IF t \in Dead THEN "idle" ELSE pc[t]]
      /\ staging' = [t \in Thread |-> IF t \in Dead THEN None ELSE staging[t]]
      /\ todo' = [t \in Thread |-> IF t \in Dead THEN {} ELSE todo[t]]
      /\ got' = [t \in Thread |-> IF t \in Dead THEN {} ELSE got[t]]
      /\ flock' = IF flock \in Dead THEN Nobody ELSE flock
      /\ loaded' = [loaded EXCEPT ![p] = {}] /\ session' = [session EXCEPT ![p] = Nobody]
      /\ UNCHANGED <<slot, attempt, meddles, sessions>> /\ kills' = kills + 1
  BY DEF Kill, FreedWith
<1> HIDE DEF Dead
<1>2. /\ pc' \in [Thread -> Pc] /\ staging' \in [Thread -> Tree \cup {None}]
      /\ todo' \in [Thread -> SUBSET File] /\ got' \in [Thread -> SUBSET File]
  BY <1>1 DEF Base, TypeOK, Pc
<1>3. TypeOK'
  BY <1>1, <1>2 DEF Base, TypeOK
<1>4. StagingInv'
  BY <1>1 DEF Base, StagingInv, Verifies
<1>5. LockInv'
  BY <1>1 DEF Base, LockInv, Critical
<1>6. AttemptInv'
  BY <1>1 DEF Base, AttemptInv
<1>7. NoneArrives
  BY <1>1 DEF NoneArrives
<1> QED
  BY <1>1, <1>3, <1>4, <1>5, <1>6, <1>7 DEF Base, TypeOK, Moves, Leaves

LEMMA OutsideMoves ==
  ASSUME Base, Meddle \/ PublishElsewhere
  PROVE  Base' /\ Moves
<1>1. /\ UNCHANGED <<staging, flock, session, loaded, threads, kills, sessions>>
      /\ meddles' = meddles + 1
  BY DEF Meddle, PublishElsewhere, Fault
<1>2. slot' # None => slot' \in Tree /\ slot'.provenBy = {}
  <2>1. CASE PublishElsewhere
    BY <2>1, EmptyType DEF PublishElsewhere
  <2>2. CASE Meddle
    <3>1. slot \in Tree
      BY <2>2 DEF Meddle, Base, TypeOK
    <3>2. ASSUME NEW f \in File
          PROVE  /\ [slot EXCEPT !.has = @ \ {f}, !.provenBy = {}] \in Tree
                 /\ [slot EXCEPT !.has = @ \ {f}, !.provenBy = {}].provenBy = {}
      BY <3>1 DEF Tree
    <3>3. /\ [slot EXCEPT !.foul = TRUE, !.provenBy = {}] \in Tree
          /\ [slot EXCEPT !.foul = TRUE, !.provenBy = {}].provenBy = {}
          /\ [slot EXCEPT !.bytecode = TRUE, !.provenBy = {}] \in Tree
          /\ [slot EXCEPT !.bytecode = TRUE, !.provenBy = {}].provenBy = {}
      BY <3>1 DEF Tree
    <3>4. slot.has \subseteq File
      BY <3>1 DEF Tree
    <3> QED
      BY <2>2, <3>2, <3>3, <3>4 DEF Meddle
  <2> QED
    BY <2>1, <2>2
<1>3. UNCHANGED <<pc, todo, got, attempt>>
  BY <1>1 DEF threads
<1>4. TypeOK'
  BY <1>1, <1>2, <1>3 DEF Base, TypeOK
<1>5. StagingInv' /\ LockInv' /\ AttemptInv'
  BY <1>1, <1>3 DEF Base, StagingInv, LockInv, AttemptInv, Verifies
<1>6. Spoils
  BY <1>1, <1>2, <1>3 DEF Spoils, NoneArrives
<1> QED
  BY <1>4, <1>5, <1>6 DEF Base, Moves

LEMMA StepMoves == Base /\ [Next]_vars => Base' /\ Moves
<1> SUFFICES ASSUME Base, [Next]_vars PROVE Base' /\ Moves
  OBVIOUS
<1>1. ASSUME NEW t \in Thread, Works(t)
      PROVE  Base' /\ Moves
  BY <1>1, SessionMoves, LockMoves, PurgeMoves, JudgeMoves, AsideMoves, FillMoves,
     CheckMoves, PublishMoves, SealMoves, ImportMoves DEF Works
<1>2. CASE UNCHANGED vars
  <2>1. Base'
    BY <1>2 DEF Base, TypeOK, StagingInv, LockInv, AttemptInv, Verifies, vars, threads, bounds
  <2>2. Leaves
    BY <1>2 DEF Leaves, NoneArrives, vars, threads, bounds, Base, TypeOK
  <2> QED
    BY <2>1, <2>2 DEF Moves
<1> QED
  BY <1>1, <1>2, SessionMoves, KillMoves, OutsideMoves DEF Next

LEMMA BaseInit == Init => Base
<1> SUFFICES ASSUME Init PROVE Base
  OBVIOUS
<1>1. TypeOK
  BY DEF Init, TypeOK, Pc
<1>2. StagingInv /\ LockInv /\ AttemptInv
  BY DEF Init, StagingInv, LockInv, AttemptInv, Critical
<1> QED
  BY <1>1, <1>2 DEF Base

\* Types, the holder of _slot_lock and the staging trees of materialize_revision.
THEOREM BaseInvariant == Spec => []Base
BY BaseInit, StepMoves, PTL DEF Spec

\* Trees, locks, staging directories and sessions keep their types, whatever
\* process of materialize_revision dies.
THEOREM TypeCorrect == Spec => []TypeOK
<1>1. Base => TypeOK
  BY DEF Base
<1> QED
  BY <1>1, BaseInvariant, PTL

-----------------------------------------------------------------------------
(* What is proven *)

ProvenInv == slot # None /\ slot.provenBy # {} => Verifies(slot)

\* Who condemned a tree still condemns it: nobody else proves one meanwhile.
AsideInv ==
    \A t \in Thread : pc[t] = "aside" => slot = None \/ slot.provenBy = {}

\* Who imports from a tree it proved imports from a sealed one, and on a host
\* that leaves the cache alone it has one to import from.
ImportInv ==
    \A t \in Thread :
        /\ pc[t] = "exec" /\ slot # None /\ t \in slot.provenBy => slot.sealed
        /\ pc[t] \in {"seal", "exec"} /\ meddles = 0
             => slot # None /\ t \in slot.provenBy

TreeInv == ProvenInv /\ AsideInv /\ ImportInv

LEMMA TreeStep == Base /\ TreeInv /\ Base' /\ Moves => TreeInv'
<1> SUFFICES ASSUME Base, TreeInv, Base', Moves PROVE TreeInv'
  OBVIOUS
<1>0. slot \in Tree \cup {None} /\ meddles \in Nat
  BY DEF Base, TypeOK
<1>1. CASE Leaves
  BY <1>0, <1>1 DEF Leaves, NoneArrives, TreeInv, ProvenInv, AsideInv, ImportInv, Base, TypeOK
<1>2. CASE Purges
  <2>1. /\ slot' # None /\ slot'.provenBy = slot.provenBy /\ slot'.sealed = slot.sealed
        /\ Verifies(slot) => Verifies(slot')
    BY <1>0, <1>2 DEF Purges, Tree, Verifies
  <2> QED
    BY <1>2, <2>1 DEF Purges, NoneArrives, TreeInv, ProvenInv, AsideInv, ImportInv
<1>3. CASE Spoils
  BY <1>0, <1>3 DEF Spoils, NoneArrives, TreeInv, ProvenInv, AsideInv, ImportInv
<1>4. ASSUME NEW t \in Thread, Condemns(t)
      PROVE  TreeInv'
  BY <1>4 DEF Condemns, Arrives, TreeInv, ProvenInv, AsideInv, ImportInv
<1>5. ASSUME NEW t \in Thread, Proves(t)
      PROVE  TreeInv'
  <2>1. slot \in Tree /\ \A u \in Thread : pc[u] # "aside" \/ u = t
    BY <1>0, <1>5 DEF Proves, Base, LockInv, Critical
  <2>2. /\ slot' # None /\ slot'.provenBy = slot.provenBy \cup {t}
        /\ slot'.sealed = slot.sealed /\ Verifies(slot')
    BY <1>5, <2>1, ProvenTree DEF Proves
  <2> QED
    BY <1>5, <2>1, <2>2 DEF Proves, Arrives, TreeInv, ProvenInv, AsideInv, ImportInv
<1>6. ASSUME NEW t \in Thread, Seals(t)
      PROVE  TreeInv'
  <2>1. slot \in Tree
    BY <1>0, <1>6 DEF Seals
  <2>2. /\ slot' # None /\ slot'.provenBy = slot.provenBy /\ slot'.sealed
        /\ Verifies(slot') <=> Verifies(slot)
    BY <1>6, <2>1 DEF Seals, Tree, Verifies
  <2> QED
    BY <1>6, <2>2 DEF Seals, Arrives, TreeInv, ProvenInv, AsideInv, ImportInv
<1>7. ASSUME NEW t \in Thread, Publishes(t)
      PROVE  TreeInv'
  <2>1. slot' # None /\ slot'.provenBy = {t} /\ Verifies(slot')
    BY <1>7 DEF Publishes
  <2>2. \A u \in Thread : pc[u] # "aside" \/ u = t
    BY <1>7 DEF Publishes, Base, LockInv, Critical
  \* An empty directory is no tree that anybody proved.
  <2>3. slot # None => slot.provenBy = {}
    BY <1>7 DEF Publishes, TreeInv, ProvenInv, Verifies
  <2> QED
    BY <1>7, <2>1, <2>2, <2>3 DEF Publishes, Arrives, TreeInv, ProvenInv, AsideInv, ImportInv
<1>8. ASSUME NEW t \in Thread, Removes(t)
      PROVE  TreeInv'
  BY <1>0, <1>8 DEF Removes, NoneArrives, TreeInv, ProvenInv, AsideInv, ImportInv
<1> QED
  BY <1>1, <1>2, <1>3, <1>4, <1>5, <1>6, <1>7, <1>8 DEF Moves

LEMMA TreeInit == Init => TreeInv
BY DEF Init, TreeInv, ProvenInv, AsideInv, ImportInv

\* What a builder of materialize_revision or an import session has judged of the
\* shared tree stays so for as long as it relies on it.
THEOREM TreeInvariant == Spec => []TreeInv
BY BaseInvariant, TreeInit, TreeStep, StepMoves, PTL DEF Spec

\* Whatever builders die, fail or meet each other, code is imported from a
\* verified and sealed tree.
THEOREM ImportsStayProven == Spec => []ImportsProven
<1>1. TreeInv => ImportsProven
  BY DEF TreeInv, ProvenInv, ImportInv, ImportsProven, At
<1> QED
  BY <1>1, TreeInvariant, PTL

\* _set_aside_corrupt takes no tree a builder of this host proved.
THEOREM GoodTreesStay == Spec => GoodTreeStays
<1>1. Base /\ TreeInv /\ Moves
        => (slot # None /\ slot.provenBy # {} /\ meddles' = meddles => slot' # None)
  <2> SUFFICES ASSUME Base, TreeInv, Moves, slot # None, slot.provenBy # {},
                      meddles' = meddles, slot' = None
               PROVE  FALSE
    OBVIOUS
  <2>0. slot \in Tree /\ meddles \in Nat
    BY DEF Base, TypeOK
  <2>1. ~Purges /\ \A t \in Thread : ~Seals(t) /\ ~Proves(t)
    <3>1. /\ [slot EXCEPT !.bytecode = FALSE] \in Tree
          /\ [slot EXCEPT !.sealed = TRUE] \in Tree
      BY <2>0 DEF Tree
    <3>2. ASSUME NEW t \in Thread, Proves(t)
          PROVE  FALSE
      BY <2>0, <3>2, ProvenTree, NoneIsNoTree DEF Proves
    <3>3. ~Purges
      BY <3>1, NoneIsNoTree DEF Purges
    <3>4. \A t \in Thread : ~Seals(t)
      BY <3>1, NoneIsNoTree DEF Seals
    <3> QED
      BY <3>2, <3>3, <3>4
  <2>2. ~Leaves /\ ~Spoils /\ \A t \in Thread : ~Condemns(t) /\ ~Publishes(t)
    BY <2>0 DEF Leaves, Spoils, Condemns, Publishes
  <2>3. \A t \in Thread : ~Removes(t)
    BY DEF Removes, TreeInv, AsideInv
  <2> QED
    BY <2>1, <2>2, <2>3 DEF Moves
<1>2. Base /\ TreeInv /\ [Next]_vars
        => [slot # None /\ slot.provenBy # {} /\ meddles' = meddles => slot' # None]_vars
  BY <1>1, StepMoves
<1> QED
  BY <1>2, BaseInvariant, TreeInvariant, PTL DEF Spec, GoodTreeStays

-----------------------------------------------------------------------------
(* Sessions *)

\* A process's revision lock is with the thread that is in a session.
SessionInv ==
    \A t \in Thread :
        /\ pc[t] # "idle" <=> session[ProcessOf[t]] = t
        /\ pc[t] = "idle" => got[t] = {}

LEMMA SessionStep ==
  ASSUME TypeOK, SessionInv, SessionsKeepModules, [Next]_vars
  PROVE  (SessionInv /\ SessionsKeepModules)'
<1>1. ASSUME NEW t \in Thread, pc[t] # "idle", pc' = [pc EXCEPT ![t] = pc'[t]],
             pc'[t] # "idle", UNCHANGED <<session, loaded, got>>
      PROVE  (SessionInv /\ SessionsKeepModules)'
  BY <1>1 DEF TypeOK, SessionInv, SessionsKeepModules
<1>2. ASSUME NEW t \in Thread, BeginSession(t)
      PROVE  (SessionInv /\ SessionsKeepModules)'
  BY <1>2 DEF TypeOK, SessionInv, SessionsKeepModules, BeginSession, At, Goto
<1>3. ASSUME NEW t \in Thread, EndSession(t)
      PROVE  (SessionInv /\ SessionsKeepModules)'
  BY <1>3 DEF TypeOK, SessionInv, SessionsKeepModules, EndSession, At, Goto
<1>4. ASSUME NEW t \in Thread, NEW f \in File, Import(t, f)
      PROVE  (SessionInv /\ SessionsKeepModules)'
  BY <1>4 DEF TypeOK, SessionInv, SessionsKeepModules, Import, At, Goto, Unit
<1>5. ASSUME NEW t \in Thread, NEW f \in File, FailImport(t, f)
      PROVE  (SessionInv /\ SessionsKeepModules)'
  BY <1>5 DEF TypeOK, SessionInv, SessionsKeepModules, FailImport, LeftLoaded, At, Goto
<1>6. ASSUME NEW p \in Process, Kill(p)
      PROVE  (SessionInv /\ SessionsKeepModules)'
  BY <1>6 DEF TypeOK, SessionInv, SessionsKeepModules, Kill
<1>7. ASSUME NEW t \in Thread,
             \/ BeginImport(t) \/ TakeSlotLock(t) \/ Purge(t) \/ Judge(t)
             \/ SetAside(t) \/ CheckStaging(t) \/ Publish(t) \/ Seal(t)
             \/ \E f \in File : Fill(t, f)
      PROVE  (SessionInv /\ SessionsKeepModules)'
  <2>1. UNCHANGED <<session, loaded, got>> /\ pc[t] # "idle"
    BY <1>7 DEF BeginImport, TakeSlotLock, Purge, Judge, SetAside, CheckStaging,
                Publish, Seal, Fill, Raise, Keep, At
  <2>2. pc' = [pc EXCEPT ![t] = pc'[t]] /\ pc'[t] # "idle"
    BY <1>7 DEF TypeOK, BeginImport, TakeSlotLock, Purge, Judge, SetAside, CheckStaging,
                Publish, Seal, Fill, Raise, Goto, At
  <2> QED
    BY <1>1, <2>1, <2>2
<1>8. ASSUME UNCHANGED <<pc, session, loaded, got>>
      PROVE  (SessionInv /\ SessionsKeepModules)'
  BY <1>8 DEF SessionInv, SessionsKeepModules
<1> QED
  BY <1>2, <1>3, <1>4, <1>5, <1>6, <1>7, <1>8
     DEF Next, Works, Meddle, PublishElsewhere, vars, threads

\* What a revision_import_session imported stays loaded until it ends, and
\* nothing after.
THEOREM ModulesKept == Spec => []SessionsKeepModules
<1>1. Init => SessionInv /\ SessionsKeepModules
  BY DEF Init, SessionInv, SessionsKeepModules
<1>2. TypeOK /\ SessionInv /\ SessionsKeepModules /\ [Next]_vars
        => (SessionInv /\ SessionsKeepModules)'
  BY SessionStep
<1> QED
  BY <1>1, <1>2, TypeCorrect, PTL DEF Spec
=============================================================================
