---------------------------- MODULE RuntimeCache ----------------------------
(***************************************************************************)
(* One revision's tree in the cache a host's processes share, and what     *)
(* they import from it: materialize_revision, import_script_file and       *)
(* unload_revision.                                                        *)
(*                                                                         *)
(* A thread holds its process's lock on the revision for a whole session   *)
(* of imports.  For each import it settles the slot under a file lock every *)
(* process honours, which the system frees when its holder dies.           *)
(***************************************************************************)
EXTENDS Naturals, FiniteSets

CONSTANTS
    Thread, Process, ProcessOf,
    File,          \* the manifest's entries, all of them script files
    Nobody, None,
    MaxAttempts,   \* staging trees one import may build
    MaxMeddles,    \* bound: changes others make to the slot, faults of the host
    MaxKills,      \* bound: processes killed
    MaxSessions    \* bound: sessions

ASSUME CacheConstants ==
    /\ ProcessOf \in [Thread -> Process] /\ File # {}
    /\ Nobody \notin Thread /\ MaxAttempts \in Nat \ {0}
    /\ MaxMeddles \in Nat /\ MaxKills \in Nat /\ MaxSessions \in Nat

VARIABLES
    slot,      \* the tree at the revision's path
    staging,   \* the tree each thread builds beside it
    flock,     \* the thread that holds the slot's file lock
    session,   \* the thread in each process that holds the revision's lock
    loaded,    \* the revision's modules in each process's sys.modules
    pc,
    todo,      \* the script files a session has left to import
    got,       \* those it imported
    attempt,   \* staging trees the import under way has built
    meddles, kills, sessions

threads == <<pc, todo, got, attempt>>
bounds  == <<meddles, kills, sessions>>
vars    == <<slot, staging, flock, session, loaded, threads, bounds>>

\* foul: an entry differs from the manifest, or is not in it.  provenBy: the
\* threads that verified this tree since anybody else touched it (history).
Tree == [has : SUBSET File, foul : BOOLEAN, bytecode : BOOLEAN,
         sealed : BOOLEAN, provenBy : SUBSET Thread]

ASSUME NoneIsNoTree == None \notin Tree

Unit == File \cup {"package"}

Pc == {"idle", "open", "lock", "purge", "judge", "aside", "fill", "publish",
       "seal", "exec", "sweep"}

TypeOK ==
    /\ slot \in Tree \cup {None} /\ staging \in [Thread -> Tree \cup {None}]
    /\ flock \in Thread \cup {Nobody}
    /\ session \in [Process -> Thread \cup {Nobody}]
    /\ loaded \in [Process -> SUBSET Unit]
    /\ pc \in [Thread -> Pc]
    /\ todo \in [Thread -> SUBSET File] /\ got \in [Thread -> SUBSET File]
    /\ attempt \in [Thread -> 0..MaxAttempts]
    /\ meddles \in Nat /\ kills \in Nat /\ sessions \in Nat

-----------------------------------------------------------------------------
Empty == [has |-> {}, foul |-> FALSE, bytecode |-> FALSE, sealed |-> FALSE,
          provenBy |-> {}]

\* Exactly the manifest's files.
Verifies(tree) == tree.has = File /\ ~tree.foul /\ ~tree.bytecode

At(t, place) == pc[t] = place

Goto(t, place) == pc' = [pc EXCEPT ![t] = place]

Keep == UNCHANGED <<todo, got, attempt>>

\* Something the host refuses: a write, a rename, a chmod.
Fault == meddles < MaxMeddles /\ meddles' = meddles + 1

\* The import raises: its staging tree goes, the file lock with it, and the
\* session ends.
Raise(t) ==
    /\ Goto(t, "sweep")
    /\ staging' = [staging EXCEPT ![t] = None]
    /\ flock' = IF flock = t THEN Nobody ELSE flock
    /\ Keep

-----------------------------------------------------------------------------
(* A session *)

BeginSession(t) ==
    /\ At(t, "idle") /\ session[ProcessOf[t]] = Nobody /\ sessions < MaxSessions
    /\ \E wanted \in (SUBSET File) \ {{}} : todo' = [todo EXCEPT ![t] = wanted]
    /\ session' = [session EXCEPT ![ProcessOf[t]] = t]
    /\ sessions' = sessions + 1
    /\ Goto(t, "open")
    /\ UNCHANGED <<slot, staging, flock, loaded, got, attempt, meddles, kills>>

\* The next script file, from a manifest that validates.
BeginImport(t) ==
    /\ At(t, "open") /\ todo[t] # {}
    /\ attempt' = [attempt EXCEPT ![t] = 0]
    /\ Goto(t, "lock")
    /\ UNCHANGED <<slot, staging, flock, session, loaded, todo, got, bounds>>

\* unload_revision, then the lock.
EndSession(t) ==
    /\ \/ At(t, "open") /\ todo[t] = {}
       \/ At(t, "sweep")
    /\ loaded' = [loaded EXCEPT ![ProcessOf[t]] = {}]
    /\ session' = [session EXCEPT ![ProcessOf[t]] = Nobody]
    /\ todo' = [todo EXCEPT ![t] = {}] /\ got' = [got EXCEPT ![t] = {}]
    /\ Goto(t, "idle")
    /\ UNCHANGED <<slot, staging, flock, attempt, bounds>>

-----------------------------------------------------------------------------
(* materialize_revision *)

\* Variant of SlotFree: nothing serializes the builders.
SlotFreeAlways == TRUE

SlotFree == flock = Nobody

TakeSlotLock(t) ==
    /\ At(t, "lock") /\ SlotFree
    /\ flock' = t
    /\ Goto(t, "purge")
    /\ UNCHANGED <<slot, staging, session, loaded, todo, got, attempt, bounds>>

\* Compiled files go before anything is verified.
Purge(t) ==
    /\ At(t, "purge")
    /\ \/ /\ slot' = IF slot = None THEN None ELSE [slot EXCEPT !.bytecode = FALSE]
          /\ Goto(t, "judge") /\ Keep
          /\ UNCHANGED <<staging, flock, meddles>>
       \/ slot # None /\ Fault /\ Raise(t) /\ UNCHANGED slot
    /\ UNCHANGED <<session, loaded, kills, sessions>>

ProvenTo(t) == [slot EXCEPT !.provenBy = @ \cup {t}]

Judge(t) ==
    /\ At(t, "judge")
    /\ \/ /\ slot = None
          /\ staging' = [staging EXCEPT ![t] = Empty]
          /\ Goto(t, "fill") /\ UNCHANGED slot
       \/ /\ slot # None /\ Verifies(slot)
          /\ slot' = ProvenTo(t)
          /\ Goto(t, "seal") /\ UNCHANGED staging
       \/ /\ slot # None /\ ~Verifies(slot)
          /\ Goto(t, "aside") /\ UNCHANGED <<slot, staging>>
    /\ Keep
    /\ UNCHANGED <<flock, session, loaded, bounds>>

\* The failed tree is renamed beside the slot, lent its write bit first.
SetAside(t) ==
    /\ At(t, "aside")
    /\ \/ /\ slot # None
          /\ slot' = None
          /\ staging' = [staging EXCEPT ![t] = Empty]
          /\ Goto(t, "fill") /\ Keep /\ UNCHANGED <<flock, meddles>>
       \/ (slot = None \/ Fault) /\ Raise(t) /\ UNCHANGED slot
          /\ (slot = None => UNCHANGED meddles)
    /\ UNCHANGED <<session, loaded, kills, sessions>>

\* One entry, as a bounded verified read of the store.  The host may write it
\* wrongly, or not at all, and the store may refuse it.
Fill(t, f) ==
    /\ At(t, "fill") /\ f \notin staging[t].has
    /\ \/ /\ staging' = [staging EXCEPT ![t].has = @ \cup {f}]
          /\ Keep /\ UNCHANGED <<pc, flock, meddles>>
       \/ /\ Fault /\ staging' = [staging EXCEPT ![t].has = @ \cup {f}, ![t].foul = TRUE]
          /\ Keep /\ UNCHANGED <<pc, flock>>
       \/ Fault /\ Raise(t)
    /\ UNCHANGED <<slot, session, loaded, kills, sessions>>

Filled(t) == Verifies(staging[t])

\* Only this process's own tree is built again, a bounded number of times.
CheckStaging(t) ==
    /\ At(t, "fill") /\ staging[t].has = File
    /\ attempt' = [attempt EXCEPT ![t] = @ + 1]
    /\ \/ /\ Filled(t)
          /\ staging' = [staging EXCEPT ![t].provenBy = {t}]
          /\ Goto(t, "publish") /\ UNCHANGED flock
       \/ /\ ~Filled(t)
          /\ staging' = [staging EXCEPT ![t] = None]
          /\ IF attempt[t] + 1 < MaxAttempts
             THEN Goto(t, "purge") /\ UNCHANGED flock
             ELSE Goto(t, "sweep") /\ flock' = Nobody
    /\ UNCHANGED <<slot, session, loaded, todo, got, bounds>>

\* A rename takes a free path, or an empty directory's.
Vacant == slot # None => slot.has = {} /\ ~slot.foul /\ ~slot.bytecode

\* One rename.  A slot taken since is judged instead.
Publish(t) ==
    /\ At(t, "publish")
    /\ \/ /\ Vacant
          /\ slot' = staging[t] /\ staging' = [staging EXCEPT ![t] = None]
          /\ Goto(t, "seal") /\ Keep /\ UNCHANGED flock
       \/ /\ ~Vacant /\ Verifies(slot)
          /\ slot' = ProvenTo(t)
          /\ staging' = [staging EXCEPT ![t] = None]
          /\ Goto(t, "seal") /\ Keep /\ UNCHANGED flock
       \/ ~Vacant /\ ~Verifies(slot) /\ Raise(t) /\ UNCHANGED slot
    /\ UNCHANGED <<session, loaded, bounds>>

\* Variant of Sealed: a tree found in the slot is taken to be protected.
SealedAsFound(t) == IF attempt[t] = 0 THEN slot ELSE [slot EXCEPT !.sealed = TRUE]

Sealed(t) == [slot EXCEPT !.sealed = TRUE]

\* Write-protected on every way out, then the file lock is freed.
Seal(t) ==
    /\ At(t, "seal")
    /\ \/ /\ slot # None
          /\ slot' = Sealed(t)
          /\ flock' = IF flock = t THEN Nobody ELSE flock
          /\ Goto(t, "exec") /\ Keep /\ UNCHANGED <<staging, meddles>>
       \/ slot = None /\ Raise(t) /\ UNCHANGED <<slot, meddles>>
       \/ slot # None /\ Fault /\ Raise(t) /\ UNCHANGED slot
    /\ UNCHANGED <<session, loaded, kills, sessions>>

-----------------------------------------------------------------------------
(* The import itself *)

\* A module already in sys.modules is returned as it is.  Reading source from
\* a tree that is not protected leaves compiled files in it.
Import(t, f) ==
    /\ At(t, "exec") /\ f \in todo[t]
    /\ f \in loaded[ProcessOf[t]] \/ (slot # None /\ f \in slot.has)
    /\ loaded' = [loaded EXCEPT ![ProcessOf[t]] = @ \cup {"package", f}]
    /\ slot' = IF slot = None \/ slot.sealed THEN slot
               ELSE [slot EXCEPT !.bytecode = TRUE, !.provenBy = {}]
    /\ todo' = [todo EXCEPT ![t] = @ \ {f}] /\ got' = [got EXCEPT ![t] = @ \cup {f}]
    /\ Goto(t, "open")
    /\ UNCHANGED <<staging, flock, session, attempt, bounds>>

\* Variant of LeftLoaded: the whole namespace is swept.
LeftLoadedNone(t) == {}

\* What a failed import leaves: all that was there before it, none of its own.
LeftLoaded(t) == loaded[ProcessOf[t]]

\* Project code raises, or the tree it needs is gone.  A validation goes on
\* with its next file, anything else ends its session.
FailImport(t, f) ==
    /\ At(t, "exec") /\ f \in todo[t]
    /\ loaded' = [loaded EXCEPT ![ProcessOf[t]] = LeftLoaded(t)]
    /\ todo' = [todo EXCEPT ![t] = @ \ {f}]
    /\ Goto(t, "open") \/ Goto(t, "sweep")
    /\ UNCHANGED <<slot, staging, flock, session, got, attempt, bounds>>

-----------------------------------------------------------------------------
(* The host *)

\* Variant of FreedWith: a lock file left behind keeps its dead owner.
FreedWithNone(dead) == flock

\* The system frees a file lock with its holder's file table.
FreedWith(dead) == IF flock \in dead THEN Nobody ELSE flock

\* The process dies: its locks go, a staging tree of its stays behind, beside
\* the slot and under a name nothing reads.
Kill(p) ==
    /\ kills < MaxKills /\ kills' = kills + 1
    /\ \E t \in Thread : ProcessOf[t] = p /\ ~At(t, "idle")
    /\ LET Dead == {t \in Thread : ProcessOf[t] = p}
           Cleared(f, value) == [t \in Thread |-> IF t \in Dead THEN value ELSE f[t]]
       IN /\ pc' = Cleared(pc, "idle") /\ staging' = Cleared(staging, None)
          /\ todo' = Cleared(todo, {}) /\ got' = Cleared(got, {})
          /\ flock' = FreedWith(Dead)
    /\ loaded' = [loaded EXCEPT ![p] = {}] /\ session' = [session EXCEPT ![p] = Nobody]
    /\ UNCHANGED <<slot, attempt, meddles, sessions>>

\* Whatever cleans a temporary directory removes the tree or some of it, and
\* anything may add to one that is not protected.
Meddle ==
    /\ Fault /\ slot # None
    /\ \/ slot' = None
       \/ \E f \in slot.has : slot' = [slot EXCEPT !.has = @ \ {f}, !.provenBy = {}]
       \/ slot' = [slot EXCEPT !.foul = TRUE, !.provenBy = {}]
       \/ ~slot.sealed /\ slot' = [slot EXCEPT !.bytecode = TRUE, !.provenBy = {}]
    /\ UNCHANGED <<staging, flock, session, loaded, threads, kills, sessions>>

\* Another host's builder, for which the file lock does not count, publishes.
PublishElsewhere ==
    /\ Fault /\ slot = None
    /\ \E whole \in BOOLEAN :
          slot' = [Empty EXCEPT !.has = File, !.foul = ~whole]
    /\ UNCHANGED <<staging, flock, session, loaded, threads, kills, sessions>>

-----------------------------------------------------------------------------
Init ==
    /\ slot = None /\ staging = [t \in Thread |-> None] /\ flock = Nobody
    /\ session = [p \in Process |-> Nobody] /\ loaded = [p \in Process |-> {}]
    /\ pc = [t \in Thread |-> "idle"]
    /\ todo = [t \in Thread |-> {}] /\ got = [t \in Thread |-> {}]
    /\ attempt = [t \in Thread |-> 0]
    /\ meddles = 0 /\ kills = 0 /\ sessions = 0

Works(t) ==
    \/ BeginImport(t) \/ EndSession(t) \/ TakeSlotLock(t) \/ Purge(t) \/ Judge(t)
    \/ SetAside(t) \/ CheckStaging(t) \/ Publish(t) \/ Seal(t)
    \/ \E f \in File : Fill(t, f) \/ Import(t, f) \/ FailImport(t, f)

Next ==
    \/ \E t \in Thread : BeginSession(t) \/ Works(t)
    \/ \E p \in Process : Kill(p)
    \/ Meddle \/ PublishElsewhere

Spec == Init /\ [][Next]_vars

\* A thread that waits for no lock runs on.  No order is assumed among those
\* that wait: the sessions are bounded, and so is what can pass before one.
FairSpec == Spec /\ \A t \in Thread : WF_vars(Works(t))

-----------------------------------------------------------------------------
(* Properties *)

\* Python runs nothing from a tree that has not been verified and protected:
\* between a rename and its protection a process may have died, a cleaner may
\* have been at the tree, and compiled files may be in it.  On a host that
\* leaves the cache alone every import has a tree it verified under it.
ImportsProven ==
    \A t \in Thread : At(t, "exec") =>
       /\ slot # None /\ t \in slot.provenBy => Verifies(slot) /\ slot.sealed
       /\ meddles = 0 => slot # None /\ t \in slot.provenBy

\* A tree that any thread has verified, and nobody else touched since, is not
\* set aside: builders hold the slot's lock from their judgment to the rename
\* that acts on it, so none acts on a tree another has replaced.
GoodTreeStays ==
    [][slot # None /\ slot.provenBy # {} /\ meddles' = meddles => slot' # None]_vars

\* What a session imported stays loaded until the session ends, though another
\* of its imports fails, and a process between sessions holds nothing.
SessionsKeepModules ==
    /\ \A t \in Thread : got[t] \subseteq loaded[ProcessOf[t]]
    /\ \A p \in Process : session[p] = Nobody => loaded[p] = {}

\* Every session ends, whoever dies with the slot's lock.
SessionsEnd == \A t \in Thread : pc[t] # "idle" ~> pc[t] = "idle"
=============================================================================
