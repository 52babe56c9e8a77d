--------------------------- MODULE ScriptExecution ---------------------------
(***************************************************************************)
(* What surrounds one call of a script: the request processors, the main   *)
(* schema, a transaction per database, and the events of its changes       *)
(* (run_script and _execute).                                              *)
(*                                                                         *)
(* Registry is the order in which NetBox enters its processors.  A release *)
(* of NetBox Branching may lack the call that leaves a branch, or be       *)
(* unable to tell where change-logged models go; with no Branching no      *)
(* branch is ever selected.                                                *)
(***************************************************************************)
EXTENDS Naturals, Sequences

CONSTANTS
    Registry,            \* a sequence of processors
    Tracking, Branching, \* two of them: event tracking and Branching's own
    Releases,            \* [deactivates : BOOLEAN, reports : BOOLEAN] possible
    MaxFaults            \* bound: failing processors and commits

ASSUME ScriptExecutionConstants ==
    /\ Registry \in Seq(STRING)
    /\ \E i \in DOMAIN Registry : Registry[i] = Tracking
    /\ Tracking # Branching
    /\ Releases \subseteq [deactivates : BOOLEAN, reports : BOOLEAN]
    /\ MaxFaults \in Nat

Database == {"main", "branch"}

Processor == {Registry[i] : i \in DOMAIN Registry}

VARIABLES
    pc,
    release, commit, selected, \* given: and whether the request selected a branch
    hasRequest,
    next,      \* the processor to enter next
    stack,     \* the processors entered, the last one innermost
    branch,    \* whether a branch is active
    probed,    \* the database the probe found for change-logged writes
    wrote,     \* what became of the script's writes to each database
    events,    \* the event queue of the run
    ending,    \* what is on its way out of the run
    result,    \* history: how the script's own call ended
    reverted,  \* whether the log says that the changes were reverted
    faults

given == <<release, commit, selected, hasRequest>>
vars == <<pc, given, next, stack, branch, probed, wrote, events, ending, result, reverted, faults>>

TypeOK ==
    /\ pc \in {"enter", "probe", "call", "inner", "outer", "caught", "exit", "end"}
    /\ release \in Releases
    /\ commit \in BOOLEAN /\ selected \in BOOLEAN /\ hasRequest \in BOOLEAN
    /\ branch \in BOOLEAN /\ reverted \in BOOLEAN
    /\ next \in 1..Len(Registry) + 1
    /\ stack \in Seq(Processor) /\ Len(stack) < next
    /\ probed \in Database
    /\ wrote \in [Database -> {"nothing", "pending", "kept", "reverted"}]
    /\ events \in {"none", "queued", "flushed", "cleared"}
    /\ ending \in {"none", "dry", "error", "interrupt"}
    /\ result \in {"none", "returned", "error", "interrupt"}
    /\ faults \in 0..MaxFaults

Init ==
    /\ pc = "enter"
    /\ release \in Releases
    /\ commit \in BOOLEAN /\ selected \in BOOLEAN /\ hasRequest \in BOOLEAN
    /\ selected => hasRequest
    /\ next = 1 /\ stack = <<>>
    /\ branch = FALSE /\ probed = "main"
    /\ wrote = [d \in Database |-> "nothing"]
    /\ events = "none" /\ ending = "none" /\ result = "none" /\ reverted = FALSE
    /\ faults = 0

-----------------------------------------------------------------------------
Fault == faults < MaxFaults /\ faults' = faults + 1

Tracked == \E i \in DOMAIN stack : stack[i] = Tracking

\* Variant of Skipped: every processor is entered.
SkippedNever(p) == FALSE

\* A dry run has no events to tell.
Skipped(p) == ~commit /\ p = Tracking

\* Variant of Fatal: no processor that cannot start ends the run.
FatalNever(p) == FALSE

Fatal(p) == p = Tracking

Enter ==
    /\ pc = "enter" /\ next <= Len(Registry)
    /\ next' = next + 1
    /\ LET p == Registry[next] IN
       \/ Skipped(p) /\ UNCHANGED <<pc, stack, branch, ending, faults>>
       \/ /\ ~Skipped(p)
          /\ stack' = Append(stack, p)
          /\ branch' = (branch \/ (p = Branching /\ selected))
          /\ UNCHANGED <<pc, ending, faults>>
       \/ /\ ~Skipped(p) /\ Fault
          /\ IF Fatal(p) THEN pc' = "exit" /\ ending' = "error"
                         ELSE UNCHANGED <<pc, ending>>
          /\ UNCHANGED <<stack, branch>>
    /\ UNCHANGED <<given, probed, wrote, events, result, reverted>>

\* main_schema_only, innermost: a processor may just have selected a branch.
Shield ==
    /\ pc = "enter" /\ next > Len(Registry)
    /\ pc' = "probe"
    /\ branch' = (branch /\ ~release.deactivates)
    /\ UNCHANGED <<given, next, stack, probed, wrote, events, ending, result, reverted, faults>>

\* Where change-logged models are written.
Routed == IF branch THEN "branch" ELSE "main"

\* Variant of Uncoverable: a probe that cannot tell only warns.
UncoverableNever == FALSE

\* The probe would name the main database while writes go to the branch.
Uncoverable == branch /\ ~release.reports

Probe ==
    /\ pc = "probe"
    /\ IF Uncoverable
       THEN pc' = "caught" /\ ending' = "error" /\ UNCHANGED probed
       ELSE /\ pc' = "call" /\ UNCHANGED ending
            /\ probed' = IF release.reports THEN Routed ELSE "main"
    /\ UNCHANGED <<given, next, stack, branch, wrote, events, result, reverted, faults>>

-----------------------------------------------------------------------------
\* The databases with a transaction around the script.
Covered == {"main", probed}

\* What an exception does to the writes of the blocks it leaves.
Reverts(D) ==
    wrote' = [d \in Database |-> IF d \in D /\ wrote[d] = "pending" THEN "reverted" ELSE wrote[d]]

\* The script writes to this plugin's own models, which stay in main, and to
\* change-logged ones.  Outside a transaction a write is kept at once.
Call ==
    /\ pc = "call"
    /\ \E D \in SUBSET {"main", Routed} :
          /\ wrote' = [d \in Database |-> IF d \notin D THEN "nothing"
                                          ELSE IF d \in Covered THEN "pending" ELSE "kept"]
          /\ events' = IF Tracked /\ hasRequest /\ D # {} THEN "queued" ELSE "none"
    /\ result' \in {"returned", "error", "interrupt"}
    /\ ending' = IF result' # "returned" THEN result' ELSE IF commit THEN "none" ELSE "dry"
    /\ pc' = IF ending' = "none" THEN "inner" ELSE "outer"
    /\ UNCHANGED <<given, next, stack, branch, probed, reverted, faults>>

\* Variant of Unwind: a dry run that returned is committed like any other.
UnwindErrors ==
    /\ pc = "outer" /\ ending # "none"
    /\ IF ending = "dry" THEN wrote' = [d \in Database |-> IF wrote[d] = "pending" THEN "kept" ELSE wrote[d]]
                             ELSE Reverts(Covered)
    /\ pc' = "caught"
    /\ UNCHANGED <<given, next, stack, branch, probed, events, ending, result, reverted, faults>>

\* What escapes the script or the inner commit rolls both blocks back.
Unwind ==
    /\ pc = "outer" /\ ending # "none"
    /\ Reverts(Covered)
    /\ pc' = "caught"
    /\ UNCHANGED <<given, next, stack, branch, probed, events, ending, result, reverted, faults>>

\* The end of one block.  A commit may fail: constraints are deferred to it.
CommitOf(d) ==
    \/ /\ wrote' = [wrote EXCEPT ![d] = IF @ = "pending" THEN "kept" ELSE @]
       /\ UNCHANGED <<ending, faults>>
    \/ /\ Fault /\ Reverts({d})
       /\ ending' = "error"

CommitInner ==
    /\ pc = "inner"
    /\ IF probed = "main" THEN UNCHANGED <<wrote, ending, faults>> ELSE CommitOf(probed)
    /\ pc' = "outer"
    /\ UNCHANGED <<given, next, stack, branch, probed, events, result, reverted>>

CommitOuter ==
    /\ pc = "outer" /\ ending = "none"
    /\ CommitOf("main")
    /\ pc' = IF ending' = "none" THEN "exit" ELSE "caught"
    /\ UNCHANGED <<given, next, stack, branch, probed, events, result, reverted>>

\* A dry run is done, an error is logged and its events are dropped; what is
\* no Exception passes by.
Caught ==
    /\ pc = "caught"
    /\ pc' = "exit"
    /\ ending' = IF ending = "dry" THEN "none" ELSE ending
    /\ reverted' = (ending # "interrupt")
    /\ events' = IF ending = "error" /\ hasRequest THEN "cleared" ELSE events
    /\ UNCHANGED <<given, next, stack, branch, probed, wrote, result, faults>>

\* Processors end in reverse; event tracking tells what is queued, unless an
\* exception passes through it.
Exit ==
    /\ pc = "exit" /\ stack # <<>>
    /\ stack' = SubSeq(stack, 1, Len(stack) - 1)
    /\ \/ /\ events' = IF /\ stack[Len(stack)] = Tracking
                          /\ ending = "none" /\ events = "queued"
                       THEN "flushed" ELSE events
          /\ UNCHANGED <<ending, faults>>
       \/ Fault /\ ending' = "error" /\ UNCHANGED events
    /\ UNCHANGED <<pc, given, next, branch, probed, wrote, result, reverted>>

End ==
    /\ pc = "exit" /\ stack = <<>>
    /\ pc' = "end"
    /\ UNCHANGED <<given, next, stack, branch, probed, wrote, events, ending, result, reverted, faults>>

Next == Enter \/ Shield \/ Probe \/ Call \/ Unwind \/ CommitInner \/ CommitOuter \/ Caught \/ Exit \/ End

Spec == Init /\ [][Next]_vars

-----------------------------------------------------------------------------
(* Properties *)

Kept == \E d \in Database : wrote[d] = "kept"

\* Once its blocks are left, a dry run, and a run whose script was not called,
\* raised or was interrupted, keeps nothing in any database.  The log says
\* "reverted" of a run that kept something only when the script returned, its
\* writes went to two databases, and the branch's block was committed before
\* the main one failed (_execute).
RevertedWhole ==
    /\ pc \in {"caught", "exit", "end"} /\ (~commit \/ result # "returned") => ~Kept
    /\ reverted /\ Kept => /\ commit /\ result = "returned" /\ probed = "branch"
                          /\ wrote["main"] # "kept" /\ wrote["branch"] = "kept"

\* No write of a script escapes the transactions around it, wherever a
\* processor's branch sends it (_execute, main_schema_only).
WritesCovered ==
    pc \in {"call", "inner", "outer"} =>
        \A d \in Database \ Covered : wrote[d] = "nothing" /\ (pc = "call" => d # Routed)

\* No event tells of a change that was not kept: not of a dry run, and not
\* of a failed one (run_script, which enters event tracking).
EventsTellOfKept ==
    events = "flushed" => commit /\ \A d \in Database : wrote[d] \in {"nothing", "kept"}

\* A run that completed told of every change it kept for its request, whatever
\* processors failed around it (run_script).
KeptIsTold ==
    pc = "end" /\ ending = "none" /\ hasRequest /\ Kept => events = "flushed"
=============================================================================
