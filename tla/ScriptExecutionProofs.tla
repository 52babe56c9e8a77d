------------------------ MODULE ScriptExecutionProofs ------------------------
(***************************************************************************)
(* Proofs about ScriptExecution, for every order of processors, every set  *)
(* of releases and any number of faults.                                   *)
(*                                                                         *)
(* Two facts carry all four properties.  Tracking is on the stack of a run *)
(* that gets past its processors, because one that cannot start ends it    *)
(* (TrackInv).  And what became of the writes is fixed by where the run    *)
(* is: nothing before the call, pending or out of reach of the blocks      *)
(* around it after, and settled once what ends it is caught (WriteInv).    *)
(***************************************************************************)
EXTENDS ScriptExecution, SequenceTheorems, TLAPS

LEMMA RegistryFacts ==
  /\ Registry \in Seq(Processor) /\ Len(Registry) \in Nat
  /\ DOMAIN Registry = 1..Len(Registry)
BY ScriptExecutionConstants DEF Processor

LEMMA Pushed ==
  ASSUME NEW p \in Processor, stack \in Seq(Processor)
  PROVE  /\ Append(stack, p) \in Seq(Processor) /\ Len(Append(stack, p)) = Len(stack) + 1
         /\ \A i \in DOMAIN stack : Append(stack, p)[i] = stack[i]
         /\ DOMAIN stack \subseteq DOMAIN Append(stack, p)
         /\ Len(stack) + 1 \in DOMAIN Append(stack, p)
         /\ Append(stack, p)[Len(stack) + 1] = p
         /\ \A i \in DOMAIN Append(stack, p) : i \in DOMAIN stack \/ i = Len(stack) + 1
OBVIOUS

Rest == SubSeq(stack, 1, Len(stack) - 1)

LEMMA Popped ==
  ASSUME stack \in Seq(Processor), stack # <<>>
  PROVE  /\ Rest \in Seq(Processor) /\ Len(Rest) = Len(stack) - 1
         /\ \A i \in DOMAIN Rest : Rest[i] = stack[i]
         /\ DOMAIN Rest = 1 .. Len(stack) - 1
         /\ DOMAIN stack = 1 .. Len(stack)
         /\ Len(stack) \in Nat \ {0}
<1>1. Len(stack) \in Nat \ {0} /\ DOMAIN stack = 1 .. Len(stack)
  OBVIOUS
<1>2. \A i \in 1 .. Len(stack) - 1 : stack[i] \in Processor
  BY <1>1
<1>3. /\ Rest \in Seq(Processor) /\ Len(Rest) = Len(stack) - 1
      /\ \A i \in 1 .. Len(stack) - 1 : Rest[i] = stack[i]
  <2>1. 1 \in Int /\ Len(stack) - 1 \in Int
    BY <1>1
  <2>2. /\ Rest \in Seq(Processor)
        /\ Len(Rest) = IF 1 <= Len(stack) - 1 THEN Len(stack) - 1 - 1 + 1 ELSE 0
        /\ \A i \in 1 .. Len(stack) - 1 - 1 + 1 : Rest[i] = stack[1 + i - 1]
    BY <1>2, <2>1, SubSeqProperties DEF Rest
  <2>3. Len(Rest) = Len(stack) - 1
    <3>1. \A n \in Nat \ {0} : (IF 1 <= n - 1 THEN n - 1 - 1 + 1 ELSE 0) = n - 1
      OBVIOUS
    <3>2. Len(stack) \in Nat \ {0}
      BY <1>1
    <3> QED
      BY <2>2, <3>1, <3>2
  <2>4. ASSUME NEW i \in 1 .. Len(stack) - 1
        PROVE  Rest[i] = stack[i]
    <3>1. i \in Nat /\ i \in 1 .. Len(stack) - 1 - 1 + 1 /\ 1 + i - 1 = i
      BY <1>1
    <3> QED
      BY <2>2, <3>1
  <2> QED
    BY <2>2, <2>3, <2>4
<1>4. DOMAIN Rest = 1 .. Len(stack) - 1
  BY <1>3
<1> QED
  BY <1>1, <1>3, <1>4

-----------------------------------------------------------------------------
(* Types *)

LEMMA RevertsType ==
  ASSUME TypeOK, NEW D, Reverts(D)
  PROVE  wrote' \in [Database -> {"nothing", "pending", "kept", "reverted"}]
BY DEF TypeOK, Reverts

LEMMA FaultType == TypeOK /\ Fault => faults' \in 0..MaxFaults
BY ScriptExecutionConstants DEF TypeOK, Fault

LEMMA CommitType ==
  ASSUME TypeOK, NEW d \in Database, CommitOf(d)
  PROVE  /\ wrote' \in [Database -> {"nothing", "pending", "kept", "reverted"}]
         /\ ending' \in {"none", "dry", "error", "interrupt"}
         /\ faults' \in 0..MaxFaults
<1>1. CASE /\ wrote' = [wrote EXCEPT ![d] = IF @ = "pending" THEN "kept" ELSE @]
           /\ UNCHANGED <<ending, faults>>
  BY <1>1 DEF TypeOK
<1>2. CASE Fault /\ Reverts({d}) /\ ending' = "error"
  BY <1>2, RevertsType, FaultType
<1> QED
  BY <1>1, <1>2 DEF CommitOf

LEMMA TypeStep == TypeOK /\ [Next]_vars => TypeOK'
<1> SUFFICES ASSUME TypeOK, [Next]_vars PROVE TypeOK'
  OBVIOUS
<1>0. stack \in Seq(Processor)
  BY DEF TypeOK
<1>1. CASE Enter
  <2>1. next \in 1..Len(Registry) /\ next' = next + 1 /\ next' \in 1..Len(Registry) + 1
    BY <1>1, RegistryFacts DEF TypeOK, Enter
  <2>2. Registry[next] \in Processor
    BY <2>1, RegistryFacts DEF Processor
  <2>3. stack' = stack \/ stack' = Append(stack, Registry[next])
    BY <1>1 DEF Enter
  <2>4. stack' \in Seq(Processor) /\ Len(stack') < next'
    <3>1. Len(stack) < next /\ Len(stack) \in Nat /\ next \in Nat
      BY <1>0, <2>1, RegistryFacts DEF TypeOK
    <3>2. CASE stack' = stack
      BY <1>0, <2>1, <3>1, <3>2
    <3>3. CASE stack' = Append(stack, Registry[next])
      <4>1. stack' \in Seq(Processor) /\ Len(stack') = Len(stack) + 1
        BY <1>0, <2>2, <3>3, AppendProperties
      <4> QED
        BY <2>1, <3>1, <4>1
    <3> QED
      BY <2>3, <3>2, <3>3
  <2>5. branch' \in BOOLEAN
    BY <1>1 DEF TypeOK, Enter
  <2>6. faults' \in 0..MaxFaults
    BY <1>1, FaultType DEF TypeOK, Enter
  <2>7. pc' \in {"enter", "exit"} /\ ending' \in {"none", "dry", "error", "interrupt"}
    BY <1>1 DEF TypeOK, Enter
  <2> QED
    BY <1>1, <2>1, <2>4, <2>5, <2>6, <2>7 DEF TypeOK, Enter, given
<1>2. CASE Shield
  BY <1>2 DEF TypeOK, Shield, given
<1>3. CASE Probe
  BY <1>3 DEF TypeOK, Probe, given, Routed, Database
<1>4. CASE Call
  <2>1. /\ wrote' \in [Database -> {"nothing", "pending", "kept", "reverted"}]
        /\ events' \in {"none", "queued", "flushed", "cleared"}
    BY <1>4 DEF Call
  <2>2. ending' \in {"none", "dry", "error", "interrupt"}
    BY <1>4 DEF Call
  <2> QED
    BY <1>4, <2>1, <2>2 DEF TypeOK, Call, given
<1>5. CASE Unwind
  BY <1>5, RevertsType DEF TypeOK, Unwind, given
<1>6. CASE CommitInner
  <2>1. /\ wrote' \in [Database -> {"nothing", "pending", "kept", "reverted"}]
        /\ ending' \in {"none", "dry", "error", "interrupt"}
        /\ faults' \in 0..MaxFaults
    BY <1>6, CommitType DEF TypeOK, CommitInner
  <2> QED
    BY <1>6, <2>1 DEF TypeOK, CommitInner, given
<1>7. CASE CommitOuter
  <2>1. /\ wrote' \in [Database -> {"nothing", "pending", "kept", "reverted"}]
        /\ ending' \in {"none", "dry", "error", "interrupt"}
        /\ faults' \in 0..MaxFaults
    BY <1>7, CommitType DEF CommitOuter, Database
  <2> QED
    BY <1>7, <2>1 DEF TypeOK, CommitOuter, given
<1>8. CASE Caught
  BY <1>8 DEF TypeOK, Caught, given
<1>9. CASE Exit
  <2>1. stack' \in Seq(Processor) /\ Len(stack') < Len(stack)
    BY <1>0, <1>9, Popped DEF Exit, Rest
  <2>2. Len(stack') < next
    BY <1>0, <2>1, RegistryFacts DEF TypeOK
  <2>3. faults' \in 0..MaxFaults
    BY <1>9, FaultType DEF TypeOK, Exit
  <2>4. /\ events' \in {"none", "queued", "flushed", "cleared"}
        /\ ending' \in {"none", "dry", "error", "interrupt"}
    BY <1>9 DEF TypeOK, Exit
  <2> QED
    BY <1>9, <2>1, <2>2, <2>3, <2>4 DEF TypeOK, Exit, given
<1>10. CASE End
  BY <1>10 DEF TypeOK, End, given
<1>11. CASE UNCHANGED vars
  BY <1>11 DEF TypeOK, vars, given
<1> QED
  BY <1>1, <1>2, <1>3, <1>4, <1>5, <1>6, <1>7, <1>8, <1>9, <1>10, <1>11 DEF Next

LEMMA InitTypes == Init => TypeOK
<1> SUFFICES ASSUME Init PROVE TypeOK
  OBVIOUS
<1>1. next \in 1..Len(Registry) + 1 /\ stack \in Seq(Processor) /\ Len(stack) < next
  BY RegistryFacts DEF Init
<1>2. faults \in 0..MaxFaults
  BY ScriptExecutionConstants DEF Init
<1> QED
  BY <1>1, <1>2 DEF Init, TypeOK, Database

\* The state of a run of run_script is one the types describe, whatever
\* processors are registered and whatever fails.
THEOREM TypeCorrect == Spec => []TypeOK
BY InitTypes, TypeStep, PTL DEF Spec

-----------------------------------------------------------------------------
(* Event tracking *)

Events == {"none", "queued", "flushed", "cleared"}

\* A committing run past its processors is tracked, and a dry run never is.
TrackInv ==
    /\ Tracked => commit
    /\ pc = "enter" /\ commit /\ (\E i \in 1 .. next - 1 : Registry[i] = Tracking)
         => Tracked
    /\ pc \in {"probe", "call", "inner", "outer", "caught"} /\ commit => Tracked

LEMMA EnterTracks ==
  ASSUME TypeOK, Enter
  PROVE  /\ Tracked => Tracked'
         /\ Tracked' => Tracked \/ (Registry[next] = Tracking /\ ~Skipped(Registry[next]))
         /\ stack' # stack /\ Registry[next] = Tracking => Tracked'
<1>0. stack \in Seq(Processor) /\ DOMAIN stack = 1 .. Len(stack) /\ Len(stack) \in Nat
  BY DEF TypeOK
<1>1. Registry[next] \in Processor
  BY RegistryFacts DEF TypeOK, Enter, Processor
<1>2. CASE stack' = stack
  BY <1>2 DEF Tracked
<1>3. CASE stack' = Append(stack, Registry[next]) /\ ~Skipped(Registry[next])
  BY <1>0, <1>1, <1>3, Pushed DEF Tracked
<1> QED
  BY <1>2, <1>3 DEF Enter

LEMMA ExitTracks ==
  ASSUME TypeOK, Exit
  PROVE  /\ Tracked' => Tracked
         /\ Tracked /\ stack[Len(stack)] # Tracking => Tracked'
<1>0. stack \in Seq(Processor) /\ stack # <<>> /\ stack' = Rest
  BY DEF TypeOK, Exit, Rest
<1>1. /\ DOMAIN Rest = 1 .. Len(stack) - 1 /\ DOMAIN stack = 1 .. Len(stack)
      /\ Len(stack) \in Nat \ {0}
      /\ \A i \in 1 .. Len(stack) - 1 : Rest[i] = stack[i]
  BY <1>0, Popped
<1>2. Tracked' <=> \E i \in 1 .. Len(stack) - 1 : stack[i] = Tracking
  BY <1>0, <1>1 DEF Tracked
<1>3. Tracked <=> \E i \in 1 .. Len(stack) : stack[i] = Tracking
  BY <1>1 DEF Tracked
<1>4. ASSUME NEW n \in Nat \ {0}
      PROVE  1 .. n = (1 .. n - 1) \cup {n}
  OBVIOUS
<1>5. 1 .. Len(stack) = (1 .. Len(stack) - 1) \cup {Len(stack)}
  BY <1>1, <1>4
<1> QED
  BY <1>2, <1>3, <1>5

LEMMA TrackStep == TypeOK /\ TrackInv /\ [Next]_vars => TrackInv'
<1> SUFFICES ASSUME TypeOK, TrackInv, [Next]_vars PROVE TrackInv'
  OBVIOUS
<1>1. CASE Enter
  <2>1. commit' = commit /\ next \in Nat /\ next' = next + 1
    BY <1>1, RegistryFacts DEF Enter, given, TypeOK
  <2>2. Tracked' => commit
    BY <1>1, EnterTracks DEF TrackInv, Skipped
  <2>3. ASSUME pc' = "enter", commit, NEW i \in 1 .. next' - 1, Registry[i] = Tracking
        PROVE  Tracked'
    <3>1. CASE i = next
      <4>1. ~Skipped(Registry[next]) /\ Fatal(Registry[next])
        BY <2>3, <3>1 DEF Skipped, Fatal
      <4>2. stack' = Append(stack, Registry[next])
        BY <1>1, <2>3, <4>1 DEF Enter
      <4>3. stack' # stack
        <5>1. Registry[next] \in Processor
          BY <1>1, RegistryFacts DEF TypeOK, Enter, Processor
        <5>2. Len(stack) \in Nat /\ Len(stack') = Len(stack) + 1
          BY <4>2, <5>1, Pushed DEF TypeOK
        <5> QED
          BY <5>2
      <4> QED
        BY <1>1, <2>3, <3>1, <4>3, EnterTracks
    <3>2. CASE i # next
      <4>1. i \in 1 .. next - 1
        BY <2>1, <2>3, <3>2
      <4> QED
        BY <1>1, <2>3, <4>1, EnterTracks DEF TrackInv, Enter
    <3> QED
      BY <3>1, <3>2
  <2>4. pc' \in {"enter", "exit"}
    BY <1>1 DEF Enter
  <2> QED
    BY <2>1, <2>2, <2>3, <2>4 DEF TrackInv
<1>2. CASE Shield
  <2>1. \E i \in 1 .. next - 1 : Registry[i] = Tracking
    <3>1. PICK i \in DOMAIN Registry : Registry[i] = Tracking
      BY ScriptExecutionConstants
    <3>2. i \in 1 .. next - 1
      BY <1>2, <3>1, RegistryFacts DEF Shield, TypeOK
    <3> QED
      BY <3>1, <3>2
  <2> QED
    BY <1>2, <2>1 DEF Shield, TrackInv, Tracked, given
<1>3. CASE Exit
  <2>1. Tracked' => Tracked
    BY <1>3, ExitTracks
  <2> QED
    BY <1>3, <2>1 DEF Exit, TrackInv, given
<1>4. CASE Probe \/ Call \/ Unwind \/ CommitInner \/ CommitOuter \/ Caught \/ End
  <2>1. /\ stack' = stack /\ commit' = commit /\ pc' \notin {"enter", "probe"}
        /\ pc' \in {"call", "inner", "outer", "caught"}
             => pc \in {"probe", "call", "inner", "outer"}
    BY <1>4 DEF Probe, Call, Unwind, CommitInner, CommitOuter, Caught, End, given
  <2> QED
    BY <2>1 DEF TrackInv, Tracked
<1>5. CASE UNCHANGED vars
  BY <1>5 DEF vars, given, TrackInv, Tracked
<1> QED
  BY <1>1, <1>2, <1>3, <1>4, <1>5 DEF Next

-----------------------------------------------------------------------------
(* Writes and events *)

Settled == \A d \in Database : wrote[d] \in {"nothing", "kept"}

\* Where the run is fixes what became of the writes ...
WriteInv ==
    /\ pc \in {"enter", "probe", "call"}
         => ending = "none" /\ ~reverted /\ \A d \in Database : wrote[d] = "nothing"
    /\ pc \in {"inner", "outer", "caught"} => ~reverted
    /\ pc = "call" => Routed \in Covered
    /\ \A d \in Database \ Covered : wrote[d] = "nothing"
    /\ pc = "inner" => /\ ending = "none" /\ commit /\ result = "returned"
                       /\ \A d \in Database : wrote[d] \in {"nothing", "pending"}
    /\ pc = "outer" => /\ wrote["main"] \in {"nothing", "pending"}
                       /\ ending = "none" => /\ commit /\ result = "returned"
                                             /\ wrote["branch"] \in {"nothing", "kept"}
                       /\ ending # "none" => \A d \in Database : wrote[d] # "kept"
    /\ pc = "caught" => ending # "none" /\ wrote["main"] \in {"nothing", "reverted"}
    /\ ending = "dry" => ~commit
    /\ ~commit \/ result # "returned" => \A d \in Database : wrote[d] # "kept"
    /\ pc \in {"exit", "end"} => /\ reverted => wrote["main"] # "kept"
                                 /\ ending = "none" /\ commit => Settled

\* ... and, with tracking on the stack, what is told of them.
EventInv ==
    /\ ~hasRequest \/ pc \in {"enter", "probe", "call"} => events = "none"
    /\ ~commit => events \in {"none", "cleared"}
    /\ pc \in {"inner", "outer", "caught"} => events \in {"none", "queued"}
    /\ pc \in {"inner", "outer"} /\ commit /\ hasRequest
         /\ (\E d \in Database : wrote[d] # "nothing") => events = "queued"
    /\ pc \in {"exit", "end"} /\ ending = "none" /\ hasRequest /\ Kept
         => events \in {"queued", "flushed"}
    /\ ending = "none" /\ events = "queued" => (pc = "exit" => Tracked) /\ pc # "end"
    /\ events = "flushed" => pc \in {"exit", "end"} /\ commit /\ Settled

RunInv == WriteInv /\ EventInv

LEMMA WriteStep ==
  TypeOK /\ WriteInv /\ EventInv /\ [Next]_vars => WriteInv'
<1> SUFFICES ASSUME TypeOK, WriteInv, EventInv, [Next]_vars PROVE WriteInv'
  OBVIOUS
<1> USE DEF Database
<1>1. CASE Enter
  <2>1. pc' \in {"enter", "exit"} /\ (pc' = "enter" => ending' = ending)
        /\ (pc' = "exit" => ending' = "error")
    BY <1>1 DEF Enter
  <2> QED
    BY <1>1, <2>1 DEF Enter, WriteInv, given, Settled, Covered
<1>2. CASE Shield
  BY <1>2 DEF Shield, WriteInv, Covered, given
<1>3. CASE Probe
  <2>1. pc' = "call" => Routed' \in Covered'
    BY <1>3 DEF Probe, Uncoverable, Routed, Covered, given
  <2> QED
    BY <1>3, <2>1 DEF Probe, WriteInv, Covered, given
<1>4. CASE Call
  <2>1. PICK D \in SUBSET {"main", Routed} :
           wrote' = [d \in Database |-> IF d \notin D THEN "nothing"
                                        ELSE IF d \in Covered THEN "pending" ELSE "kept"]
    BY <1>4 DEF Call
  <2>2. D \subseteq Covered /\ Covered' = Covered
    BY <1>4, <2>1 DEF Call, WriteInv, Covered
  <2>3. /\ \A d \in Database : wrote'[d] \in {"nothing", "pending"}
        /\ \A d \in Database \ Covered' : wrote'[d] = "nothing"
    BY <2>1, <2>2
  <2>4. /\ ending' = "none" => commit /\ pc' = "inner"
        /\ ending' = "dry" => ~commit
        /\ ending' # "none" => pc' = "outer"
        /\ ending' = "none" => result' = "returned"
        /\ commit' = commit /\ reverted' = reverted /\ ~reverted
    BY <1>4 DEF Call, WriteInv, given
  <2> QED
    BY <2>3, <2>4 DEF WriteInv
<1>5. CASE Unwind
  <2>1. \A d \in Database : wrote'[d] = IF d \in Covered /\ wrote[d] = "pending"
                                        THEN "reverted" ELSE wrote[d]
    BY <1>5 DEF Unwind, Reverts
  <2> QED
    BY <1>5, <2>1 DEF Unwind, WriteInv, Covered, given
<1>6. CASE CommitInner
  <2>1. /\ pc = "inner" /\ pc' = "outer" /\ commit /\ ending = "none" /\ ~reverted
        /\ result = "returned" /\ result' = result
        /\ commit' = commit /\ Covered' = Covered /\ reverted' = reverted
        /\ \A d \in Database : wrote[d] \in {"nothing", "pending"}
        /\ \A d \in Database \ Covered : wrote[d] = "nothing"
    BY <1>6 DEF CommitInner, WriteInv, Covered, given
  <2>2. CASE probed = "main"
    <3>1. wrote' = wrote /\ ending' = ending
      BY <1>6, <2>2 DEF CommitInner
    <3> QED
      BY <2>1, <2>2, <3>1 DEF WriteInv, Covered
  <2>3. CASE probed = "branch" /\ ending' = ending
             /\ wrote' = [wrote EXCEPT !["branch"] = IF @ = "pending" THEN "kept" ELSE @]
    <3>1. wrote'["main"] = wrote["main"] /\ wrote'["branch"] \in {"nothing", "kept"}
      BY <2>1, <2>3 DEF TypeOK
    <3> QED
      BY <2>1, <2>3, <3>1 DEF WriteInv, Covered
  <2>4. CASE probed = "branch" /\ Reverts({"branch"}) /\ ending' = "error"
    <3>1. wrote'["main"] = wrote["main"] /\ wrote'["branch"] \in {"nothing", "reverted"}
      BY <2>1, <2>4 DEF Reverts
    <3> QED
      BY <2>1, <2>4, <3>1 DEF WriteInv, Covered
  <2> QED
    BY <1>6, <2>2, <2>3, <2>4 DEF CommitInner, CommitOf, TypeOK
<1>7. CASE CommitOuter
  <2>1. /\ pc = "outer" /\ commit /\ ending = "none" /\ ~reverted
        /\ result = "returned" /\ result' = result /\ Covered' = Covered
        /\ \A d \in Database \ Covered : wrote[d] = "nothing"
        /\ commit' = commit /\ reverted' = reverted
        /\ wrote["main"] \in {"nothing", "pending"}
        /\ wrote["branch"] \in {"nothing", "kept"}
        /\ pc' = IF ending' = "none" THEN "exit" ELSE "caught"
    BY <1>7 DEF CommitOuter, WriteInv, Covered, given
  <2>2. CASE ending' = ending
             /\ wrote' = [wrote EXCEPT !["main"] = IF @ = "pending" THEN "kept" ELSE @]
    <3>1. wrote'["branch"] = wrote["branch"] /\ wrote'["main"] \in {"nothing", "kept"}
      BY <2>1, <2>2 DEF TypeOK
    <3> QED
      BY <2>1, <2>2, <3>1 DEF WriteInv, Settled, Covered
  <2>3. CASE Reverts({"main"}) /\ ending' = "error"
    <3>1. wrote'["branch"] = wrote["branch"] /\ wrote'["main"] \in {"nothing", "reverted"}
      BY <2>1, <2>3 DEF Reverts
    <3> QED
      BY <2>1, <2>3, <3>1 DEF WriteInv, Covered
  <2> QED
    BY <1>7, <2>2, <2>3 DEF CommitOuter, CommitOf
<1>8. CASE Caught
  <2>1. /\ pc' = "exit" /\ wrote' = wrote /\ commit' = commit
        /\ result' = result /\ Covered' = Covered
        /\ wrote["main"] # "kept" /\ ending # "none"
        /\ ending' = "none" => ~commit
        /\ ending' = "dry" => ~commit
    BY <1>8 DEF Caught, WriteInv, Covered, given
  <2> QED
    BY <2>1 DEF WriteInv
<1>9. CASE Exit
  <2>1. /\ pc' = pc /\ pc = "exit" /\ wrote' = wrote /\ commit' = commit
        /\ reverted' = reverted /\ ending' \in {ending, "error"}
        /\ result' = result /\ Covered' = Covered
    BY <1>9 DEF Exit, Covered, given
  <2> QED
    BY <2>1 DEF WriteInv, Settled
<1>10. CASE End
  BY <1>10 DEF End, WriteInv, given, Settled, Covered
<1>11. CASE UNCHANGED vars
  BY <1>11 DEF vars, given, WriteInv, Routed, Covered, Settled
<1> QED
  BY <1>1, <1>2, <1>3, <1>4, <1>5, <1>6, <1>7, <1>8, <1>9, <1>10, <1>11 DEF Next

LEMMA EventStep ==
  TypeOK /\ TrackInv /\ WriteInv /\ EventInv /\ [Next]_vars => EventInv'
<1> SUFFICES ASSUME TypeOK, TrackInv, WriteInv, EventInv, [Next]_vars PROVE EventInv'
  OBVIOUS
<1>1. CASE Enter \/ Shield \/ Probe
  <2>1. /\ pc \in {"enter", "probe"} /\ events' = events /\ events = "none"
        /\ wrote' = wrote /\ \A d \in Database : wrote[d] = "nothing"
        /\ commit' = commit /\ pc' \in {"enter", "exit", "probe", "caught", "call"}
        /\ pc' = "exit" => ending' # "none"
    BY <1>1 DEF Enter, Shield, Probe, EventInv, WriteInv, given
  <2> QED
    BY <2>1 DEF EventInv, Kept
<1>2. CASE Call
  <2>1. PICK D \in SUBSET {"main", Routed} :
           /\ wrote' = [d \in Database |-> IF d \notin D THEN "nothing"
                                           ELSE IF d \in Covered THEN "pending" ELSE "kept"]
           /\ events' = IF Tracked /\ hasRequest /\ D # {} THEN "queued" ELSE "none"
    BY <1>2 DEF Call
  <2>2. /\ pc' \in {"inner", "outer"} /\ commit' = commit /\ hasRequest' = hasRequest
        /\ Tracked <=> commit
    BY <1>2 DEF Call, TrackInv, given
  <2>3. (\E d \in Database : wrote'[d] # "nothing") => D # {}
    BY <2>1
  <2> QED
    BY <2>1, <2>2, <2>3 DEF EventInv
<1>3. CASE Unwind \/ CommitInner
  <2>1. /\ pc \in {"inner", "outer"} /\ pc' \in {"outer", "caught"}
        /\ events' = events /\ commit' = commit /\ hasRequest' = hasRequest
    BY <1>3 DEF Unwind, CommitInner, given
  <2>2. ASSUME NEW d \in Database, wrote'[d] # "nothing"
        PROVE  wrote[d] # "nothing"
    <3>1. CASE wrote' = wrote
      BY <2>2, <3>1
    <3>2. ASSUME NEW D, Reverts(D) PROVE wrote[d] # "nothing"
      BY <2>2, <3>2 DEF Reverts
    <3>3. ASSUME wrote' = [wrote EXCEPT ![probed] = IF @ = "pending" THEN "kept" ELSE @]
          PROVE  wrote[d] # "nothing"
      BY <2>2, <3>3 DEF TypeOK
    <3> QED
      BY <1>3, <3>1, <3>2, <3>3 DEF Unwind, CommitInner, CommitOf
  <2> QED
    BY <2>1, <2>2 DEF EventInv
<1>4. CASE CommitOuter
  <2>1. /\ pc = "outer" /\ pc' \in {"exit", "caught"} /\ ending = "none" /\ commit
        /\ events' = events /\ commit' = commit /\ hasRequest' = hasRequest
        /\ stack' = stack /\ Tracked /\ events \in {"none", "queued"}
    BY <1>4 DEF CommitOuter, given, TrackInv, WriteInv, EventInv
  <2>2. Tracked'
    BY <2>1 DEF Tracked
  <2>3. ASSUME pc' = "exit", ending' = "none", NEW d \in Database, wrote'[d] = "kept"
        PROVE  wrote[d] # "nothing"
    <3>1. wrote' = [wrote EXCEPT !["main"] = IF @ = "pending" THEN "kept" ELSE @]
      BY <1>4, <2>3 DEF CommitOuter, CommitOf
    <3> QED
      BY <2>3, <3>1 DEF TypeOK, Database
  <2> QED
    BY <2>1, <2>2, <2>3 DEF EventInv, Kept
<1>5. CASE Caught
  <2>1. /\ pc = "caught" /\ pc' = "exit" /\ wrote' = wrote /\ commit' = commit
        /\ hasRequest' = hasRequest
        /\ events \in {"none", "queued"} /\ events' \in {events, "cleared"}
        /\ ~hasRequest => events' = "none"
        /\ ending' = "none" => ~commit
        /\ ~commit => events = "none" /\ \A d \in Database : wrote[d] # "kept"
    BY <1>5 DEF Caught, given, WriteInv, EventInv
  <2> QED
    BY <2>1 DEF EventInv, Kept
<1>6. CASE Exit
  <2>1. /\ pc = "exit" /\ pc' = "exit" /\ wrote' = wrote /\ commit' = commit
        /\ hasRequest' = hasRequest /\ ending' \in {ending, "error"}
    BY <1>6 DEF Exit, given
  <2>2. CASE events' = events
    <3>1. ending' = "none" /\ events = "queued" => Tracked /\ stack[Len(stack)] # Tracking
      BY <1>6, <2>1, <2>2 DEF Exit, EventInv
    <3>2. ending' = "none" /\ events = "queued" => Tracked'
      BY <1>6, <3>1, ExitTracks
    <3> QED
      BY <2>1, <2>2, <3>2 DEF EventInv, Kept, Settled
  <2>3. CASE events' = "flushed" /\ ending = "none" /\ events = "queued"
    <3>1. commit /\ Settled /\ hasRequest
      BY <2>1, <2>3 DEF EventInv, WriteInv, TypeOK
    <3> QED
      BY <2>1, <2>3, <3>1 DEF EventInv, Settled
  <2> QED
    BY <1>6, <2>2, <2>3 DEF Exit
<1>7. CASE End
  <2>1. UNCHANGED <<wrote, commit, hasRequest, events, ending>> /\ pc = "exit" /\ pc' = "end"
    BY <1>7 DEF End, given
  <2>2. ~Tracked
    BY <1>7 DEF End, Tracked
  <2> QED
    BY <2>1, <2>2 DEF EventInv, Kept, Settled
<1>8. CASE UNCHANGED vars
  BY <1>8 DEF vars, given, EventInv, Kept, Settled, Tracked
<1> QED
  BY <1>1, <1>2, <1>3, <1>4, <1>5, <1>6, <1>7, <1>8 DEF Next

-----------------------------------------------------------------------------
(* What it comes to *)

Inv == TypeOK /\ TrackInv /\ RunInv

\* At every point of run_script the transactions entered, the database
\* written to and the events queued agree.
THEOREM ExecutionInvariant == Spec => []Inv
<1>1. Init => Inv
  <2> SUFFICES ASSUME Init PROVE Inv
    OBVIOUS
  <2>1. ~Tracked /\ (\A i \in 1 .. next - 1 : FALSE)
    BY DEF Init, Tracked
  <2>2. TrackInv
    BY <2>1 DEF Init, TrackInv
  <2>3. RunInv
    BY DEF Init, RunInv, WriteInv, EventInv, Database
  <2> QED
    BY <2>2, <2>3, InitTypes DEF Inv
<1>2. Inv /\ [Next]_vars => Inv'
  BY TypeStep, TrackStep, WriteStep, EventStep DEF Inv, RunInv
<1> QED
  BY <1>1, <1>2, PTL DEF Spec

\* A dry run, and a run whose script raised, was interrupted or never ran,
\* keeps nothing in any database; a log that says "reverted" is wrong only of a
\* branch committed before the main database failed.
THEOREM Reverting == Spec => []RevertedWhole
<1>1. Inv => RevertedWhole
  <2> SUFFICES ASSUME Inv PROVE RevertedWhole
    OBVIOUS
  <2>1. ~commit \/ result # "returned" => ~Kept
    BY DEF Inv, RunInv, WriteInv, Kept
  <2>2. ASSUME reverted, Kept
        PROVE  /\ commit /\ result = "returned" /\ probed = "branch"
               /\ wrote["main"] # "kept" /\ wrote["branch"] = "kept"
    <3>1. pc \in {"exit", "end"}
      BY <2>2 DEF Inv, RunInv, WriteInv, TypeOK
    <3>2. wrote["main"] # "kept"
      BY <2>2, <3>1 DEF Inv, RunInv, WriteInv
    <3>3. wrote["branch"] = "kept"
      BY <2>2, <3>2 DEF Kept, Database
    <3>4. probed = "branch"
      BY <3>3 DEF Inv, RunInv, WriteInv, TypeOK, Covered, Database
    <3> QED
      BY <2>1, <2>2, <3>2, <3>3, <3>4
  <2> QED
    BY <2>1, <2>2 DEF RevertedWhole
<1> QED
  BY <1>1, ExecutionInvariant, PTL

\* No write escapes the transactions of _execute, whatever branch a request
\* processor activates.
THEOREM Covering == Spec => []WritesCovered
<1>1. Inv => WritesCovered
  BY DEF Inv, RunInv, WriteInv, WritesCovered
<1> QED
  BY <1>1, ExecutionInvariant, PTL

\* No event run_script flushes tells of what was not kept.
THEOREM TellingOfKept == Spec => []EventsTellOfKept
<1>1. Inv => EventsTellOfKept
  BY DEF Inv, RunInv, EventInv, EventsTellOfKept, Settled
<1> QED
  BY <1>1, ExecutionInvariant, PTL

\* What a completed run_script kept for its request is told.
THEOREM KeptTold == Spec => []KeptIsTold
<1>1. Inv => KeptIsTold
  BY DEF Inv, RunInv, EventInv, KeptIsTold
<1> QED
  BY <1>1, ExecutionInvariant, PTL
=============================================================================
