----------------------------- MODULE MCMigration -----------------------------
(* Small instances of Migration. *)
EXTENDS Migration, TLC

CONSTANTS m1, m2, p1, p2, x1, x2, y1, j1, j2, j3, r1, r2, q1, q2

One(revision, slot) ==
    [present |-> TRUE,
     older  |-> IF slot = "older" THEN revision ELSE "none",
     source |-> IF slot = "source" THEN revision ELSE "none"]

NoProject == [present |-> FALSE, older |-> "none", source |-> "none"]

-----------------------------------------------------------------------------
(* Schedules: one Script, a recurring Job, its successor and a plain one. *)

ScheduleModuleOf == [s \in {x1} |-> m1]
ScheduleProjectOf == [m \in {m1} |-> p1]
SchedulePublishes == [r \in {"older", "source"} |-> {x1}]
ScheduleNames == [j \in {j1, j2, j3} |-> x1]
ScheduleSuccessor == (j1 :> j2) @@ (j2 :> Nothing) @@ (j3 :> Nothing)
ScheduleBeginnings == {NoProject}
Empty == [r \in {} |-> Nothing]

-----------------------------------------------------------------------------
(* Records: two modules of one Project, one with a class that left its file, *)
(* a revision that drops a Script, rules and grants of each kind the          *)
(* reference pass tells apart.                                                *)

RecordModuleOf == (x1 :> m1) @@ (y1 :> m1) @@ (x2 :> m2)
RecordProjectOf == (m1 :> p1) @@ (m2 :> p1)
RecordPublishes == ("older" :> {x1, x2}) @@ ("source" :> {x1})
RecordNames == (j1 :> x1) @@ (j2 :> y1)
RecordSuccessor == (j1 :> Nothing) @@ (j2 :> Nothing)
RecordRuleNames == (r1 :> y1) @@ (r2 :> x2)
RecordKind == (q1 :> "split") @@ (q2 :> "constrained")
RecordBeginnings == {One("valid", "source"), One("active", "older")}
=============================================================================
