-------------------------- MODULE MCScriptExecution --------------------------
(***************************************************************************)
(* Instances of ScriptExecution for TLC: event tracking is entered before  *)
(* Branching selects a branch, with another processor between them.        *)
(***************************************************************************)
EXTENDS ScriptExecution

MCRegistry == <<"tracking", "other", "branching">>

AllReleases == [deactivates : BOOLEAN, reports : BOOLEAN]
=============================================================================
