----------------------------- MODULE MCScriptRun -----------------------------
(***************************************************************************)
(* Small instances of ScriptRun for TLC: every revision publishes every    *)
(* Script, or one of them does and the others all but one.                 *)
(***************************************************************************)
EXTENDS ScriptRun, TLC

MCPublishes ==
    [r \in Revision |-> IF r = CHOOSE q \in Revision : TRUE THEN Script
                        ELSE Script \ {CHOOSE x \in Script : TRUE}]

Symmetry == Permutations(Run)
=============================================================================
