-------------------------- MODULE MCProjectServing --------------------------
(***************************************************************************)
(* Small instances of ProjectServing for TLC: every revision that declares *)
(* anything publishes one Script of its own, and all but one source tree   *)
(* publish a shared one beside it.                                         *)
(***************************************************************************)
EXTENDS ProjectServing, TLC

CONSTANTS Shared, Own

MCPublishes ==
    [r \in Rev |-> IF r[2] = Undeclared THEN {}
                   ELSE IF r[1] = CHOOSE d \in Digest : TRUE THEN {Shared}
                   ELSE {Shared, Own}]

Symmetry == Permutations(Job) \cup Permutations(Operator)
=============================================================================
