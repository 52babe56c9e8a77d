-------------------------- MODULE MCSourceIntake --------------------------
(***************************************************************************)
(* A small instance of SourceIntake for TLC: three uploads of one path,    *)
(* one of them confirmed and one by the REST API, and one of another, which *)
(* collides with a third path.                                             *)
(***************************************************************************)
EXTENDS SourceIntake, TLC

CONSTANTS f1, f2, f3, f4, u1, u2, u3, u4

MCTwins == {{f2, f3}}

MCFileOf == (u1 :> f1) @@ (u2 :> f1) @@ (u3 :> f1) @@ (u4 :> f2)
=============================================================================
