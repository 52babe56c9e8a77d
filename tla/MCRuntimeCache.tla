--------------------------- MODULE MCRuntimeCache ---------------------------
(* Two processes, one of two threads, and a revision of two script files. *)
EXTENDS RuntimeCache, TLC

CONSTANTS t1, t2, t3, p1, p2

Threads == (t1 :> p1) @@ (t2 :> p1) @@ (t3 :> p2)
=============================================================================
