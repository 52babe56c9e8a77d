-------------------------- MODULE MCStoredContent --------------------------
(***************************************************************************)
(* Small instances of StoredContent for TLC.                               *)
(***************************************************************************)
EXTENDS StoredContent, TLC

Symmetry == Permutations(Worker) \cup Permutations(File)
              \cup Permutations(Selection) \cup Permutations(Deleter)
=============================================================================
