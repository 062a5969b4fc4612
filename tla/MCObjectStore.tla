--------------------------- MODULE MCObjectStore ---------------------------
(* Small instances of ObjectStore. *)
EXTENDS ObjectStore, TLC

Symmetry == Permutations(Procs) \cup Permutations(Objects)
=============================================================================
