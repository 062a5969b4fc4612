-------------------------- MODULE MCNativeAttempts --------------------------
(* Small instances of NativeAttempts. *)
EXTENDS NativeAttempts

CONSTANTS g, a, v, o1

\* Only the attempt a writes an object, so that promotion has a step before
\* the receipt.
MCWrites == [i \in Inputs |-> IF i = a THEN {o1} \cap Objects ELSE {}]

Symmetry == Permutations(Procs)
=============================================================================
