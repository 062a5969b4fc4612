---------------------- MODULE MCTransactionRepository ----------------------
(* Small instances of TransactionRepository. *)
EXTENDS TransactionRepository

CONSTANTS g, a, b, o1, o2

\* Genesis and one candidate write an object each, the other candidate
\* writes both, so that commits share objects and some put finds its object.
MCWrites ==
  [i \in Inputs |->
     (CASE i = g -> {o1} [] i = a -> {o2} [] i = b -> {o1, o2}) \cap Objects]

Symmetry == Permutations(Procs)
=============================================================================
