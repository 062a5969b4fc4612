---------------------------- MODULE MCBranchRefs ----------------------------
(* Small instances of BranchRefs. *)
EXTENDS BranchRefs

CONSTANTS g, a, b

\* A genesis, and two competing successors.
MCFork == {<<g>>, <<g, a>>, <<g, b>>}

Symmetry == Permutations(Procs) \cup Permutations({a, b})
=============================================================================
