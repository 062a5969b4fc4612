-------------------------- MODULE MCProtocolServer --------------------------
(* A small instance of ProtocolServer: two roots of one schema epoch.  What  *)
(* another epoch adds is a refusal, which Refuse gives in any case.          *)
EXTENDS ProtocolServer, TLC

CONSTANTS r1, r2, a1, a2

MCRoots == {r1, r2}
MCEpochOf == [r \in MCRoots |-> 1]

MCAttempts == {a1, a2}

\* Nothing tells one root from the other, nor one attempt from the other.
Symmetry == Permutations(MCRoots) \cup Permutations(MCAttempts)
=============================================================================
