------------------------- MODULE MCTestSupervisor -------------------------
(* TestSupervisor with two nonces, two launches and one daemon death.    *)
EXTENDS TestSupervisor
=============================================================================
