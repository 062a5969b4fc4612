--------------------------- MODULE MCCloneImport ---------------------------
(***************************************************************************)
(* One source repository g <- c, exported once before c (in the v1         *)
(* profile) and once after it, with a branch ahead of the head (native),   *)
(* and a v1 exchange that carries a receipt nothing reaches.               *)
(***************************************************************************)
EXTENDS CloneImport, TLC

CONSTANTS g, c

MCTransactions == {g, c}

MCParent == g :> NoTx @@ c :> g

Main(at) == [name |-> "main", from |-> g, at |-> at]

Early == [version |-> "v1", receipts |-> {g}, head |-> g, branches |-> {}]

Late == [version |-> "v2", receipts |-> {g, c}, head |-> g, branches |-> {Main(c)}]

Surplus == [version |-> "v1", receipts |-> {g, c}, head |-> g, branches |-> {}]

MCExchanges == {Early, Late, Surplus}

MCNative == {Late}
=============================================================================
