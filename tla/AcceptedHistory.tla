-------------------------- MODULE AcceptedHistory --------------------------
(***************************************************************************)
(* What the transaction repository promises its callers: one linear        *)
(* history of accepted transactions.                                       *)
(*                                                                         *)
(* A transaction is identified by the sequence of inputs that leads to it  *)
(* (its id is the digest of a record that names its parent), so a history  *)
(* is one sequence and << >> is the repository without a genesis.          *)
(* `current` is the head that callers see, `survivors` the heads a power   *)
(* loss may leave, `promised` the transactions whose acceptance was        *)
(* reported to a caller.                                                   *)
(***************************************************************************)
EXTENDS Sequences

CONSTANTS Inputs        \* what a single transaction can install

VARIABLES current, survivors, promised

absvars == <<current, survivors, promised>>

Init ==
  /\ current = << >>
  /\ survivors = {<< >>}
  /\ promised = {}

\* One transaction is accepted on top of the current one.
Accept(i) ==
  /\ current' = Append(current, i)
  /\ survivors' = survivors \cup {current'}
  /\ UNCHANGED promised

\* The current head becomes certain to survive.
Settle ==
  /\ survivors' = {current}
  /\ UNCHANGED <<current, promised>>

\* A caller is told that the current head is accepted.  Only a head that
\* survives everything may be reported.
Promise ==
  /\ survivors = {current}
  /\ promised' = promised \cup {current}
  /\ UNCHANGED <<current, survivors>>

\* A power loss falls back to a head that may be on disk.
PowerLoss ==
  /\ current' \in survivors
  /\ survivors' = {current'}
  /\ UNCHANGED promised

Next ==
  \/ \E i \in Inputs : Accept(i)
  \/ Settle
  \/ Promise
  \/ PowerLoss

Spec == Init /\ [][Next]_absvars
=============================================================================
