---------------------------- MODULE ObjectShelf ----------------------------
(***************************************************************************)
(* What the object store promises, and all that TransactionRepository uses *)
(* of it: an object appears whole, a put returns only when the object can  *)
(* no longer be lost, and only an object that no put returned for can      *)
(* vanish in a power loss.                                                 *)
(***************************************************************************)
EXTENDS StableStorage

CONSTANT Objects

VARIABLES shelf, returned

shelfvars == <<shelf, returned>>

Init == shelf = EmptyShelf /\ returned = {}

Appear(o) == shelf' = Link(shelf, o) /\ UNCHANGED returned

Secure(S) ==
  /\ shelf' = [shelf EXCEPT !.safe = @ \cup S]
  /\ UNCHANGED returned

Return(o) ==
  /\ o \in shelf.safe
  /\ returned' = returned \cup {o}
  /\ UNCHANGED shelf

PowerLoss ==
  /\ shelf' \in ShelfAfterPowerLoss(shelf)
  /\ UNCHANGED returned

Next ==
  \/ \E o \in Objects : Appear(o) \/ Return(o)
  \/ \E S \in SUBSET shelf.seen : Secure(S)
  \/ PowerLoss

Spec == Init /\ [][Next]_shelfvars
=============================================================================
