--------------------------- MODULE StableStorage ---------------------------
(***************************************************************************)
(* The host file system, as far as the repository depends on it.           *)
(*                                                                         *)
(* A cell is one name whose value the program replaces by rename, link,    *)
(* create or unlink: `seen` is what every process reads now, `disk` is the *)
(* set of values that a power loss may leave.  A change is seen at once    *)
(* and is only possibly on disk; syncing the directory that holds the name *)
(* makes it certain.  A process crash changes no cell.                     *)
(***************************************************************************)

\* A cell whose value is certain.
Settled(v) == [seen |-> v, disk |-> {v}]

\* The name now has value v; until the next sync any earlier value that was
\* still possible may come back.
Replace(cell, v) == [seen |-> v, disk |-> cell.disk \cup {v}]

\* fsync of the directory that holds the name.
SyncCell(cell) == Settled(cell.seen)

\* What a power loss may leave of the cell.
AfterPowerLoss(cell) == {Settled(v) : v \in cell.disk}

\* A shelf is a family of names that are only ever added, each with one
\* possible content (the name is a digest of it): `seen` are the names that
\* every process finds now, `safe` those that a power loss cannot take away.
EmptyShelf == [seen |-> {}, safe |-> {}]

\* The name x appears; nothing is synced.
Link(shelf, x) == [shelf EXCEPT !.seen = @ \cup {x}]

\* x and the directory that holds it are synced.
SyncName(shelf, x) == [shelf EXCEPT !.safe = @ \cup {x}]

\* Every directory of the shelf is synced.
SyncShelf(shelf) == [shelf EXCEPT !.safe = shelf.seen]

\* What a power loss may leave of the shelf.
ShelfAfterPowerLoss(shelf) ==
  {[seen |-> S, safe |-> S] : S \in {T \in SUBSET shelf.seen : shelf.safe \subseteq T}}

\* The cells over the values V.
CellOf(V) == {c \in [seen : V, disk : SUBSET V] : c.seen \in c.disk}
=============================================================================
