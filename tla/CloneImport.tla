---------------------------- MODULE CloneImport ----------------------------
(***************************************************************************)
(* Importing a repository exchange into a target directory, in the v1      *)
(* profile (exchange.rs) and the native profile (native_exchange.rs), with *)
(* the clone phases of the transaction repository.                         *)
(*                                                                         *)
(* An import checks the exchange, looks at the target, installs its stage  *)
(* marker WITHOUT any lock, takes exclusive maintenance without waiting,   *)
(* looks at the target again, installs objects, receipts and branches, the *)
(* head last, and removes the marker.  While any marker is visible every   *)
(* ordinary operation on the root refuses.  Importers race with each other *)
(* and with ordinary users of the root; a process may stop at any point,   *)
(* and so may the host.                                                    *)
(***************************************************************************)
EXTENDS StableStorage, Naturals, FiniteSets

CONSTANTS
  Importers,     \* processes that import
  Users,         \* processes that open the root as an ordinary repository
  Transactions,  \* of the exchanges
  Parent,        \* Parent[t]: the parent transaction, or NoTx
  NoTx,
  LocalGenesis, LocalCommit,  \* what the users commit
  Exchanges,     \* [version, receipts, head, branches]
  NoExchange, NoOne,
  MaxFault,      \* processes stopped and power losses
  MaxUse         \* operations of users

Branches == [name : STRING, from : Transactions, at : Transactions]

ASSUME CloneAssumption ==
  /\ IsFiniteSet(Transactions)
  /\ Parent \in [Transactions -> Transactions \cup {NoTx}]
  /\ NoTx \notin Transactions
  /\ {LocalGenesis, LocalCommit} \cap (Transactions \cup {NoTx}) = {}
  /\ Exchanges \subseteq [version : {"v1", "v2"}, receipts : SUBSET Transactions,
                          head : Transactions, branches : SUBSET Branches]
  /\ NoExchange \notin Exchanges
  /\ NoOne \notin Importers
  /\ MaxFault \in Nat /\ MaxUse \in Nat

VARIABLES
  marker,   \* exchange/<version>/<id>.stage: a cell over none, torn, whole
  temp,     \* exchange/<version>/<id>.stage.tmp
  vdirs,    \* the version directories under exchange/: a shelf
  layout,   \* the root holds more than exchange/
  parts,    \* objects, receipts, branch origins and refs: a shelf
  head,     \* heads/accepted: a cell
  owner,    \* the importer with exclusive maintenance
  imp,      \* importer -> where it is
  user,     \* user -> idle, inside (shared maintenance held), done
  acked,    \* the exchange whose import returned success, until another is
            \* authorised
  faults, uses

vars == <<marker, temp, vdirs, layout, parts, head, owner, imp, user, acked,
          faults, uses>>

fs == <<marker, temp, vdirs, layout, parts, head>>

counts == <<acked, faults, uses>>

-----------------------------------------------------------------------------
(* Exchanges.                                                              *)

\* S and every ancestor of a member of S.
Ancestry(S) ==
  LET up[n \in 0 .. Cardinality(Transactions)] ==
        IF n = 0 THEN S
        ELSE up[n-1] \cup ({Parent[t] : t \in up[n-1] \cap Transactions} \ {NoTx})
  IN up[Cardinality(Transactions)]

Object(t) == [kind |-> "object", name |-> "", from |-> NoTx, at |-> t]

Receipt(t) == [kind |-> "receipt", name |-> "", from |-> NoTx, at |-> t]

Origin(b) == [kind |-> "origin", name |-> b.name, from |-> b.from, at |-> b.from]

Ref(b) == [kind |-> "ref", name |-> b.name, from |-> b.from, at |-> b.at]

PartsOf(e) ==
  (UNION {{Object(t), Receipt(t)} : t \in e.receipts}) \cup
  (UNION {{Origin(b), Ref(b)} : b \in e.branches})

LocalParts == {Receipt(LocalGenesis), Receipt(LocalCommit)}

AllParts == (UNION {PartsOf(e) : e \in Exchanges}) \cup LocalParts

ClosedAncestry(e) ==
  /\ \A t \in e.receipts : Parent[t] \in e.receipts \cup {NoTx}
  /\ Cardinality({t \in e.receipts : Parent[t] = NoTx}) = 1
  /\ e.head \in e.receipts

BranchesValid(e) ==
  /\ \A b \in e.branches : /\ {b.from, b.at} \subseteq e.receipts
                           /\ b.from \in Ancestry({b.at})
  /\ \A b, c \in e.branches : b.name = c.name => b = c

\* Mutant of NoSurplus: branch origins and heads are not followed, receipts
\* nothing reaches are let through.
NoSurplusUnchecked(e) == Ancestry({e.head}) \subseteq e.receipts

NoSurplus(e) ==
  e.receipts = Ancestry({e.head} \cup UNION {{b.from, b.at} : b \in e.branches})

Preflight(e) == ClosedAncestry(e) /\ BranchesValid(e) /\ NoSurplus(e)

-----------------------------------------------------------------------------
(* What a process finds in the target.                                     *)

Marked == \E e \in Exchanges : marker[e].seen # "none"

Siblings(e) == {f \in Exchanges : f.version = e.version}

\* Everything installed belongs to e; objects are not looked at.
BelongsTo(e) ==
  /\ head.seen \in {NoTx, e.head}
  /\ {x \in parts.seen : x.kind # "object"} \subseteq PartsOf(e)

ForeignState(e) ==
  \/ vdirs.seen \ {e.version} # {}
  \/ \E f \in Siblings(e) \ {e} : marker[f].seen # "none" \/ temp[f] # "none"
  \/ marker[e].seen = "torn"

ClassifyTarget(e) ==
  CASE ForeignState(e) -> "refused"
    [] ~ForeignState(e) /\ marker[e].seen = "none" ->
         IF layout THEN "refused" ELSE "fresh"
    [] ~ForeignState(e) /\ marker[e].seen = "whole" ->
         IF BelongsTo(e) THEN "incomplete" ELSE "refused"

-----------------------------------------------------------------------------
IdleImporter == [pc |-> "idle", ex |-> NoExchange, created |-> FALSE,
                 fd |-> "none", part |-> {}, done |-> {}]

Init ==
  /\ marker = [e \in Exchanges |-> Settled("none")]
  /\ temp = [e \in Exchanges |-> "none"]
  /\ vdirs = EmptyShelf
  /\ layout = FALSE
  /\ parts = EmptyShelf
  /\ head = Settled(NoTx)
  /\ owner = NoOne
  /\ imp = [p \in Importers |-> IdleImporter]
  /\ user = [u \in Users |-> "idle"]
  /\ acked = {}
  /\ faults = 0
  /\ uses = 0

\* The maintenance lock is an flock that goes with the process.
Released(p) == IF owner = p THEN NoOne ELSE owner

Return(p) ==
  /\ imp' = [imp EXCEPT ![p] = IdleImporter]
  /\ owner' = Released(p)

At(p, where) == imp[p].pc = where

Goto(p, where) == imp' = [imp EXCEPT ![p].pc = where]

\* Files that other importers of e have open move with the names: `from`
\* becomes `to`.
FilesMove(e, from, to) ==
  [q \in Importers |->
     IF imp[q].ex = e /\ imp[q].fd = from THEN [imp[q] EXCEPT !.fd = to] ELSE imp[q]]

\* fsync of the version directory settles every marker in it.
SyncMarkers(e, m) ==
  [f \in Exchanges |-> IF f \in Siblings(e) THEN SyncCell(m[f]) ELSE m[f]]

-----------------------------------------------------------------------------
(* import_repository_exchange and import_native_exchange.                  *)

\* Preflight and the advisory classification; a refusal changes nothing.
Begin(p, e) ==
  /\ At(p, "idle")
  /\ Preflight(e)
  /\ ClassifyTarget(e) # "refused"
  /\ imp' = [imp EXCEPT ![p] = [IdleImporter EXCEPT !.pc = "mark", !.ex = e]]
  /\ UNCHANGED <<fs, owner, user, counts>>

\* install_stage_marker finds the marker of an earlier import, or of another
\* importer of the same exchange.
FindMarker(p) ==
  LET e == imp[p].ex IN
  /\ At(p, "mark")
  /\ marker[e].seen # "none"
  /\ vdirs' = Link(vdirs, e.version)
  /\ IF marker[e].seen = "whole"
     THEN Goto(p, "lock") /\ UNCHANGED owner
     ELSE Return(p)
  /\ UNCHANGED <<marker, temp, layout, parts, head, user, counts>>

\* A leftover temporary is removed and a new one created.
CreateTemp(p) ==
  LET e == imp[p].ex IN
  /\ At(p, "mark")
  /\ marker[e].seen = "none"
  /\ vdirs' = Link(vdirs, e.version)
  /\ temp' = [temp EXCEPT ![e] = "torn"]
  /\ imp' = [FilesMove(e, "temp", "gone") EXCEPT ![p].pc = "write", ![p].fd = "temp"]
  /\ UNCHANGED <<marker, layout, parts, head, owner, user, counts>>

\* write_all and sync_all reach the file wherever its name is by now.
WriteTemp(p) ==
  LET e == imp[p].ex IN
  /\ At(p, "write")
  /\ temp' = IF imp[p].fd = "temp" THEN [temp EXCEPT ![e] = "whole"] ELSE temp
  /\ marker' = IF imp[p].fd = "marker"
               THEN [marker EXCEPT ![e] = [seen |-> "whole",
                                           disk |-> (@.disk \ {"torn"}) \cup {"whole"}]]
               ELSE marker
  /\ Goto(p, "rename")
  /\ UNCHANGED <<vdirs, layout, parts, head, owner, user, counts>>

RenameMarker(p) ==
  LET e == imp[p].ex IN
  /\ At(p, "rename")
  /\ temp[e] # "none"
  /\ marker' = [marker EXCEPT ![e] = Replace(@, temp[e])]
  /\ temp' = [temp EXCEPT ![e] = "none"]
  /\ imp' = [FilesMove(e, "temp", "marker")
               EXCEPT ![p].pc = "sync", ![p].fd = "none", ![p].created = TRUE]
  /\ UNCHANGED <<vdirs, layout, parts, head, owner, user, counts>>

\* Another importer of the same exchange renamed or removed the temporary.
RenameFails(p) ==
  /\ At(p, "rename")
  /\ temp[imp[p].ex] = "none"
  /\ Return(p)
  /\ UNCHANGED <<fs, user, counts>>

\* exchange/<version>/, exchange/ and the target are synced.
SyncMarker(p) ==
  LET e == imp[p].ex IN
  /\ At(p, "sync")
  /\ marker' = SyncMarkers(e, marker)
  /\ vdirs' = SyncShelf(vdirs)
  /\ Goto(p, "lock")
  /\ UNCHANGED <<temp, layout, parts, head, owner, user, counts>>

Inside == {u \in Users : user[u] # "idle"}

\* initialize_repository_maintenance, then the lock without waiting.
TakeLock(p) ==
  /\ At(p, "lock")
  /\ owner = NoOne /\ Inside = {}
  /\ owner' = p
  /\ layout' = TRUE
  /\ Goto(p, "own")
  /\ UNCHANGED <<marker, temp, vdirs, parts, head, user, counts>>

\* Mutant of LockHeld: the marker is taken back, as in the refusal below.
LockHeldUnmarks(p) ==
  LET e == imp[p].ex IN
  /\ At(p, "lock")
  /\ owner # NoOne \/ Inside # {}
  /\ layout' = TRUE
  /\ marker' = IF imp[p].created
               THEN SyncMarkers(e, [marker EXCEPT ![e] = Replace(@, "none")])
               ELSE marker
  /\ Return(p)
  /\ UNCHANGED <<temp, vdirs, parts, head, user, counts>>

\* The lock is held: the import fails and its marker stays.
LockHeld(p) ==
  /\ At(p, "lock")
  /\ owner # NoOne \/ Inside # {}
  /\ layout' = TRUE
  /\ Return(p)
  /\ UNCHANGED <<marker, temp, vdirs, parts, head, user, counts>>

\* Mutant of OwnTarget: the advisory classification is trusted.
OwnTargetUnchecked(p) ==
  /\ At(p, "own")
  /\ Goto(p, "install")
  /\ acked' = acked \cap {imp[p].ex}
  /\ UNCHANGED <<fs, owner, user, faults, uses>>

\* The owned classification is the one that authorises writes.
OwnTarget(p) ==
  /\ At(p, "own")
  /\ ClassifyTarget(imp[p].ex) = "incomplete"
  /\ Goto(p, "install")
  /\ acked' = acked \cap {imp[p].ex}
  /\ UNCHANGED <<fs, owner, user, faults, uses>>

\* v1 takes back a marker that this import created.  The native importer
\* leaves with `?` when the classification is an error, which it is here in
\* every case but "fresh", and the lock file rules out "fresh".
RefuseTarget(p) ==
  LET e == imp[p].ex
      result == ClassifyTarget(e)
      unmarks == imp[p].created /\ (e.version = "v1" \/ result = "fresh")
  IN
  /\ At(p, "own")
  /\ result # "incomplete"
  /\ \/ /\ unmarks
        /\ marker' = SyncMarkers(e, [marker EXCEPT ![e] = Replace(@, "none")])
        /\ imp' = [FilesMove(e, "marker", "gone") EXCEPT ![p] = IdleImporter]
     \/ ~unmarks /\ UNCHANGED marker /\ imp' = [imp EXCEPT ![p] = IdleImporter]
  /\ owner' = Released(p)
  /\ UNCHANGED <<temp, vdirs, layout, parts, head, user, counts>>

-----------------------------------------------------------------------------
(* The clone phases: objects, then receipts parents first, then each       *)
(* branch's origin and ref, then the head.                                 *)

Phase == [object |-> 1, receipt |-> 2, origin |-> 3, ref |-> 3]

Left(p) == PartsOf(imp[p].ex) \ imp[p].done

\* The receipt phase runs in a marked root whose head is absent or the
\* exchange's own.
ReceiptsAdmitted(e) ==
  /\ Marked
  /\ head.seen = NoTx \/ (head.seen = e.head /\ Receipt(e.head) \in parts.seen)

Ready(p, x) ==
  /\ \A y \in Left(p) : Phase[x.kind] <= Phase[y.kind]
  /\ x.kind = "receipt" =>
       /\ ReceiptsAdmitted(imp[p].ex)
       /\ Parent[x.at] = NoTx \/ Receipt(Parent[x.at]) \in imp[p].done
  /\ x.kind = "ref" => \E y \in imp[p].done : y.kind = "origin" /\ y.name = x.name

\* Mutant of LinkPart: exact bytes that are already there are not synced
\* again.
LinkPartTrusting(p, x) ==
  /\ At(p, "install")
  /\ x \in Left(p)
  /\ Ready(p, x)
  /\ parts' = Link(parts, x)
  /\ imp' = [imp EXCEPT ![p].pc = IF x \in parts.seen THEN "install" ELSE "syncpart",
                        ![p].part = {x}, ![p].done = @ \cup {x}]
  /\ UNCHANGED <<marker, temp, vdirs, layout, head, owner, user, counts>>

\* put, persist_receipt and persist_no_overwrite: link the verified stage
\* under its final name, or find the exact bytes there ...
LinkPart(p, x) ==
  /\ At(p, "install")
  /\ x \in Left(p)
  /\ Ready(p, x)
  /\ parts' = Link(parts, x)
  /\ imp' = [imp EXCEPT ![p].pc = "syncpart", ![p].part = {x},
                        ![p].done = @ \cup {x}]
  /\ UNCHANGED <<marker, temp, vdirs, layout, head, owner, user, counts>>

\* ... and sync it, found or new.
SyncPart(p) ==
  /\ At(p, "syncpart")
  /\ parts' = [parts EXCEPT !.safe = @ \cup imp[p].part]
  /\ imp' = [imp EXCEPT ![p].pc = "install", ![p].part = {}]
  /\ UNCHANGED <<marker, temp, vdirs, layout, head, owner, user, counts>>

\* initialize_trusted_clone_head: the ancestry of the head can be read.
HeadAdmitted(p) ==
  /\ At(p, "install")
  /\ Left(p) = {}
  /\ Marked
  /\ {Receipt(t) : t \in Ancestry({imp[p].ex.head})} \subseteq parts.seen

InstallHead(p) ==
  /\ HeadAdmitted(p)
  /\ head.seen = NoTx
  /\ head' = Replace(head, imp[p].ex.head)
  /\ Goto(p, "synchead")
  /\ UNCHANGED <<marker, temp, vdirs, layout, parts, owner, user, counts>>

SyncHead(p) ==
  /\ At(p, "synchead")
  /\ head' = SyncCell(head)
  /\ Goto(p, "unmark")
  /\ UNCHANGED <<marker, temp, vdirs, layout, parts, owner, user, counts>>

\* Mutant of KeepHead: any head means that the root is initialized.
KeepHeadRefused(p) ==
  /\ HeadAdmitted(p)
  /\ head.seen = imp[p].ex.head
  /\ Return(p)
  /\ UNCHANGED <<fs, user, counts>>

\* A head that is already the exchange's own is not written again, and its
\* directory is not synced either.
KeepHead(p) ==
  /\ HeadAdmitted(p)
  /\ head.seen = imp[p].ex.head
  /\ Goto(p, "unmark")
  /\ UNCHANGED <<fs, owner, user, counts>>

RemoveMarker(p) ==
  LET e == imp[p].ex IN
  /\ At(p, "unmark")
  /\ marker' = [marker EXCEPT ![e] = Replace(@, "none")]
  /\ imp' = [FilesMove(e, "marker", "gone") EXCEPT ![p].pc = "syncunmark"]
  /\ UNCHANGED <<temp, vdirs, layout, parts, head, owner, user, counts>>

Finish(p) ==
  /\ At(p, "syncunmark")
  /\ marker' = SyncMarkers(imp[p].ex, marker)
  /\ acked' = acked \cup {imp[p].ex}
  /\ Return(p)
  /\ UNCHANGED <<temp, vdirs, layout, parts, head, user, faults, uses>>

-----------------------------------------------------------------------------
(* Ordinary use of the root, as in TransactionRepository: genesis where    *)
(* there is no head, a commit where there is one.                          *)

UserEnter(u) ==
  /\ user[u] = "idle" /\ uses < MaxUse
  /\ owner = NoOne
  /\ user' = [user EXCEPT ![u] = "inside"]
  /\ layout' = TRUE
  /\ uses' = uses + 1
  /\ UNCHANGED <<marker, temp, vdirs, parts, head, owner, imp, acked, faults>>

UserCommit(u) ==
  LET t == IF head.seen = NoTx THEN LocalGenesis ELSE LocalCommit IN
  /\ user[u] = "inside"
  /\ ~Marked
  /\ head.seen # LocalCommit
  /\ parts' = SyncName(Link(parts, Receipt(t)), Receipt(t))
  /\ head' = Settled(t)
  /\ user' = [user EXCEPT ![u] = "done"]
  /\ UNCHANGED <<marker, temp, vdirs, layout, owner, imp, counts>>

\* A read, or TXN_INCOMPLETE_CLONE.
UserReads(u) ==
  /\ user[u] = "inside"
  /\ user' = [user EXCEPT ![u] = "done"]
  /\ UNCHANGED <<fs, owner, imp, counts>>

UserLeave(u) ==
  /\ user[u] = "done"
  /\ user' = [user EXCEPT ![u] = "idle"]
  /\ UNCHANGED <<fs, owner, imp, counts>>

-----------------------------------------------------------------------------
(* An importer stops: killed, or an I/O error at some step.                *)
Stop(p) ==
  /\ ~At(p, "idle") /\ faults < MaxFault
  /\ faults' = faults + 1
  /\ Return(p)
  /\ UNCHANGED <<fs, user, acked, uses>>

\* A marker or temporary is found again only with its directory.
PowerLoss ==
  /\ faults < MaxFault
  /\ faults' = faults + 1
  /\ parts' \in ShelfAfterPowerLoss(parts)
  /\ head' \in AfterPowerLoss(head)
  /\ vdirs' \in ShelfAfterPowerLoss(vdirs)
  /\ \E m \in [Exchanges -> {Settled("none"), Settled("torn"), Settled("whole")}] :
       /\ \A e \in Exchanges :
            m[e] \in {c \in AfterPowerLoss(marker[e]) :
                        c.seen # "none" => e.version \in vdirs'.seen}
       /\ marker' = m
  /\ \E S \in SUBSET {e \in Exchanges : e.version \in vdirs'.seen} :
       temp' = [e \in Exchanges |-> IF e \in S THEN temp[e] ELSE "none"]
  /\ owner' = NoOne
  /\ imp' = [p \in Importers |-> IdleImporter]
  /\ user' = [u \in Users |-> "idle"]
  /\ UNCHANGED <<layout, acked, uses>>

-----------------------------------------------------------------------------
ImportStep(p) ==
  \/ FindMarker(p) \/ CreateTemp(p) \/ WriteTemp(p)
  \/ RenameMarker(p) \/ RenameFails(p) \/ SyncMarker(p)
  \/ TakeLock(p) \/ LockHeld(p) \/ OwnTarget(p) \/ RefuseTarget(p)
  \/ \E x \in AllParts : LinkPart(p, x)
  \/ SyncPart(p) \/ InstallHead(p) \/ SyncHead(p) \/ KeepHead(p)
  \/ RemoveMarker(p) \/ Finish(p)

UserStep(u) == UserEnter(u) \/ UserCommit(u) \/ UserReads(u) \/ UserLeave(u)

Next ==
  \/ \E p \in Importers :
       \/ ImportStep(p) \/ Stop(p)
       \/ \E e \in Exchanges : Begin(p, e)
  \/ \E u \in Users : UserStep(u)
  \/ PowerLoss

Spec == Init /\ [][Next]_vars

\* A failed import is tried again; users leave what they entered.
Fairness ==
  /\ \A p \in Importers : /\ WF_vars(ImportStep(p))
                          /\ WF_vars(\E e \in Exchanges : Begin(p, e))
  /\ \A u \in Users : WF_vars(UserCommit(u) \/ UserReads(u) \/ UserLeave(u))

FairSpec == Spec /\ Fairness

-----------------------------------------------------------------------------
(* Properties.                                                             *)

TypeOK ==
  /\ marker \in [Exchanges -> CellOf({"none", "torn", "whole"})]
  /\ temp \in [Exchanges -> {"none", "torn", "whole"}]
  /\ vdirs \in [seen : SUBSET {"v1", "v2"}, safe : SUBSET {"v1", "v2"}]
  /\ layout \in BOOLEAN
  /\ parts \in [seen : SUBSET AllParts, safe : SUBSET AllParts]
  /\ parts.safe \subseteq parts.seen
  /\ head \in CellOf(Transactions \cup {NoTx, LocalGenesis, LocalCommit})
  /\ owner \in Importers \cup {NoOne}
  /\ imp \in [Importers ->
       [pc : {"idle", "mark", "write", "rename", "sync", "lock", "own", "install",
              "syncpart", "synchead", "unmark", "syncunmark"},
        ex : Exchanges \cup {NoExchange}, created : BOOLEAN,
        fd : {"none", "temp", "marker", "gone"},
        part : SUBSET AllParts, done : SUBSET AllParts]]
  /\ user \in [Users -> {"idle", "inside", "done"}]
  /\ acked \subseteq Exchanges
  /\ faults \in 0 .. MaxFault /\ uses \in 0 .. MaxUse

\* An accepted head that a power loss may leave has its whole ancestry on
\* disk: every receipt and every object (the head is written last, and what
\* an earlier import left is synced again).
HeadIsWhole ==
  \A h \in head.disk \cap Transactions :
    \A t \in Ancestry({h}) : {Receipt(t), Object(t)} \subseteq parts.safe

\* The write guard is up as long as an importer installs: no importer that
\* lost the race for the lock, and no one it raced with, takes it down.
GuardHolds ==
  \A p \in Importers :
    imp[p].pc \in {"install", "syncpart", "synchead", "unmark"} =>
      owner = p /\ marker[imp[p].ex].seen = "whole"

\* What the root holds now, exported: the visible branches and the closure of
\* the head and of the branch heads under parents.
Exported ==
  LET refs == {x \in parts.seen : x.kind = "ref"}
  IN [head |-> head.seen,
      receipts |-> Ancestry({head.seen} \cup {x.at : x \in refs}),
      branches |-> {[name |-> x.name, from |-> x.from, at |-> x.at] : x \in refs}]

\* A clone exports the exchange it was made from, also when the import was
\* interrupted and retried: nothing missing, nothing besides.  (An importer
\* that looked before may still turn it into the clone of a larger exchange
\* with the same head: BelongsTo is all that the owned classification asks.)
CloneReexports ==
  \A e \in acked :
    head.seen = e.head =>
      /\ Exported = [head |-> e.head, receipts |-> e.receipts, branches |-> e.branches]
      /\ {x \in parts.seen : x.kind # "object"} \subseteq PartsOf(e)
      /\ PartsOf(e) \subseteq parts.safe

\* Imported bytes never become part of a repository or of a partial clone of
\* something else: an importer adds to a root only what belongs with all that
\* is there, whoever changed the root since the advisory look.
ImportNeverGrafts ==
  [][ \A p \in Importers :
        (At(p, "install") /\ imp'[p].pc \in {"syncpart", "synchead"}) =>
          BelongsTo(imp[p].ex) ]_vars

\* The root is a partial clone of e and says so.
SoleMarker(e) ==
  /\ marker[e].seen = "whole"
  /\ ~ForeignState(e)
  /\ BelongsTo(e)

\* Retry converges: no root stays the marked partial clone of one exchange,
\* wherever earlier imports were interrupted.
ResumeEnds == \A e \in Exchanges : Preflight(e) => []<>(~SoleMarker(e))

\* "A marker this call wrote must not jam a target it will not clone"
\* (exchange.rs): an import that created its marker, holds the root and returns
\* because the owned classification refuses the target takes the marker back.
\* (Where the lock is held by somebody else both importers leave it, by design;
\* a stop or a power loss is no return.)
NoStrayMarker ==
  [][ \A p \in Importers :
        At(p, "own") /\ imp[p].created /\ imp'[p].pc = "idle" /\ faults' = faults =>
          marker'[imp[p].ex].seen = "none" ]_vars
=============================================================================
