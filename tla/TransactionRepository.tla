----------------------- MODULE TransactionRepository -----------------------
(***************************************************************************)
(* sley-txn: trusted genesis, atomic commit, verified reads and startup    *)
(* recovery of one repository root, run by any number of processes.        *)
(*                                                                         *)
(* A transaction is the sequence of inputs from the genesis to it: its id  *)
(* is a digest over its record, which names the parent, so two commits of  *)
(* one input on one parent are the same transaction and write the same     *)
(* receipt bytes.  << >> stands for "no head".                             *)
(*                                                                         *)
(* A process that dies and an operation that returns an I/O error leave    *)
(* the same thing behind: what was written so far stays, and the flocks    *)
(* are released with the file handles.  Abandon is both.  PowerLoss takes  *)
(* every process at once and loses whatever was not synced.                *)
(*                                                                         *)
(* The object store is used through what ObjectStore.tla shows of it: a    *)
(* put that returned leaves a synced object, one that was interrupted may  *)
(* leave an object that is visible and not synced.  No operation of this   *)
(* module writes the incomplete-clone marker, so the checks for it pass.   *)
(***************************************************************************)
EXTENDS StableStorage, Naturals, FiniteSets, SequencesExt

CONSTANTS
  Procs,         \* processes or threads that open the repository
  NoProc,        \* nobody holds the lock
  Candidates,    \* candidate inputs of ordinary commits
  Genesis,       \* the trusted genesis input
  Objects,       \* object ids
  Writes,        \* the objects in the manifest of an input
  MaxAncestry,   \* ACCEPTED_RECOVERY_MAX_ANCESTRY_TRANSACTIONS
  MaxLen         \* bound of the model: longest history that is extended

Inputs == Candidates \cup {Genesis}

ASSUME ProcsAssumption == NoProc \notin Procs
ASSUME InputsAssumption ==
  /\ Genesis \notin Candidates
  /\ Writes \in [Inputs -> SUBSET Objects]
ASSUME BoundsAssumption == MaxAncestry \in Nat /\ MaxLen \in Nat

VARIABLES
  maintenance,   \* flock on locks/maintenance.lock: shared and exclusive holders
  lock,          \* holder of the exclusive flock on locks/accepted.lock
  objects,       \* shelf of final object files
  receipts,      \* shelf of final receipt files
  head,          \* cell of heads/accepted
  stages,        \* stage files that exist, as <<kind, owner>>
  limbo,         \* removed stage files whose removal is not synced
  pc, op, todo,  \* per process: next step, operation, objects still to put
  promised       \* transactions that a caller was told are accepted

disk == <<objects, receipts, head, stages, limbo>>
local == <<pc, op, todo>>
vars == <<maintenance, lock, disk, local, promised>>

StageKinds == {"object", "receipt", "head"}
Transactions == Seq(Inputs)

\* The operations a caller may start.  Native commits are added by
\* NativeAttempts.tla, which shares everything from persist_objects on.
Operations ==
  [kind : {"genesis", "commit", "native", "read", "recover"},
   parent : Transactions, input : Inputs]

\* No operation is under way.
NoOperation == [kind |-> "read", parent |-> << >>, input |-> Genesis]

\* The transaction that p's operation builds.
Target(p) == Append(op[p].parent, op[p].input)

\* Every object that the state of t or of an ancestor of t binds.
Inventory(t) == UNION {Writes[t[i]] : i \in 1 .. Len(t)}

\* t and the transactions it descends from, down to the genesis.
Ancestry(t) == {SubSeq(t, 1, i) : i \in 1 .. Len(t)}

\* load_accepted: the receipt, the receipt of its parent and the objects of
\* its state are there.  (A file that is there has the content its name
\* says: ObjectStore.tla.  Nothing is deleted here, so the objects of its
\* ancestors are there if its own are: GarbageCollection.tla has the rest.)
Loads(t) ==
  /\ t \in receipts.seen
  /\ Len(t) > 1 => Front(t) \in receipts.seen
  /\ Inventory(t) \subseteq objects.seen

\* verify_accepted_recovery_ancestry: the whole chain down to the genesis,
\* with every object it binds, within the work limit.
AncestryVerifies(t) ==
  /\ Len(t) <= MaxAncestry
  /\ Ancestry(t) \subseteq receipts.seen
  /\ Inventory(t) \subseteq objects.seen
-----------------------------------------------------------------------------
Init ==
  /\ maintenance = [shared |-> {}, exclusive |-> NoProc]
  /\ lock = NoProc
  /\ objects = EmptyShelf
  /\ receipts = EmptyShelf
  /\ head = Settled(<< >>)
  /\ stages = {}
  /\ limbo = {}
  /\ pc = [p \in Procs |-> "idle"]
  /\ op = [p \in Procs |-> NoOperation]
  /\ todo = [p \in Procs |-> {}]
  /\ promised = {}

Goto(p, label) == pc' = [pc EXCEPT ![p] = label]

\* The operation ends: both guards are dropped with their file handles.
Release(p) ==
  /\ Goto(p, "idle")
  /\ op' = [op EXCEPT ![p] = NoOperation]
  /\ todo' = [todo EXCEPT ![p] = {}]
  /\ lock' = IF lock = p THEN NoProc ELSE lock
  /\ maintenance' =
       [shared |-> maintenance.shared \ {p},
        exclusive |-> IF maintenance.exclusive = p THEN NoProc ELSE maintenance.exclusive]

\* A caller starts an operation.
Begin(p, o) ==
  /\ pc[p] = "idle"
  /\ op' = [op EXCEPT ![p] = o]
  /\ Goto(p, "maintenance")
  /\ UNCHANGED <<maintenance, lock, disk, todo, promised>>

BeginGenesis(p) == Begin(p, [kind |-> "genesis", parent |-> << >>, input |-> Genesis])

\* The caller names the parent it has seen, which need not be the head.
BeginCommit(p, t, c) ==
  /\ t # << >> /\ Len(t) < MaxLen
  /\ Begin(p, [kind |-> "commit", parent |-> t, input |-> c])

BeginRead(p) == Begin(p, [kind |-> "read", parent |-> << >>, input |-> Genesis])

BeginRecover(p) == Begin(p, [kind |-> "recover", parent |-> << >>, input |-> Genesis])

\* Shared maintenance ownership, waited for: genesis, commit and reads.
AcquireShared(p) ==
  /\ pc[p] = "maintenance" /\ op[p].kind # "recover"
  /\ maintenance.exclusive = NoProc
  /\ maintenance' = [maintenance EXCEPT !.shared = @ \cup {p}]
  /\ Goto(p, "lock")
  /\ UNCHANGED <<lock, disk, op, todo, promised>>

\* Mutant of AcquireExclusive: recovery takes the accepted lock first.
AcquireExclusiveLockFirst(p) ==
  /\ pc[p] = "maintenance" /\ op[p].kind = "recover"
  /\ \/ /\ lock = NoProc
        /\ lock' = p
        /\ UNCHANGED <<pc, maintenance>>
     \/ /\ lock = p
        /\ maintenance.exclusive = NoProc /\ maintenance.shared = {}
        /\ maintenance' = [maintenance EXCEPT !.exclusive = p]
        /\ Goto(p, "plan")
        /\ UNCHANGED lock
  /\ UNCHANGED <<disk, op, todo, promised>>

\* Mutant of AcquireExclusive: recovery runs without ownership.
AcquireNothing(p) ==
  /\ pc[p] = "maintenance" /\ op[p].kind = "recover"
  /\ Goto(p, "plan")
  /\ UNCHANGED <<maintenance, lock, disk, op, todo, promised>>

\* Exclusive maintenance ownership, waited for: recovery.
AcquireExclusive(p) ==
  /\ pc[p] = "maintenance" /\ op[p].kind = "recover"
  /\ maintenance.exclusive = NoProc /\ maintenance.shared = {}
  /\ maintenance' = [maintenance EXCEPT !.exclusive = p]
  /\ Goto(p, "lock")
  /\ UNCHANGED <<lock, disk, op, todo, promised>>

\* Mutant of AcquireLock: the lock is taken without waiting for its holder.
AcquireLockShared(p) ==
  /\ pc[p] = "lock"
  /\ lock' = p
  /\ Goto(p, IF op[p].kind = "recover" THEN "plan" ELSE "check")
  /\ UNCHANGED <<maintenance, disk, op, todo, promised>>

\* The accepted lock, waited for, after the maintenance lock.
AcquireLock(p) ==
  /\ pc[p] = "lock"
  /\ lock = NoProc
  /\ lock' = p
  /\ Goto(p, IF op[p].kind = "recover" THEN "plan" ELSE "check")
  /\ UNCHANGED <<maintenance, disk, op, todo, promised>>
-----------------------------------------------------------------------------
(* Under the accepted lock: genesis, commit and accepted_head.             *)

\* accepted_head: the head is read and verified, nothing is written.
FinishRead(p) ==
  /\ pc[p] = "check" /\ op[p].kind = "read"
  /\ Release(p)
  /\ UNCHANGED <<disk, promised>>

\* TXN_HEAD_MISSING, StaleRoot and TXN_ALREADY_INITIALIZED: the head is not
\* the one the operation builds on.
RefuseStale(p) ==
  /\ pc[p] = "check" /\ op[p].kind \in {"genesis", "commit"}
  /\ head.seen # op[p].parent
  /\ Release(p)
  /\ UNCHANGED <<disk, promised>>

\* The parent does not load, validation rejects the input, or the candidate
\* selects tests that this commit cannot run.
RefuseInput(p) ==
  /\ pc[p] = "check" /\ op[p].kind \in {"genesis", "commit"}
  /\ head.seen = op[p].parent
  /\ Release(p)
  /\ UNCHANGED <<disk, promised>>

\* The input is accepted for promotion: the manifest is known from here on.
Admit(p) ==
  /\ pc[p] = "check" /\ op[p].kind \in {"genesis", "commit"}
  /\ head.seen = op[p].parent
  /\ op[p].kind = "commit" => Loads(head.seen)
  /\ todo' = [todo EXCEPT ![p] = Writes[op[p].input]]
  /\ Goto(p, "objects")
  /\ UNCHANGED <<maintenance, lock, disk, op, promised>>

\* persist_objects, one put: the staged object becomes visible ...
PutLink(p, o) ==
  /\ pc[p] = "objects" /\ o \in todo[p]
  /\ o \notin objects.seen
  /\ objects' = Link(objects, o)
  /\ stages' = stages \cup {<<"object", p>>}
  /\ UNCHANGED <<maintenance, lock, receipts, head, limbo, local, promised>>

\* Mutant of PutReturn: the put reports success for an object that is not there.
PutReturnUnchecked(p, o) ==
  /\ pc[p] = "objects" /\ o \in todo[p]
  /\ objects' = SyncName(objects, o)
  /\ stages' = stages \ {<<"object", p>>}
  /\ todo' = [todo EXCEPT ![p] = @ \ {o}]
  /\ UNCHANGED <<maintenance, lock, receipts, head, limbo, pc, op, promised>>

\* ... and the put returns once it is synced and its stage is gone.  An
\* object that was there before is synced too.
PutReturn(p, o) ==
  /\ pc[p] = "objects" /\ o \in todo[p]
  /\ o \in objects.seen
  /\ objects' = SyncName(objects, o)
  /\ stages' = stages \ {<<"object", p>>}
  /\ todo' = [todo EXCEPT ![p] = @ \ {o}]
  /\ UNCHANGED <<maintenance, lock, receipts, head, limbo, pc, op, promised>>

\* Mutant of AdoptReceipt: an existing receipt is taken as durable.
AdoptReceiptUnsynced(p) ==
  /\ pc[p] = "objects" /\ todo[p] = {}
  /\ Target(p) \in receipts.seen
  /\ Goto(p, "cas")
  /\ UNCHANGED <<maintenance, lock, disk, op, todo, promised>>

\* persist_receipt when the final receipt exists: it is the same receipt, and
\* it is synced before the commit goes on.
AdoptReceipt(p) ==
  /\ pc[p] = "objects" /\ todo[p] = {}
  /\ Target(p) \in receipts.seen
  /\ receipts' = SyncName(receipts, Target(p))
  /\ Goto(p, "cas")
  /\ UNCHANGED <<maintenance, lock, objects, head, stages, limbo, op, todo, promised>>

\* persist_receipt otherwise: stage, write, sync, verify ...
StageReceipt(p) ==
  /\ pc[p] = "objects" /\ todo[p] = {}
  /\ Target(p) \notin receipts.seen
  /\ stages' = stages \cup {<<"receipt", p>>}
  /\ Goto(p, "link")
  /\ UNCHANGED <<maintenance, lock, objects, receipts, head, limbo, op, todo, promised>>

\* ... hard link to the final name; the staged file must still be there ...
LinkReceipt(p) ==
  /\ pc[p] = "link"
  /\ <<"receipt", p>> \in stages
  /\ receipts' = Link(receipts, Target(p))
  /\ Goto(p, "syncReceipt")
  /\ UNCHANGED <<maintenance, lock, objects, head, stages, limbo, op, todo, promised>>

\* ... first sync of the leaf directory ...
SyncReceipt(p) ==
  /\ pc[p] = "syncReceipt"
  /\ receipts' = SyncName(receipts, Target(p))
  /\ Goto(p, "unlink")
  /\ UNCHANGED <<maintenance, lock, objects, head, stages, limbo, op, todo, promised>>

\* ... the stage is removed, the leaf synced again, the final re-read.
UnlinkReceiptStage(p) ==
  /\ pc[p] = "unlink"
  /\ stages' = stages \ {<<"receipt", p>>}
  /\ Target(p) \in receipts.seen
  /\ Goto(p, "cas")
  /\ UNCHANGED <<maintenance, lock, objects, receipts, head, limbo, op, todo, promised>>

\* cas_head: the head is still the parent (otherwise TXN_REF_CAS_STALE, which
\* Abandon covers), and the new one is staged ...
StageHead(p) ==
  /\ pc[p] = "cas"
  /\ head.seen = op[p].parent
  /\ stages' = stages \cup {<<"head", p>>}
  /\ Goto(p, "rename")
  /\ UNCHANGED <<maintenance, lock, objects, receipts, head, limbo, op, todo, promised>>

\* ... the stage is renamed over heads/accepted ...
RenameHead(p) ==
  /\ pc[p] = "rename"
  /\ <<"head", p>> \in stages
  /\ head' = Replace(head, Target(p))
  /\ stages' = stages \ {<<"head", p>>}
  /\ Goto(p, "syncHead")
  /\ UNCHANGED <<maintenance, lock, objects, receipts, limbo, op, todo, promised>>

\* Mutant of SyncHead: success is reported without the sync.
SyncHeadSkipped(p) ==
  /\ pc[p] = "syncHead"
  /\ Goto(p, "confirm")
  /\ UNCHANGED <<maintenance, lock, disk, op, todo, promised>>

\* ... the head directory is synced ...
SyncHead(p) ==
  /\ pc[p] = "syncHead"
  /\ head' = SyncCell(head)
  /\ Goto(p, "confirm")
  /\ UNCHANGED <<maintenance, lock, objects, receipts, stages, limbo, op, todo, promised>>

\* ... and re-read; genesis also loads what it installed.  The caller is told.
Confirm(p) ==
  /\ pc[p] = "confirm" /\ op[p].kind \in {"genesis", "commit"}
  /\ head.seen = Target(p)
  /\ op[p].kind = "genesis" => Loads(head.seen)
  /\ promised' = promised \cup {Target(p)}
  /\ Release(p)
  /\ UNCHANGED disk
-----------------------------------------------------------------------------
(* recover: exclusive maintenance and the accepted lock are held.          *)

\* The owned stages are listed and the accepted ancestry verified; an empty
\* repository has nothing to verify.  Nothing has been removed so far.
PlanRecovery(p) ==
  /\ pc[p] = "plan"
  /\ head.seen = << >> \/ AncestryVerifies(head.seen)
  /\ Goto(p, "journal")
  /\ UNCHANGED <<maintenance, lock, disk, op, todo, promised>>

\* reconcile_attempt_journal without an attempt journal: nothing to do.
NoJournal(p) ==
  /\ pc[p] = "journal"
  /\ Goto(p, "sweepObject")
  /\ UNCHANGED <<maintenance, lock, disk, op, todo, promised>>

\* The ancestry does not verify, or exceeds the work limits.
RefuseRecovery(p) ==
  /\ pc[p] = "plan"
  /\ head.seen # << >> /\ ~AncestryVerifies(head.seen)
  /\ Release(p)
  /\ UNCHANGED <<disk, promised>>

SweepLabel(kind) ==
  CASE kind = "object" -> "sweepObject"
    [] kind = "receipt" -> "sweepReceipt"
    [] kind = "head" -> "sweepHead"

AfterSweep(kind) ==
  CASE kind = "object" -> "sweepReceipt"
    [] kind = "receipt" -> "sweepHead"
    [] kind = "head" -> "report"

\* One stage file of the kind is removed.
RemoveStage(p, s) ==
  /\ pc[p] = SweepLabel(s[1])
  /\ s \in stages
  /\ stages' = stages \ {s}
  /\ limbo' = limbo \cup {s}
  /\ UNCHANGED <<maintenance, lock, objects, receipts, head, local, promised>>

\* Mutant of SyncSweep: the stage directories are synced, the head's is not.
SyncSweepNotHead(p, kind) ==
  /\ pc[p] = SweepLabel(kind)
  /\ \A s \in stages : s[1] # kind
  /\ limbo' = {s \in limbo : s[1] # kind}
  /\ objects' = IF kind = "object" THEN SyncShelf(objects) ELSE objects
  /\ receipts' = IF kind = "receipt" THEN SyncShelf(receipts) ELSE receipts
  /\ Goto(p, AfterSweep(kind))
  /\ UNCHANGED <<maintenance, lock, head, stages, op, todo, promised>>

\* All of the kind are gone: their directories are synced, and with them the
\* final names they hold (the data of a final file is synced before its link).
SyncSweep(p, kind) ==
  /\ pc[p] = SweepLabel(kind)
  /\ \A s \in stages : s[1] # kind
  /\ limbo' = {s \in limbo : s[1] # kind}
  /\ objects' = IF kind = "object" THEN SyncShelf(objects) ELSE objects
  /\ receipts' = IF kind = "receipt" THEN SyncShelf(receipts) ELSE receipts
  /\ head' = IF kind = "head" THEN SyncCell(head) ELSE head
  /\ Goto(p, AfterSweep(kind))
  /\ UNCHANGED <<maintenance, lock, stages, op, todo, promised>>

\* The report names the accepted transaction.
Report(p) ==
  /\ pc[p] = "report"
  /\ promised' = IF head.seen = << >> THEN promised ELSE promised \cup {head.seen}
  /\ Release(p)
  /\ UNCHANGED disk
-----------------------------------------------------------------------------
\* A stage file whose operation is over.  Its name (process id and counter)
\* is never reserved again, so one left-over per kind stands for any number.
Orphan(s) == <<s[1], NoProc>>

\* The process dies, or the step it is about to take fails.
Abandon(p) ==
  /\ pc[p] # "idle"
  /\ stages' = {IF s[2] = p THEN Orphan(s) ELSE s : s \in stages}
  /\ Release(p)
  /\ UNCHANGED <<objects, receipts, head, limbo, promised>>

PowerLoss ==
  /\ objects' \in ShelfAfterPowerLoss(objects)
  /\ receipts' \in ShelfAfterPowerLoss(receipts)
  /\ head' \in AfterPowerLoss(head)
  /\ stages' \in SUBSET {Orphan(s) : s \in stages \cup limbo}
  /\ limbo' = {}
  /\ pc' = [p \in Procs |-> "idle"]
  /\ lock' = NoProc
  /\ maintenance' = [shared |-> {}, exclusive |-> NoProc]
  /\ op' = [p \in Procs |-> NoOperation]
  /\ todo' = [p \in Procs |-> {}]
  /\ UNCHANGED promised

CheckStep(p) == FinishRead(p) \/ RefuseStale(p) \/ RefuseInput(p) \/ Admit(p)

\* persist_objects, persist_receipt and cas_head up to the last re-read.
PromoteStep(p) ==
  \/ \E o \in Objects : PutLink(p, o) \/ PutReturn(p, o)
  \/ AdoptReceipt(p) \/ StageReceipt(p) \/ LinkReceipt(p)
  \/ SyncReceipt(p) \/ UnlinkReceiptStage(p)
  \/ StageHead(p) \/ RenameHead(p) \/ SyncHead(p)

SweepStep(p) ==
  \/ \E s \in stages : RemoveStage(p, s)
  \/ \E kind \in StageKinds : SyncSweep(p, kind)
  \/ Report(p)

RecoverStep(p) == PlanRecovery(p) \/ RefuseRecovery(p) \/ NoJournal(p) \/ SweepStep(p)

\* What a process does once it has been asked for an operation.
Step(p) ==
  \/ AcquireShared(p) \/ AcquireExclusive(p) \/ AcquireLock(p)
  \/ CheckStep(p) \/ PromoteStep(p) \/ Confirm(p)
  \/ RecoverStep(p)

Call(p) ==
  \/ BeginGenesis(p) \/ BeginRead(p) \/ BeginRecover(p)
  \/ \E t \in receipts.seen, c \in Candidates : BeginCommit(p, t, c)

Next ==
  \/ \E p \in Procs : Call(p) \/ Step(p) \/ Abandon(p)
  \/ PowerLoss

Spec == Init /\ [][Next]_vars

\* The scheduler runs every process that can take its next step.  Nothing is
\* assumed of who gets a contended lock, nor that callers call again.
FairSpec == Spec /\ \A p \in Procs : WF_vars(Step(p))
-----------------------------------------------------------------------------
Labels ==
  {"idle", "maintenance", "lock", "check", "objects", "link", "syncReceipt",
   "unlink", "cas", "rename", "syncHead", "confirm",
   "plan", "journal", "sweepObject", "sweepReceipt", "sweepHead", "report"}

\* Every variable has its type; what is safe is seen, and the visible head
\* may be what survives.
TypeOK ==
  /\ maintenance \in [shared : SUBSET Procs, exclusive : Procs \cup {NoProc}]
  /\ lock \in Procs \cup {NoProc}
  /\ objects \in [seen : SUBSET Objects, safe : SUBSET Objects]
  /\ objects.safe \subseteq objects.seen
  /\ receipts \in [seen : SUBSET Transactions, safe : SUBSET Transactions]
  /\ receipts.safe \subseteq receipts.seen
  /\ head \in CellOf(Transactions)
  /\ stages \subseteq StageKinds \X (Procs \cup {NoProc})
  /\ limbo \subseteq StageKinds \X (Procs \cup {NoProc})
  /\ pc \in [Procs -> Labels]
  /\ op \in [Procs -> Operations]
  /\ todo \in [Procs -> SUBSET Objects]
  /\ promised \subseteq Transactions

\* Receipt before head, objects before receipt: whatever head a power loss
\* may leave, its whole ancestry and every object it binds are on disk.  This
\* is what load_accepted and the ancestry walk of recover rely on.
HeadClosed ==
  \A h \in head.disk :
    /\ Ancestry(h) \subseteq receipts.safe
    /\ Inventory(h) \subseteq objects.safe

\* A transaction whose commit returned success, or that a recovery reported,
\* is in the history of every head that can be found later, whatever crashes,
\* I/O errors and power losses happen.
PromisedSurvives == \A t \in promised : \A h \in head.disk : IsPrefix(t, h)

\* Between reading the head and renaming over it, a commit holds the accepted
\* lock: the second comparison in cas_head never finds another head.
CasNeverStale ==
  \A p \in Procs :
    pc[p] \in {"objects", "link", "syncReceipt", "unlink", "cas", "rename"}
      => head.seen = op[p].parent

\* Recovery deletes stage files by name, whoever owns them: a stage that a
\* running commit is about to link or rename is never one of them.
StagesIntact ==
  \A p \in Procs :
    /\ pc[p] \in {"link", "syncReceipt", "unlink"} => <<"receipt", p>> \in stages
    /\ pc[p] = "rename" => <<"head", p>> \in stages

\* When recovery reports, no stage file is left that a power loss could bring
\* back, every object and receipt it left in place is durable, and the head
\* it names is the only one that can be found later.
RecoveryIsFinal ==
  \A p \in Procs :
    pc[p] = "report" =>
      /\ stages = {} /\ limbo = {}
      /\ objects.safe = objects.seen /\ receipts.safe = receipts.seen
      /\ head.disk = {head.seen}

\* All of the files, locks and processes implement one atomic history.
History ==
  INSTANCE AcceptedHistory
    WITH current <- head.seen, survivors <- head.disk

RefinesHistory == History!Spec

\* Nobody keeps the accepted lock or exclusive maintenance for ever, although
\* operations wait for the first while they hold the second: every operation
\* takes the two locks in the same order.  (flock promises no order among
\* waiters, so a shared holder may wait for the accepted lock for ever.)
LocksAreReleased ==
  \A p \in Procs :
    /\ lock = p ~> lock # p
    /\ maintenance.exclusive = p ~> maintenance.exclusive # p
=============================================================================
