---------------------------- MODULE BranchRefs ----------------------------
(***************************************************************************)
(* sley-repo: named branches.  A branch is two files: an origin record,    *)
(* written once, and a ref record, whose existence makes the branch        *)
(* visible and which advance_branch replaces.  Every operation holds the   *)
(* refs lock; recover_refs also owns maintenance exclusively.              *)
(*                                                                         *)
(* A transaction is the sequence of inputs from the genesis to it, as in   *)
(* TransactionRepository.tla, and << >> stands for a record that is not    *)
(* there.  Of the transaction repository only its receipts matter here:    *)
(* commits link and sync them, an interrupted commit leaves one that is    *)
(* visible and not synced, recovery syncs all of them.                     *)
(***************************************************************************)
EXTENDS StableStorage, Naturals, FiniteSets, SequencesExt

CONSTANTS
  Procs,         \* processes or threads that open the repository
  NoProc,        \* nobody holds the lock
  Names,         \* branch names
  Transactions,  \* the transactions that are ever built
  MaxOrigins,    \* MAX_BRANCH_ORIGINS, and the same limit of recovery
  MaxBranches    \* MAX_BRANCHES, and the same limit of recovery

\* The inputs that the transactions are made of.
Inputs == UNION {Range(t) : t \in Transactions}

ASSUME BranchAssumption ==
  /\ NoProc \notin Procs
  /\ Names # {}
  /\ MaxOrigins \in Nat /\ MaxBranches \in Nat
  /\ Transactions \subseteq Seq(Inputs)
  /\ \A t \in Transactions : Len(t) > 0 /\ (Len(t) > 1 => Front(t) \in Transactions)

VARIABLES
  receipts,      \* shelf of final receipt files
  origin,        \* per name: cell of the origin record
  ref,           \* per name: cell of the ref record, <<its origin, its head>>
  stages,        \* stage files that exist, as <<kind, owner>>
  limbo,         \* removed stage files whose removal is not synced
  maintenance,   \* shared and exclusive holders of maintenance.lock
  lock,          \* holder of refs.lock
  pc, op,        \* per process: next step, operation
  told           \* branch states that a caller was told of

disk == <<origin, ref, stages, limbo>>
vars == <<receipts, disk, maintenance, lock, pc, op, told>>

Absent == << >>
Targets == Transactions \cup {Absent}
Refs == (Transactions \X Transactions) \cup {Absent}
StageKinds == {"branch", "ref"}

\* A ref record names its origin record by digest, and the head.
OriginOf(r) == r[1]
HeadOf(r) == r[2]

Operations ==
  [kind : {"create", "advance", "read", "recover"},
   name : Names, expected : Targets, target : Targets]

\* The operation that an idle process is left with.
NoOperation == [kind |-> "read", name |-> CHOOSE n \in Names : TRUE,
                expected |-> Absent, target |-> Absent]

Ancestry(t) == {SubSeq(t, 1, i) : i \in 1 .. Len(t)}

\* verified_revision: the receipt and that of its parent are there.
Loads(t) ==
  /\ t \in receipts.seen
  /\ Len(t) > 1 => Front(t) \in receipts.seen

\* The branch, as resolve_locked finds it.
Resolves(n) ==
  /\ origin[n].seen # Absent /\ ref[n].seen # Absent
  /\ OriginOf(ref[n].seen) = origin[n].seen
  /\ Loads(origin[n].seen) /\ Loads(HeadOf(ref[n].seen))

\* The records that a scan of the branches or refs directory finds.
Present(records) == {n \in Names : records[n].seen # Absent}

\* The preflight of recover_refs: every visible branch has its origin, in the
\* ancestry of its head, and that ancestry has its receipts; within limits.
RefsVerify ==
  /\ Cardinality(Present(origin)) <= MaxOrigins
  /\ Cardinality(Present(ref)) <= MaxBranches
  /\ \A n \in Present(ref) :
       /\ OriginOf(ref[n].seen) = origin[n].seen
       /\ origin[n].seen \in Ancestry(HeadOf(ref[n].seen))
       /\ Ancestry(HeadOf(ref[n].seen)) \subseteq receipts.seen
-----------------------------------------------------------------------------
Init ==
  /\ receipts = EmptyShelf
  /\ origin = [n \in Names |-> Settled(Absent)]
  /\ ref = [n \in Names |-> Settled(Absent)]
  /\ stages = {} /\ limbo = {}
  /\ maintenance = [shared |-> {}, exclusive |-> NoProc]
  /\ lock = NoProc
  /\ pc = [p \in Procs |-> "idle"]
  /\ op = [p \in Procs |-> NoOperation]
  /\ told = {}

Goto(p, label) == pc' = [pc EXCEPT ![p] = label]

\* The operation ends: both locks are dropped with their file handles.
Release(p) ==
  /\ Goto(p, "idle")
  /\ op' = [op EXCEPT ![p] = NoOperation]
  /\ lock' = IF lock = p THEN NoProc ELSE lock
  /\ maintenance' =
       [shared |-> maintenance.shared \ {p},
        exclusive |-> IF maintenance.exclusive = p THEN NoProc ELSE maintenance.exclusive]

\* The caller is told where the branch is.
Tell(p) ==
  /\ told' = told \cup {[name |-> op[p].name, origin |-> origin[op[p].name].seen,
                         head |-> op[p].target]}
  /\ Release(p)

Begin(p, o) ==
  /\ pc[p] = "idle"
  /\ op' = [op EXCEPT ![p] = o]
  /\ Goto(p, "maintenance")
  /\ UNCHANGED <<receipts, disk, maintenance, lock, told>>

BeginCreate(p, n, t) ==
  Begin(p, [kind |-> "create", name |-> n, expected |-> Absent, target |-> t])

BeginAdvance(p, n, e, t) ==
  Begin(p, [kind |-> "advance", name |-> n, expected |-> e, target |-> t])

\* resolve_branch, list_branches and branch_ancestry.
BeginRead(p, n) ==
  Begin(p, [kind |-> "read", name |-> n, expected |-> Absent, target |-> Absent])

BeginRecover(p) == Begin(p, [NoOperation EXCEPT !.kind = "recover"])

AcquireShared(p) ==
  /\ pc[p] = "maintenance" /\ op[p].kind # "recover"
  /\ maintenance.exclusive = NoProc
  /\ maintenance' = [maintenance EXCEPT !.shared = @ \cup {p}]
  /\ Goto(p, "lock")
  /\ UNCHANGED <<receipts, disk, lock, op, told>>

AcquireExclusive(p) ==
  /\ pc[p] = "maintenance" /\ op[p].kind = "recover"
  /\ maintenance.exclusive = NoProc /\ maintenance.shared = {}
  /\ maintenance' = [maintenance EXCEPT !.exclusive = p]
  /\ Goto(p, "lock")
  /\ UNCHANGED <<receipts, disk, lock, op, told>>

AcquireRefsLock(p) ==
  /\ pc[p] = "lock"
  /\ lock = NoProc
  /\ lock' = p
  /\ Goto(p, IF op[p].kind = "recover" THEN "plan" ELSE "check")
  /\ UNCHANGED <<receipts, disk, maintenance, op, told>>
-----------------------------------------------------------------------------
(* create_branch and advance_branch, under the refs lock.  The directories *)
(* of the two records are created and synced first.                        *)

\* A create of a branch of which nothing exists.
IsFresh(o) ==
  /\ o.kind = "create"
  /\ origin[o.name].seen = Absent /\ ref[o.name].seen = Absent
  /\ Loads(o.target)
  /\ Cardinality(Present(origin)) < MaxOrigins
  /\ Cardinality(Present(ref)) < MaxBranches

\* A create whose origin record an earlier create left.
IsOrphan(o) ==
  /\ o.kind = "create"
  /\ origin[o.name].seen = o.target /\ ref[o.name].seen = Absent
  /\ Loads(o.target)
  /\ Cardinality(Present(ref)) < MaxBranches

\* A create or an advance that finds the branch where it would put it.
IsPresent(o) ==
  /\ o.kind \in {"create", "advance"}
  /\ Resolves(o.name)
  /\ HeadOf(ref[o.name].seen) = o.target
  /\ o.kind = "create" => origin[o.name].seen = o.target

\* An advance from the head that it expects to one of its direct children.
IsAdvance(o) ==
  /\ o.kind = "advance"
  /\ Resolves(o.name)
  /\ HeadOf(ref[o.name].seen) = o.expected /\ o.target # o.expected
  /\ Loads(o.target)
  /\ Len(o.target) > 1 /\ Front(o.target) = o.expected

\* A read ends; a create or an advance meets a name conflict, a stale or
\* unrelated head, a revision that does not load, or a full repository.
EndCheck(p) ==
  /\ pc[p] = "check"
  /\ ~IsFresh(op[p]) /\ ~IsOrphan(op[p]) /\ ~IsPresent(op[p]) /\ ~IsAdvance(op[p])
  /\ Release(p)
  /\ UNCHANGED <<receipts, disk, told>>

\* create_fresh: neither record exists; the origin record is staged ...
CreateFresh(p) ==
  /\ pc[p] = "check" /\ IsFresh(op[p])
  /\ stages' = stages \cup {<<"branch", p>>}
  /\ Goto(p, "linkOrigin")
  /\ UNCHANGED <<receipts, origin, ref, limbo, maintenance, lock, op, told>>

\* ... linked ...
LinkOrigin(p) ==
  /\ pc[p] = "linkOrigin"
  /\ <<"branch", p>> \in stages
  /\ origin' = [origin EXCEPT ![op[p].name] = Replace(@, op[p].target)]
  /\ Goto(p, "syncOrigin")
  /\ UNCHANGED <<receipts, ref, stages, limbo, maintenance, lock, op, told>>

\* ... its directory synced ...
SyncOrigin(p) ==
  /\ pc[p] = "syncOrigin"
  /\ origin' = [origin EXCEPT ![op[p].name] = SyncCell(@)]
  /\ Goto(p, "unlinkOrigin")
  /\ UNCHANGED <<receipts, ref, stages, limbo, maintenance, lock, op, told>>

\* ... its stage removed ...
UnlinkOriginStage(p) ==
  /\ pc[p] = "unlinkOrigin"
  /\ stages' = stages \ {<<"branch", p>>}
  /\ limbo' = limbo \cup {<<"branch", p>>}
  /\ Goto(p, "stageRef")
  /\ UNCHANGED <<receipts, origin, ref, maintenance, lock, op, told>>

\* Mutant of FinishOrphan: the origin that is found is taken as durable.
FinishOrphanUnsynced(p) ==
  /\ pc[p] = "check" /\ IsOrphan(op[p])
  /\ Goto(p, "stageRef")
  /\ UNCHANGED <<receipts, disk, maintenance, lock, op, told>>

\* finish_orphan_create: an earlier create stopped before the ref; its origin
\* is synced again before the ref is written.
FinishOrphan(p) ==
  /\ pc[p] = "check" /\ IsOrphan(op[p])
  /\ origin' = [origin EXCEPT ![op[p].name] = SyncCell(@)]
  /\ Goto(p, "stageRef")
  /\ UNCHANGED <<receipts, ref, stages, limbo, maintenance, lock, op, told>>

\* resolve_existing_create, and advance_branch to where the branch is: both
\* records are synced again, the origin first ...
Redurabilize(p) ==
  /\ pc[p] = "check" /\ IsPresent(op[p])
  /\ origin' = [origin EXCEPT ![op[p].name] = SyncCell(@)]
  /\ Goto(p, "redurabilizeRef")
  /\ UNCHANGED <<receipts, ref, stages, limbo, maintenance, lock, op, told>>

\* Mutant of RedurabilizeRef: a ref that is there is taken as durable.
RedurabilizeRefSkipped(p) ==
  /\ pc[p] = "redurabilizeRef"
  /\ Tell(p)
  /\ UNCHANGED <<receipts, disk>>

\* ... then the ref: PRESENT.
RedurabilizeRef(p) ==
  /\ pc[p] = "redurabilizeRef"
  /\ ref' = [ref EXCEPT ![op[p].name] = SyncCell(@)]
  /\ Tell(p)
  /\ UNCHANGED <<receipts, origin, stages, limbo>>

\* Mutant of CheckAdvance: any later revision will do.
CheckAdvanceAnyParent(p) ==
  LET n == op[p].name IN
  /\ pc[p] = "check" /\ op[p].kind = "advance"
  /\ Resolves(n)
  /\ HeadOf(ref[n].seen) = op[p].expected /\ op[p].target # op[p].expected
  /\ Loads(op[p].target)
  /\ Goto(p, "stageRef")
  /\ UNCHANGED <<receipts, disk, maintenance, lock, op, told>>

\* advance_branch: the head is the expected one, and the direct parent of
\* the new one.
CheckAdvance(p) ==
  /\ pc[p] = "check" /\ IsAdvance(op[p])
  /\ Goto(p, "stageRef")
  /\ UNCHANGED <<receipts, disk, maintenance, lock, op, told>>

\* ... and the directory synced again.  Then persist_expected_ref or
\* replace_ref: stage, write, sync, verify ...
StageRef(p) ==
  /\ pc[p] = "stageRef"
  /\ limbo' = limbo \ {<<"branch", p>>}
  /\ stages' = stages \cup {<<"ref", p>>}
  /\ Goto(p, "placeRef")
  /\ UNCHANGED <<receipts, origin, ref, maintenance, lock, op, told>>

\* ... hard link to a name that is free, for a create ...
LinkRef(p) ==
  LET n == op[p].name IN
  /\ pc[p] = "placeRef" /\ op[p].kind = "create"
  /\ <<"ref", p>> \in stages
  /\ ref[n].seen = Absent
  /\ ref' = [ref EXCEPT ![n] = Replace(@, <<op[p].target, op[p].target>>)]
  /\ Goto(p, "syncRef")
  /\ UNCHANGED <<receipts, origin, stages, limbo, maintenance, lock, op, told>>

\* ... rename over the old record, for an advance ...
RenameRef(p) ==
  /\ pc[p] = "placeRef" /\ op[p].kind = "advance"
  /\ <<"ref", p>> \in stages
  /\ ref' = [ref EXCEPT ![op[p].name] = Replace(@, <<OriginOf(@.seen), op[p].target>>)]
  /\ stages' = stages \ {<<"ref", p>>}
  /\ Goto(p, "syncRef")
  /\ UNCHANGED <<receipts, origin, limbo, maintenance, lock, op, told>>

\* ... the directory synced, the stage of a create removed ...
SyncRef(p) ==
  /\ pc[p] = "syncRef"
  /\ ref' = [ref EXCEPT ![op[p].name] = SyncCell(@)]
  /\ limbo' = limbo \cup ({<<"ref", p>>} \cap stages)
  /\ stages' = stages \ {<<"ref", p>>}
  /\ Goto(p, "resolve")
  /\ UNCHANGED <<receipts, origin, maintenance, lock, op, told>>

\* ... the directory synced again, and the branch resolved: CREATED or
\* ADVANCED.
ReturnBranch(p) ==
  /\ pc[p] = "resolve"
  /\ Resolves(op[p].name) /\ HeadOf(ref[op[p].name].seen) = op[p].target
  /\ limbo' = limbo \ {<<"ref", p>>}
  /\ Tell(p)
  /\ UNCHANGED <<receipts, origin, ref, stages>>
-----------------------------------------------------------------------------
(* recover_refs.                                                           *)

PlanRecovery(p) ==
  /\ pc[p] = "plan"
  /\ RefsVerify
  /\ Goto(p, "sweepBranch")
  /\ UNCHANGED <<receipts, disk, maintenance, lock, op, told>>

\* A visible branch does not verify: nothing is removed.
RefuseRecovery(p) ==
  /\ pc[p] = "plan"
  /\ ~RefsVerify
  /\ Release(p)
  /\ UNCHANGED <<receipts, disk, told>>

SweepLabel(kind) == IF kind = "branch" THEN "sweepBranch" ELSE "sweepRef"

RemoveStage(p, s) ==
  /\ pc[p] = SweepLabel(s[1])
  /\ s \in stages
  /\ stages' = stages \ {s}
  /\ limbo' = limbo \cup {s}
  /\ UNCHANGED <<receipts, origin, ref, maintenance, lock, pc, op, told>>

\* The origin stages are gone: every directory of origins is synced.
SyncOrigins(p) ==
  /\ pc[p] = "sweepBranch"
  /\ \A s \in stages : s[1] # "branch"
  /\ limbo' = {s \in limbo : s[1] # "branch"}
  /\ origin' = [n \in Names |-> SyncCell(origin[n])]
  /\ Goto(p, "sweepRef")
  /\ UNCHANGED <<receipts, ref, stages, maintenance, lock, op, told>>

\* Mutant of SyncRefs: only directories with a removed stage are synced.
SyncRefsIfRemoved(p) ==
  /\ pc[p] = "sweepRef"
  /\ \A s \in stages : s[1] # "ref"
  /\ limbo' = {s \in limbo : s[1] # "ref"}
  /\ ref' = IF limbo = {} THEN ref ELSE [n \in Names |-> SyncCell(ref[n])]
  /\ Goto(p, "report")
  /\ UNCHANGED <<receipts, origin, stages, maintenance, lock, op, told>>

\* The same for refs.
SyncRefs(p) ==
  /\ pc[p] = "sweepRef"
  /\ \A s \in stages : s[1] # "ref"
  /\ limbo' = {s \in limbo : s[1] # "ref"}
  /\ ref' = [n \in Names |-> SyncCell(ref[n])]
  /\ Goto(p, "report")
  /\ UNCHANGED <<receipts, origin, stages, maintenance, lock, op, told>>

\* The report counts the visible branches and names the orphan origins.
Report(p) ==
  /\ pc[p] = "report"
  /\ Release(p)
  /\ UNCHANGED <<receipts, disk, told>>
-----------------------------------------------------------------------------
(* The transaction repository, and the faults.                             *)

\* A commit builds on an accepted transaction, whose receipt is durable.
Buildable(t) == Len(t) = 1 \/ Front(t) \in receipts.safe

\* A commit, or a recovery of the repository, left a durable receipt.
DurableReceipt(t) ==
  /\ maintenance.exclusive = NoProc
  /\ Buildable(t) /\ t \notin receipts.safe
  /\ receipts' = SyncName(Link(receipts, t), t)
  /\ UNCHANGED <<disk, maintenance, lock, pc, op, told>>

\* A commit stopped between the hard link and the directory sync.
InterruptedReceipt(t) ==
  /\ maintenance.exclusive = NoProc
  /\ Buildable(t) /\ t \notin receipts.seen
  /\ receipts' = Link(receipts, t)
  /\ UNCHANGED <<disk, maintenance, lock, pc, op, told>>

\* The stage files that p leaves behind belong to nobody.
Disowned(p, files) == {IF s[2] = p THEN <<s[1], NoProc>> ELSE s : s \in files}

\* The process dies, or an I/O error ends its operation.
Abandon(p) ==
  /\ pc[p] # "idle"
  /\ stages' = Disowned(p, stages)
  /\ limbo' = Disowned(p, limbo)
  /\ Release(p)
  /\ UNCHANGED <<receipts, origin, ref, told>>

\* What a power loss may leave of a family of records.
RecordsAfterPowerLoss(records) ==
  {[n \in Names |-> Settled(choice[n])] :
     choice \in {c \in [Names -> UNION {records[n].disk : n \in Names}] :
                    \A n \in Names : c[n] \in records[n].disk}}

PowerLoss ==
  /\ receipts' \in ShelfAfterPowerLoss(receipts)
  /\ origin' \in RecordsAfterPowerLoss(origin)
  /\ ref' \in RecordsAfterPowerLoss(ref)
  /\ stages' \in SUBSET {<<s[1], NoProc>> : s \in stages \cup limbo}
  /\ limbo' = {}
  /\ maintenance' = [shared |-> {}, exclusive |-> NoProc]
  /\ lock' = NoProc
  /\ pc' = [p \in Procs |-> "idle"]
  /\ op' = [p \in Procs |-> NoOperation]
  /\ UNCHANGED told

Call(p) ==
  \/ \E n \in Names, t \in Transactions : BeginCreate(p, n, t)
  \/ \E n \in Names, e \in Transactions, t \in Transactions : BeginAdvance(p, n, e, t)
  \/ \E n \in Names : BeginRead(p, n)
  \/ BeginRecover(p)

Step(p) ==
  \/ AcquireShared(p) \/ AcquireExclusive(p) \/ AcquireRefsLock(p)
  \/ EndCheck(p) \/ CreateFresh(p) \/ LinkOrigin(p) \/ SyncOrigin(p) \/ UnlinkOriginStage(p)
  \/ FinishOrphan(p) \/ Redurabilize(p) \/ RedurabilizeRef(p) \/ CheckAdvance(p)
  \/ StageRef(p) \/ LinkRef(p) \/ RenameRef(p) \/ SyncRef(p) \/ ReturnBranch(p)
  \/ PlanRecovery(p) \/ RefuseRecovery(p) \/ (\E s \in stages : RemoveStage(p, s))
  \/ SyncOrigins(p) \/ SyncRefs(p) \/ Report(p)

Next ==
  \/ \E p \in Procs : Call(p) \/ Step(p) \/ Abandon(p)
  \/ \E t \in Transactions : DurableReceipt(t) \/ InterruptedReceipt(t)
  \/ PowerLoss

Spec == Init /\ [][Next]_vars
-----------------------------------------------------------------------------
Labels ==
  {"idle", "maintenance", "lock", "check", "linkOrigin", "syncOrigin", "unlinkOrigin",
   "redurabilizeRef", "stageRef", "placeRef", "syncRef", "resolve",
   "plan", "sweepBranch", "sweepRef", "report"}

\* Types of the records, the locks and the processes; whoever is between the
\* refs lock and the end of its operation holds the lock.
TypeOK ==
  /\ receipts \in [seen : SUBSET Transactions, safe : SUBSET Transactions]
  /\ receipts.safe \subseteq receipts.seen
  /\ origin \in [Names -> CellOf(Targets)]
  /\ ref \in [Names -> CellOf(Refs)]
  /\ stages \subseteq StageKinds \X (Procs \cup {NoProc})
  /\ limbo \subseteq StageKinds \X (Procs \cup {NoProc})
  /\ maintenance \in [shared : SUBSET Procs, exclusive : Procs \cup {NoProc}]
  /\ lock \in Procs \cup {NoProc}
  /\ pc \in [Procs -> Labels]
  /\ op \in [Procs -> Operations]
  /\ told \subseteq [name : Names, origin : Targets, head : Targets]
  /\ \A p \in Procs : pc[p] \notin {"idle", "maintenance", "lock"} => lock = p

\* "Creation durability is origin record before ref": a ref that may survive
\* a power loss names an origin record that is certain to survive, and that
\* is in the ancestry of its head.
RefHasOrigin ==
  \A n \in Names : \A r \in ref[n].disk \ {Absent} :
    origin[n].disk = {OriginOf(r)} /\ OriginOf(r) \in Ancestry(HeadOf(r))

\* The heads that a branch may be found at lie on one line: whatever create,
\* advance and recovery did, no crash moves a branch sideways.
BranchIsLinear ==
  \A n \in Names : \A r \in ref[n].disk \ {Absent}, s \in ref[n].disk \ {Absent} :
    IsPrefix(HeadOf(r), HeadOf(s)) \/ IsPrefix(HeadOf(s), HeadOf(r))

\* A branch that a caller was told of, CREATED, PRESENT or ADVANCED, is found
\* ever after with the same origin, at that head or a descendant.
ToldSurvives ==
  \A b \in told :
    /\ origin[b.name].disk = {b.origin}
    /\ \A r \in ref[b.name].disk : r # Absent /\ IsPrefix(b.head, HeadOf(r))

\* When recover_refs reports, no stage can come back, and every branch and
\* orphan origin is certain.
RefRecoverySettles ==
  \A p \in Procs :
    pc[p] = "report" =>
      /\ stages = {} /\ limbo = {}
      /\ \A n \in Names : ref[n].disk = {ref[n].seen} /\ origin[n].disk = {origin[n].seen}
=============================================================================
