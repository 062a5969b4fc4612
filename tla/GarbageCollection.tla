-------------------------- MODULE GarbageCollection --------------------------
(***************************************************************************)
(* sley-repo and sley-protocol: gc.collect of a server, beside the commits *)
(* and branches of this and other servers and the recovery of the          *)
(* collection witness.                                                     *)
(*                                                                         *)
(* The server builds a retention snapshot from the accepted head, the      *)
(* branches, its own sessions and the pins of the request, and only then   *)
(* takes exclusive maintenance.  The guard also owns a witness file, which *)
(* outlives the process: while it exists no collection starts.             *)
(*                                                                         *)
(* Commits, branch operations and transaction recovery are one step each:  *)
(* they hold maintenance throughout, and their inner steps are those of    *)
(* TransactionRepository.tla and BranchRefs.tla.  Transactions are         *)
(* sequences of inputs, as there.                                          *)
(***************************************************************************)
EXTENDS StableStorage, Naturals, FiniteSets, SequencesExt

CONSTANTS
  Procs, NoProc, \* processes of the repository
  Servers,       \* those that serve requests; the others only recover
  Sessions,      \* sessions of a server
  Names,         \* branch names
  Candidates, Genesis, \* inputs of commits
  Objects,       \* object ids
  Binds,         \* the objects that the state root of an input binds
  References,    \* the objects that an object refers to
  MaxLen         \* bound of the model: longest history

Inputs == Candidates \cup {Genesis}

ASSUME CollectionAssumption ==
  /\ NoProc \notin Procs /\ Servers \subseteq Procs
  /\ Genesis \notin Candidates
  /\ IsFiniteSet(Objects)
  /\ Binds \in [Inputs -> SUBSET Objects]
  /\ References \in [Objects -> SUBSET Objects]
  /\ MaxLen \in Nat

VARIABLES
  maintenance,   \* exclusive holder of locks/maintenance.lock
  objects,       \* per object: cell, whether its final file exists
  remnant,       \* a stage file lies in the object tree
  receipts,      \* transactions with a complete receipt
  head,          \* accepted transaction
  branches,      \* per name: its transaction, << >> for none
  sessions,      \* per server and session: the bound transaction, or << >>
  witness,       \* cell of locks/gc.lock: "none", "prefix" or "exact"
  pc,            \* per process: next step
  snapshot,      \* per process: retained transactions and pinned objects
  todo           \* per process: planned objects that are not deleted yet

repository == <<objects, remnant, receipts, head, branches>>
work == <<pc, snapshot, todo>>
vars == <<maintenance, repository, sessions, witness, work>>

NoSnapshot == [roots |-> {}, pins |-> {}]

\* The object files that can be seen.
Present == {o \in Objects : objects[o].seen}

\* S and everything that it refers to, transitively.
Closure(S) ==
  LET reach[n \in 0 .. Cardinality(Objects)] ==
        IF n = 0 THEN S
        ELSE reach[n - 1] \cup UNION {References[o] : o \in reach[n - 1]}
  IN  reach[Cardinality(Objects)]

\* The objects of the state that t installs.
Needs(t) == Closure(Binds[Last(t)])

\* accepted_head, verified_revision: the objects that t binds are there.  What
\* those refer to is not looked at.
Loads(t) == Binds[Last(t)] \subseteq Present

\* verify_accepted_recovery_ancestry: so are those of its ancestors.
AncestryVerifies(t) == \A i \in 1 .. Len(t) : Binds[t[i]] \subseteq Present

BranchTargets == {branches[n] : n \in Names} \ {<< >>}
SessionTargets(p) == {sessions[p][s] : s \in Sessions} \ {<< >>}
-----------------------------------------------------------------------------
Init ==
  /\ maintenance = NoProc
  /\ receipts = {<<Genesis>>} /\ head = <<Genesis>>
  /\ objects = [o \in Objects |-> Settled(o \in Needs(<<Genesis>>))]
  /\ remnant = FALSE
  /\ branches = [n \in Names |-> << >>]
  /\ sessions = [p \in Servers |-> [s \in Sessions |-> << >>]]
  /\ witness = Settled("none")
  /\ pc = [p \in Procs |-> "idle"]
  /\ snapshot = [p \in Procs |-> NoSnapshot]
  /\ todo = [p \in Procs |-> {}]

Goto(p, label) == pc' = [pc EXCEPT ![p] = label]

\* Shared maintenance ownership: waits for an exclusive owner.
Shared == maintenance = NoProc

\* The operation of p ends, and its locks go with the file handles.
Release(p) ==
  /\ Goto(p, "idle")
  /\ snapshot' = [snapshot EXCEPT ![p] = NoSnapshot]
  /\ todo' = [todo EXCEPT ![p] = {}]
  /\ maintenance' = IF maintenance = p THEN NoProc ELSE maintenance
-----------------------------------------------------------------------------
(* Requests that change the repository or the sessions of a server.        *)

\* The objects that a commit of c on the head puts.
Puts(c) == Closure(Binds[c]) \ Needs(head)

\* A server takes one request at a time.
Ready(p) == p \in Servers /\ pc[p] = "idle" /\ Shared

CanCommit(p) == Ready(p) /\ Len(head) < MaxLen /\ Loads(head)

Commit(p, c) ==
  /\ CanCommit(p)
  /\ objects' = [o \in Objects |-> IF o \in Puts(c) THEN Settled(TRUE) ELSE objects[o]]
  /\ receipts' = receipts \cup {Append(head, c)}
  /\ head' = Append(head, c)
  /\ UNCHANGED <<maintenance, remnant, branches, sessions, witness, work>>

\* A commit fails while it puts objects: some are there, perhaps not synced,
\* and perhaps a stage is.
InterruptedPut(p, c) ==
  /\ CanCommit(p)
  /\ \E S \in SUBSET Puts(c) :
       objects' = [o \in Objects |->
         IF o \in S /\ ~objects[o].seen THEN Replace(objects[o], TRUE) ELSE objects[o]]
  /\ remnant' \in {remnant, TRUE}
  /\ UNCHANGED <<maintenance, receipts, head, branches, sessions, witness, work>>

\* A commit fails between its receipt and the head.
InterruptedHead(p, c) ==
  /\ CanCommit(p)
  /\ objects' = [o \in Objects |-> IF o \in Puts(c) THEN Settled(TRUE) ELSE objects[o]]
  /\ receipts' = receipts \cup {Append(head, c)}
  /\ UNCHANGED <<maintenance, remnant, head, branches, sessions, witness, work>>

\* create_branch, or advance_branch to a child.
SetBranch(p, n, t) ==
  /\ Ready(p) /\ Loads(t)
  /\ branches[n] # << >> => Loads(branches[n]) /\ Front(t) = branches[n]
  /\ branches' = [branches EXCEPT ![n] = t]
  /\ UNCHANGED <<maintenance, objects, remnant, receipts, head, sessions, witness, work>>

\* open_session binds a session to the head, renew_session binds it again.
BindSession(p, s) ==
  /\ Ready(p) /\ Loads(head)
  /\ sessions' = [sessions EXCEPT ![p][s] = head]
  /\ UNCHANGED <<maintenance, repository, witness, work>>

CloseSession(p, s) ==
  /\ p \in Servers /\ pc[p] = "idle"
  /\ sessions' = [sessions EXCEPT ![p][s] = << >>]
  /\ UNCHANGED <<maintenance, repository, witness, work>>
-----------------------------------------------------------------------------
(* gc.collect: the snapshot.                                               *)

\* The request may pin objects; the head is read and verified ...
ReadHead(p, pins) ==
  /\ Ready(p) /\ Loads(head)
  /\ snapshot' = [snapshot EXCEPT ![p] = [roots |-> {head}, pins |-> pins]]
  /\ Goto(p, "branches")
  /\ UNCHANGED <<maintenance, repository, sessions, witness, todo>>

\* Mutant of ReadBranches: the sessions of the server are not retained.
ReadBranchesOnly(p) ==
  /\ pc[p] = "branches" /\ Shared
  /\ \A t \in BranchTargets : Loads(t)
  /\ snapshot' = [snapshot EXCEPT ![p].roots = @ \cup BranchTargets]
  /\ Goto(p, "acquire")
  /\ UNCHANGED <<maintenance, repository, sessions, witness, todo>>

\* ... then every branch; both reads end their shared ownership.  The live
\* sessions are those of this server.
ReadBranches(p) ==
  /\ pc[p] = "branches" /\ Shared
  /\ \A t \in BranchTargets : Loads(t)
  /\ snapshot' = [snapshot EXCEPT ![p].roots = @ \cup BranchTargets \cup SessionTargets(p)]
  /\ Goto(p, "acquire")
  /\ UNCHANGED <<maintenance, repository, sessions, witness, todo>>

\* A branch does not load.
RefuseBranches(p) ==
  /\ pc[p] = "branches" /\ Shared
  /\ \E t \in BranchTargets : ~Loads(t)
  /\ Release(p)
  /\ UNCHANGED <<repository, sessions, witness>>
-----------------------------------------------------------------------------
(* acquire_exclusive_gc.                                                   *)

AcquireMaintenance(p) ==
  /\ pc[p] = "acquire" /\ maintenance = NoProc
  /\ maintenance' = p
  /\ Goto(p, "create")
  /\ UNCHANGED <<repository, sessions, witness, snapshot, todo>>

\* The witness is created exclusively ...
CreateWitness(p) ==
  /\ pc[p] = "create" /\ witness.seen = "none"
  /\ witness' = Replace(witness, "prefix")
  /\ Goto(p, "write")
  /\ UNCHANGED <<maintenance, repository, sessions, snapshot, todo>>

RefuseWitness(p) ==
  /\ pc[p] = "create" /\ witness.seen # "none"
  /\ Release(p)
  /\ UNCHANGED <<repository, sessions, witness>>

\* ... written ...
WriteWitness(p) ==
  /\ pc[p] = "write"
  /\ witness' = Replace(witness, "exact")
  /\ Goto(p, "sync")
  /\ UNCHANGED <<maintenance, repository, sessions, snapshot, todo>>

\* ... and synced with its directory.
SyncWitness(p) ==
  /\ pc[p] = "sync"
  /\ witness' = SyncCell(witness)
  /\ Goto(p, "plan")
  /\ UNCHANGED <<maintenance, repository, sessions, snapshot, todo>>
-----------------------------------------------------------------------------
(* gc_collect.                                                             *)

\* Mutant of Reachable: the references of objects are not followed.
ReachableShallow(s) == (UNION {Binds[Last(t)] : t \in s.roots}) \cup s.pins

\* resolve_reachability: the closure of the retained roots and the pins.
Reachable(s) == Closure((UNION {Binds[Last(t)] : t \in s.roots}) \cup s.pins)

\* The tree holds final objects only, and everything reachable is among them.
Plans(s) == ~remnant /\ Reachable(s) \subseteq Present

\* require_guard, plan_gc: everything else is to be deleted.
Plan(p) ==
  /\ pc[p] = "plan"
  /\ maintenance = p /\ witness.seen = "exact"
  /\ Plans(snapshot[p])
  /\ todo' = [todo EXCEPT ![p] = Present \ Reachable(snapshot[p])]
  /\ Goto(p, "leaves")
  /\ UNCHANGED <<maintenance, repository, sessions, witness, snapshot>>

\* Mutant of SyncLeaves: only what this collection deletes is synced.
SyncLeavesSkipped(p) ==
  /\ pc[p] = "leaves"
  /\ Goto(p, "delete")
  /\ UNCHANGED <<maintenance, repository, sessions, witness, snapshot, todo>>

\* sync_inventory_leaf_directories
SyncLeaves(p) ==
  /\ pc[p] = "leaves"
  /\ objects' = [o \in Objects |-> SyncCell(objects[o])]
  /\ Goto(p, "delete")
  /\ UNCHANGED <<maintenance, remnant, receipts, head, branches, sessions, witness, snapshot, todo>>

\* A candidate is read again and unlinked ...
Unlink(p, o) ==
  /\ pc[p] = "delete" /\ o \in todo[p]
  /\ objects' = [objects EXCEPT ![o] = Replace(@, FALSE)]
  /\ Goto(p, "leaf")
  /\ UNCHANGED <<maintenance, remnant, receipts, head, branches, sessions, witness, snapshot, todo>>

\* ... and its leaf synced, before the next one.
SyncUnlinked(p) ==
  /\ pc[p] = "leaf"
  /\ \E o \in todo[p] \ Present :
       /\ objects' = [objects EXCEPT ![o] = SyncCell(@)]
       /\ todo' = [todo EXCEPT ![p] = @ \ {o}]
  /\ Goto(p, "delete")
  /\ UNCHANGED <<maintenance, remnant, receipts, head, branches, sessions, witness, snapshot>>

\* The report says Collected.
Collected(p) ==
  /\ pc[p] = "delete" /\ todo[p] = {}
  /\ Goto(p, "collected")
  /\ UNCHANGED <<maintenance, repository, sessions, witness, snapshot, todo>>

\* An I/O error, or a plan that is refused: the guard is dropped.
Fail(p) ==
  /\ pc[p] \in {"write", "sync", "plan", "leaves", "delete", "leaf"}
  /\ Goto(p, "drop")
  /\ UNCHANGED <<maintenance, repository, sessions, witness, snapshot, todo>>
-----------------------------------------------------------------------------
(* Drop of the guard, and recover_gc_witness.                              *)

RemoveWitness(p) ==
  /\ pc[p] \in {"collected", "drop"}
  /\ witness' = Replace(witness, "none")
  /\ Goto(p, "dropped")
  /\ UNCHANGED <<maintenance, repository, sessions, snapshot, todo>>

\* The directory is synced, whether or not a file was removed.
SyncRemoval(p) ==
  /\ pc[p] = "dropped"
  /\ witness' = SyncCell(witness)
  /\ Release(p)
  /\ UNCHANGED <<repository, sessions>>

\* The removal or its sync fails, which the drop ignores.
FailRemoval(p) ==
  /\ pc[p] \in {"collected", "drop", "dropped"}
  /\ Release(p)
  /\ UNCHANGED <<repository, sessions, witness>>

\* Mutant of RecoverWitness: a witness is taken for a remnant of a dead
\* process.
RecoverWitnessUnowned(p) ==
  /\ pc[p] = "idle"
  /\ Goto(p, "drop")
  /\ UNCHANGED <<maintenance, repository, sessions, witness, snapshot, todo>>

\* recover_gc_witness under exclusive maintenance.
RecoverWitness(p) ==
  /\ pc[p] = "idle" /\ maintenance = NoProc
  /\ maintenance' = p
  /\ Goto(p, "drop")
  /\ UNCHANGED <<repository, sessions, witness, snapshot, todo>>

\* Transaction recovery under exclusive maintenance: removes the stages and
\* syncs every leaf, if the ancestry of the head verifies.
Recover(p) ==
  /\ pc[p] = "idle" /\ maintenance = NoProc
  /\ AncestryVerifies(head)
  /\ remnant' = FALSE
  /\ objects' = [o \in Objects |-> SyncCell(objects[o])]
  /\ UNCHANGED <<maintenance, receipts, head, branches, sessions, witness, work>>
-----------------------------------------------------------------------------
\* The witness stays, and the sessions end with the process.
Die(p) ==
  /\ Release(p)
  /\ sessions' = [q \in Servers |-> IF q = p THEN [s \in Sessions |-> << >>] ELSE sessions[q]]
  /\ UNCHANGED <<repository, witness>>

PowerLoss ==
  /\ objects' \in {f \in [Objects -> {Settled(TRUE), Settled(FALSE)}] :
                     \A o \in Objects : f[o] \in AfterPowerLoss(objects[o])}
  /\ witness' \in AfterPowerLoss(witness)
  /\ remnant' \in {remnant, FALSE}
  /\ maintenance' = NoProc
  /\ sessions' = [p \in Servers |-> [s \in Sessions |-> << >>]]
  /\ pc' = [p \in Procs |-> "idle"]
  /\ snapshot' = [p \in Procs |-> NoSnapshot]
  /\ todo' = [p \in Procs |-> {}]
  /\ UNCHANGED <<receipts, head, branches>>

Request(p) ==
  \/ \E c \in Candidates : Commit(p, c) \/ InterruptedPut(p, c) \/ InterruptedHead(p, c)
  \/ \E n \in Names, t \in receipts : SetBranch(p, n, t)
  \/ \E s \in Sessions : BindSession(p, s) \/ CloseSession(p, s)
  \/ \E pins \in SUBSET Objects : Cardinality(pins) <= 1 /\ ReadHead(p, pins)

CollectStep(p) ==
  \/ ReadBranches(p) \/ RefuseBranches(p)
  \/ AcquireMaintenance(p) \/ CreateWitness(p) \/ RefuseWitness(p)
  \/ WriteWitness(p) \/ SyncWitness(p)
  \/ Plan(p) \/ SyncLeaves(p) \/ SyncUnlinked(p) \/ Collected(p) \/ Fail(p)
  \/ \E o \in Objects : Unlink(p, o)
  \/ RemoveWitness(p) \/ SyncRemoval(p) \/ FailRemoval(p)

Next ==
  \/ \E p \in Procs :
       Request(p) \/ CollectStep(p) \/ RecoverWitness(p) \/ Recover(p) \/ Die(p)
  \/ PowerLoss

Spec == Init /\ [][Next]_vars
-----------------------------------------------------------------------------
Transactions == Seq(Inputs)
Labels == {"idle", "branches", "acquire", "create", "write", "sync", "plan", "leaves",
           "delete", "leaf", "collected", "drop", "dropped"}

\* Types; a process past the acquisition owns maintenance, and between an
\* unlink and its sync exactly one candidate is gone.
TypeOK ==
  /\ maintenance \in Procs \cup {NoProc}
  /\ objects \in [Objects -> CellOf(BOOLEAN)]
  /\ remnant \in BOOLEAN
  /\ receipts \subseteq Transactions /\ head \in receipts
  /\ branches \in [Names -> receipts \cup {<< >>}]
  /\ sessions \in [Servers -> [Sessions -> receipts \cup {<< >>}]]
  /\ witness \in CellOf({"none", "prefix", "exact"})
  /\ pc \in [Procs -> Labels]
  /\ snapshot \in [Procs -> [roots : SUBSET receipts, pins : SUBSET Objects]]
  /\ todo \in [Procs -> SUBSET Objects]
  /\ \A p \in Procs : pc[p] \notin {"idle", "branches", "acquire"} => maintenance = p
  /\ \A p \in Procs : pc[p] = "leaf" => Cardinality(todo[p] \ Present) = 1

\* What the head, the branches and the live sessions need.
Retained ==
  UNION {Needs(t) : t \in {head} \cup BranchTargets \cup UNION {SessionTargets(p) : p \in Servers}}

\* "A crash can leave fewer unreachable objects deleted than the plan, but
\* cannot make a reachable object a candidate": what is still to be deleted
\* is never needed by the head, a branch or a session, however often
\* collections fail and start again.
PlanSparesRetained ==
  \A p \in Procs : todo[p] \cap Retained = {}

\* The state of the head and of every session bound to an earlier head is
\* there, and no power loss can take a part of it away.
HeadStaysWhole ==
  \A t \in {head} \cup UNION {SessionTargets(p) : p \in Servers} :
    \A o \in Needs(t) : objects[o].disk = {TRUE}

\* "No live witness is misclassified": while a collection plans and deletes,
\* its complete witness is on disk, whatever recoveries run beside it.
WitnessCoversDeletion ==
  \A p \in Procs :
    pc[p] \in {"plan", "leaves", "delete", "leaf", "collected"} => witness = Settled("exact")

\* A report of Collected is final: exactly the reachable objects are left
\* and no power loss brings another one back, those included that an earlier
\* collection unlinked without a sync before it failed.
CollectedIsFinal ==
  \A p \in Procs : pc[p] = "collected" =>
    \A o \in Objects : objects[o] = Settled(o \in Reachable(snapshot[p]))
=============================================================================
