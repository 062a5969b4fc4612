# A TLA+ model of the Sley repository layer

Sley keeps a program as content-addressed objects under a repository root, and
changes it only through verified transactions. This project models the part of
Sley that must stay right when several processes use one root, when a process
dies between two system calls and when the host loses power: the object store
(`crates/sley-store`), the transaction repository with its native-commit
journal (`crates/sley-txn`), the named branches, garbage collection and the
import of an exchange (`crates/sley-repo`), the sessions, budgets and caches of
the protocol server (`crates/sley-protocol`), and the supervisor that runs
tests in worker units and signs what they did (`crates/sley-test-runner`). TLC
checks the models on small instances; TLAPS proves their safety properties and
both refinements for every instance.

`PROJECT.json` lists components, runs, the source lines of every definition,
the mutated definitions that show each property can fail, findings and hazards.

## 1. The system

| component | source | state it keeps | operations | what makes it correct |
|---|---|---|---|---|
| object store | `sley-store/src/lib.rs` | final object files in a fan-out tree, stage files | `put`, `recover_staged`, reads | a put that returned is durable; no torn record under a final name |
| transaction repository | `sley-txn/src/repository.rs` | receipt files, `heads/accepted`, stage files, `locks/accepted.lock` | `initialize_trusted_genesis`, `commit`, `accepted_head`, `verified_revision`, `recover`, clone entry points | one linear history; nothing reported is lost; a head always has its receipts and objects |
| maintenance ownership | `sley-txn/src/maintenance.rs` | shared/exclusive flock on `locks/maintenance.lock` | acquire, drop | recovery and collection exclude everything else |
| native commit, attempt journal | `sley-txn/src/native_commit.rs`, `repository.rs` | `attempts/*`, one record per attempt | `commit_native`, replay, `reconcile_attempt_journal` | an attempt is accepted at most once; the journal never invites a wrong retry |
| refs and branches | `sley-repo/src/refs.rs` | origin record and ref record per name, stage files, `locks/refs.lock` | `create_branch`, `advance_branch`, resolve, list, ancestry, `recover_refs` | a ref never outlives its origin, a branch only moves forward, what was reported stays |
| garbage collection | `sley-repo/src/gc.rs`, `Server::gc` | retention snapshot, removal plan, exclusive witness file | plan, collect, recover | nothing reachable is deleted |
| exchange and clone | `sley-repo/src/exchange.rs`, `native_exchange.rs`, clone phases of `repository.rs` | stage marker and its temporary file, version directories, imported records | export, import (v1 and native profile) | a clone is complete or refuses to be used; a retry converges; nothing is grafted onto another repository |
| merge, compare | `sley-repo/src/merge.rs`, `compare.rs` | none | three-way comparison and merge | the merge of two changes is the union of what each changed, or a conflict |
| index cache | `sley-repo/src/index_cache.rs` | rebuildable cache files | load, rebuild | a cache of another root is never used |
| protocol sessions | `sley-protocol/src/session.rs` | live sessions with bound root, epoch and renewal count; catalog of retained roots | open, renew, check, close, expand handle | a handle is resolved in the root it was made for; the catalog is exactly the bound roots |
| protocol server | `sley-protocol/src/server.rs`, `lib.rs` | request registry, work budgets, report tokens, diagnostic and replay caches | admission, cancellation, dispatch of each method | a read is answered over the bound root; nothing runs twice; work is bounded; a session's tables agree |
| test runner supervisor | `sley-test-runner/src/*.rs` | the attempt being served, its gates and deadlines, staged inputs, transient units | start-up reconciliation, one run per request, abort, signed answer | a signature is true of the process it names; work is accepted only when no worker may live; every run ends |
| checker, VM, mutation, policy, query, schema, encodings, CLI | other crates | none that outlives a call | pure functions over one candidate | deterministic; covered by their own corpora |

**How they interact.** A commit takes shared maintenance, then the accepted
lock, puts its objects through the store, persists its receipt and replaces the
head. A branch operation takes shared maintenance, then the refs lock, and
reads receipts, each read under the accepted lock. Recovery and collection take
maintenance exclusively first; a server builds the retention snapshot of a
collection before that, from its head, branches and sessions. The lock order is
maintenance, refs, accepted. There are no messages or callbacks between these:
everything they share is in the file system, and locks are flocks that die with
their process. An import installs its marker before it holds any lock and then
takes exclusive maintenance without waiting; an ordinary operation refuses as
long as a marker is visible. The protocol server runs the operations above for
one frame at a time, but loads the accepted head once for the session check and
again for the method, and another process may commit in between. The supervisor
talks to the systemd manager, to the worker (through two gates on its stdin and
a report) and to the requesting peer, all of which move, fail or disappear on
their own; a native commit sees the supervisor as the outcome of its execution
step.

**What is hard.** A name is visible to every process from the moment it is
linked or renamed, and durable only after its directory is synced, often by
another process than the one that wrote it. Every operation may stop between
any two system calls, by an I/O error, a killed process or a power loss, and
what it leaves is met by a retry, by another process or by recovery. In the
server and the supervisor the same hazard has another form: a value is checked
at one point and used at a later one, and a deadline, a late report or a reused
name can come in between. The 40 places where this bites most are the hazards
of `PROJECT.json`.

## 2. The storage model

`StableStorage.tla` is the one place that says what a file system does.

* A *cell* is a name whose value is replaced: `seen` is what every process
  reads, `disk` the set of values a power loss may leave. `Replace` adds to
  `disk`, `SyncCell` (fsync of the directory) reduces it to what is seen.
* A *shelf* is a growing family of content-addressed names: `seen` and the
  subset `safe` that a power loss cannot take.

A process crash changes neither. After a power loss every cell has one of its
possible values, independently of the others, and every unsynced name is there
or not. Renames are atomic, as the code assumes. A file system that orders its
metadata more strictly has fewer behaviours than this.

Data is abstracted to what the properties tell apart. A transaction is the
sequence of inputs from the genesis to it: its id is a digest of a record that
names the parent, so the id determines the chain. Objects, attempts and branch
names are model values. What validation decides about a candidate is a choice.

## 3. Modules

| module | models | built on |
|---|---|---|
| `StableStorage` | rename, link, fsync and power loss | |
| `ObjectShelf` | abstract: what the store promises | `StableStorage` |
| `ObjectStore` | `put`, `handle_existing`, `recover_staged`, one action per system call that changes the disk | `StableStorage`; implements `ObjectShelf` |
| `AcceptedHistory` | abstract: one linear history, of which a power loss may take back only what was not promised | |
| `TransactionRepository` | genesis, commit, reads, recovery, both locks | `StableStorage`, the store as a shelf; implements `AcceptedHistory` |
| `NativeAttempts` | native commits, the journal, replay, reconciliation; shares the promotion steps of `TransactionRepository` | `TransactionRepository` |
| `BranchRefs` | origin and ref records, the refs lock, recovery of refs | `StableStorage`, the receipts as a shelf |
| `GarbageCollection` | `gc.collect`, its guard and witness, beside commits, branches, sessions and recovery, each one step | `StableStorage` |
| `CloneImport` | import of an exchange in both profiles, racing importers and ordinary users | `StableStorage` |
| `ProtocolServer` | session authority, request registry, budgets, token and attempt caches, dispatch by class of method | |
| `TestSupervisor` | the daemon's life from reconciliation to the signed answer, with manager, worker, kernel and peer | |
| `ObjectStore_proofs`, `TransactionRepository_proofs`, `NativeAttempts_proofs`, `BranchRefs_proofs`, `GarbageCollection_proofs`, `CloneImport_proofs`, `ProtocolServer_proofs`, `TestSupervisor_proofs` | the theorems of section 5 | the module they are about |
| `MC*` | small instances for TLC | |

### State and actions against the code

*ObjectStore.* `path` is how many of the directory components of an object
exist; `final` and `stage` hold the content of files ("none", "torn", "whole");
`remnant` is a stage file without a running put. A put is `BeginPut`, then
`MakeDir`/`SyncParent` per component (`create_dir_component` syncs the parent
whether or not it created the directory), `LookPresent` or `LookAbsent`,
`WriteStage`, `SyncStage`, `LinkFinal` or `LinkExists`, and the two syncs and
the unlink of the promotion, or the two syncs of `handle_existing`.
`BeginRecovery` .. `EndRecovery` are `recover_staged`; its caller excludes puts.

*TransactionRepository.* `maintenance` and `lock` are the two flocks; `head` is
the cell of `heads/accepted`; `stages` are the stage files, by kind and owner,
and `limbo` those whose removal is not synced. `pc`, `op` and `todo` are the
position and the locals of a call. `promised` is a history variable: what
callers were told is accepted. `Admit` and the `Refuse*` actions are the checks
under the lock; `PutLink` .. `SyncHead` are `persist_objects`,
`persist_receipt` and `cas_head`; `PlanRecovery` .. `Report` are `recover`.
`Abandon` is both a dead process and an operation that returns an error: the
code cleans up nothing on its error paths but drops the locks. Losing the race
in `cas_head` is such an error; `CasNeverStale` shows it never happens.

*NativeAttempts.* `journal` has one cell per attempt, `attemptsDir` says
whether `attempts/` is in the root, `jstages` are the stage files of journal
writes, whose name is made of the attempt and the process id, `note` is the
record a process is writing. `EnsureLayout` syncs the root before a process
waits for the accepted lock (`LockNative`), so a directory that the lock's
holder creates meanwhile is not covered. `AdmitNative`, `Freshness`, `Execute`,
`ConfirmNative` and `Replay` are `commit_native_inner`; every record they write
passes `StageRecord`, `RenameRecord` and one of the `Written*` steps. `Execute`
has the executor's verdict as a choice. `Reconcile` is the recovery of the
journal.

*BranchRefs.* `origin` and `ref` have one cell per name; a ref record holds the
origin it is bound to (by digest in the code) and its head. `told` is a history
variable like `promised`. `CreateFresh` .. `UnlinkOriginStage` write the origin
record, `StageRef` .. `ReturnBranch` the ref record of a create (hard link) or
an advance (rename), `FinishOrphan` and `Redurabilize` are the retries.
`DurableReceipt` and `InterruptedReceipt` are all that the transaction
repository does to a branch: link a receipt and sync it, or stop in between.

*GarbageCollection.* `objects` has a cell per object, because collection is the
one operation that takes files away; `witness` is the cell of `locks/gc.lock`
("none", "prefix", "exact"); `snapshot` and `todo` are what the collector
retains and still has to delete. `ReadHead` and `ReadBranches` build the
snapshot under shared ownership that ends with each read, `AcquireMaintenance`
.. `SyncWitness` are `acquire_exclusive_gc`, `Plan` .. `Collected` are
`collect_inner`, `RemoveWitness` and `SyncRemoval` the drop of the guard and
`recover_gc_witness`. `Fail` is an error, after which the drop runs; `Die` is the
end of the process, after which the witness stays. Commits, branches and
transaction recovery hold maintenance throughout and are one step, with the
ways they can stop (`InterruptedPut`, `InterruptedHead`) as steps of their own.

*CloneImport.* `marker` is a cell per exchange for `<id>.stage`, `temp` its
temporary file, `vdirs` the version directories, `layout` whether the root holds
anything else, `parts` the shelf of objects, receipts, origins and refs, `head`
the accepted head, `owner` the exclusive maintenance lock. `Begin` is the
preflight and the advisory look; `FindMarker` .. `SyncMarker` install the marker
(both importers use one temporary name); `TakeLock` and `LockHeld` try the lock,
`OwnTarget` and `RefuseTarget` classify again under it, where v1 and native
differ in what they do with their marker; `LinkPart` and `SyncPart` install in
the order objects, receipts, branches; `InstallHead`/`SyncHead` or `KeepHead`,
then `RemoveMarker` and `Finish`. A file that another importer still has open on
a marker that was removed is "gone": what it writes appears under no name.
`acked` is a history variable, the exchange whose import returned success, until
the root is authorised for another one (`OwnTarget`). `UserEnter` .. `UserLeave` are an ordinary
operation with shared maintenance. `Stop` is a dead process or an error,
`PowerLoss` the host.

*ProtocolServer.* `sessions` and `retained` are the authority, `registry` and
`closeOrder` the request registry, `budgets` the remaining work, `tokens`,
and `attempts` the report tokens and the two attempt caches; all of them die
with the process (`Restart`). A full cache evicts some entry it holds: the code
takes the oldest by a wall clock that may repeat or step back, so any entry can
be the one. `Admit` and `AdmitOnly` (the cancellation
path) take an identifier, `Refuse`, `Dispatch` and `EngineRefuses` are
`dispatch` with its session check and its error paths, and each class of method
has one action that loads the head again where the code does. The method and the
arguments of a request are chosen where they are first used. An entity read
that fails after its reservation keeps the debit, and `merge.commit` may answer
a conflict (`MergeConflict`). An attempt keeps its session, the root that its
request names and, in the diagnostic cache only, the head it was taken on: the
bindings of a replay hold no head, so after a renewal the same replay runs
afresh, because its token is gone, and other bindings are a conflict. (A head
is stood for by its root; `tests.affected` binds the transaction as well.) A
token has the root of the report it names, which is what the mint stores and
the read answers. `OtherCommit` is another process moving the head,
`TokenExpires` the clock. `spent`, `runs`, `answer` and the field `under` of a
token (the root that its session was bound to) are history.

*TestSupervisor.* `pc` is where the daemon stands ("held" is exit status 78,
which is not restarted), `att` the attempt, `gate` the last byte written to the
stdin of the current launch (closing the pipe takes nothing back that was
written, so a worker may still read it), `unit` the manager's and kernel's view
of each unit name, `proc` what the process of each launch really did, `signed`
what the daemon has put its key to. Every end but exit status zero and an OOM
kill is one cause. `overdue` is history: the wall deadline passed before the
process had ended, and before or after it was let start.
`StartDaemon` .. `FailReconcile` are the start; `StageRequest`, `Launch`,
`Observe`, `BindLive`, `OpenStartGate`, `ReadReport`, `FinalSample`,
`DrainOutput`, `FinishRun` the run; `MeasureTimeout`, `RefuseRun`, `Abort`,
`ConfirmReap`, `CleanupUnconfirmed`, `Diagnose` its other ends; `Respond` signs.
Time is two flags that any step may raise, the wall deadline and the reap
deadline. A kill, of an orphan or of a bound cgroup, may reach some or none of
its targets, since the code accepts the failure of the command and of the write
and relies on the confirmation. A requested unit may start at any later time,
also after the daemon that asked for it died.

## 4. What TLC checks

| run | instance | properties |
|---|---|---|
| `repository` | 2 processes, genesis and 2 candidates, 2 objects, histories up to 2 | `TypeOK`, `HeadClosed`, `PromisedSurvives`, `CasNeverStale`, `StagesIntact`, `RecoveryIsFinal`, `RefinesHistory` |
| `repository_liveness` | 2 processes, 1 candidate | `LocksAreReleased` |
| `object_store` | 3 processes, 2 objects, 2 directory levels | `AckedIsDurable`, `FinalIsWhole`, `RecoverySettles`, `RefinesShelf` |
| `native_crash` | 2 processes, 1 attempt, 1 ordinary candidate, crashes | `CommittedIsAccepted`, `AttemptNeverReopens` |
| `native_once` | 1 process, histories up to 3, crashes and power loss | `HintIsSound`, `AttemptOnce`, `NoV1OnNative` |
| `branch_refs` | 2 processes, 1 name, 3 transactions that fork | `RefHasOrigin`, `BranchIsLinear`, `ToldSurvives`, `RefRecoverySettles` |
| `garbage_collection` | 1 server with 1 session and 1 branch name, 1 recovering process, 2 candidates, 3 objects of which one refers to another | `PlanSparesRetained`, `HeadStaysWhole`, `WitnessCoversDeletion`, `CollectedIsFinal` |
| `clone_import` | 2 importers, 1 ordinary user, 3 exchanges (v1, native, v1 with surplus), 2 faults, 2 uses | `HeadIsWhole`, `GuardHolds`, `CloneReexports`, `ImportNeverGrafts`, `ResumeEnds` |
| `protocol_server` | 2 roots of one epoch, 2 sessions, 3 frames, 2 attempts, work 5 | `TypeOK`, `AnswersBoundRoot`, `TablesAgree`, `DiagnosticsFollowBinding`, `WorkIsBounded`, `RunsOnce` |
| `test_supervisor` | 2 nonces, 2 launches, 1 death of the daemon | `ServingMeansQuiet`, `EvidenceIsTrue`, `AttemptSettles`, `WorkersEnd` |
| `gc_race` (violation) | as `garbage_collection`, with 2 servers | `HeadStaysWhole` |
| `clone_jam` (violation) | 1 native importer, 1 user, no faults | `NoStrayMarker` |

The type invariant of each module is defined beside its variables and says what
shape the state has. Two runs check it as a property (`repository` and
`protocol_server`, where it carries bounds); the proofs need it everywhere.

What the models of clone, server and supervisor show, in words:

* **Clone.** A head that a power loss may leave has every receipt and object of
  its ancestry; while an importer installs, its own marker is up, whoever lost
  the race for the lock and whatever it took down; a finished clone exports
  exactly the exchange it came from, also after interrupted attempts, until a
  racing import of a larger exchange with the same head extends it; an
  importer never adds to a root that holds something else; and a marked partial
  clone of one exchange does not stay one if imports are retried.
* **Server.** A read answers over the root the session is bound to although the
  head is loaded twice, and a test report is of the root that the request names
  although it may come from a cache; authority, registry and budgets agree on who is alive
  on every path, error paths included, and the catalog that collection reads is
  exact; no identifier reaches an engine twice or after its cancellation;
  tokens follow renewals and closes; failing requests use up work.
* **Supervisor.** Nothing false is signed: a complete run exited zero before the
  wall deadline and its report was preceded by no memory event, a timeout is of
  a worker that had been let start, was alive at the deadline and did not exit
  zero, an OOM is of this launch, and the process is gone. While the daemon accepts or
  serves work no process is left but the current one, also none that a dead
  daemon asked for and the manager starts late.
  Whatever worker, manager and peer do, an attempt ends in an answer or in a
  stop, and every worker ends, also when its daemon has died.

**Why the bounds are enough to be interesting.** Two processes give every race
in which one operation meets the remains of another; the third process of
`object_store` lets directories, name and data be written by three different
puts. A history of length 2 has a parent to lose, of length 3 an attempt to
repeat with another commit in between. Two candidates on one parent compete,
and share an object. `MaxAncestry` is below `MaxLen` in `repository_liveness`,
so recovery also refuses. In `garbage_collection` one commit replaces an object
by one that refers to a third, the other adds the third: there is an object to
supersede, one that only a reference keeps, and one that an interrupted commit
leaves behind. One pinned object per request shows what pins do.
Process symmetry is used where no property is temporal; the two competing
transactions of `branch_refs` are symmetric too, and the two roots and the two
attempts in `protocol_server`. In the storage models `MaxLen` (in the guards that start a
commit) is the only bound that is not the code's, and nothing bounds crashes,
power losses, retries or recoveries.

`CloneImport` bounds faults (`MaxFault` = 2: one that interrupts an import and
one that interrupts its retry) and ordinary operations (`MaxUse` = 2: a genesis
and a commit). Its exchanges are of one repository: before a commit; after it,
with the commit on a branch ahead of the head; and one with a receipt that
nothing reaches. The first two have the same head, so a clone of the smaller can
be extended to the larger. Imports may repeat without bound. In `ProtocolServer` the negotiated limits are
at their smallest values that can be met and exceeded (1 slot, 1 token, 1 cached
attempt, 1 or 2 sessions, 1 renewal); 3 frames with 3 identifiers let a session
be cancelled, skipped and repeated, `MaxMoves` = 1 is the foreign commit between
two loads, and the work budget of 5 can run out. Two roots are one to be bound to
and one to move to; the roots of another epoch add a refusal, which the run has
in any case, and the proofs hold for every assignment of epochs. In `TestSupervisor` two launches
let a nonce be used again after a failed unit or give the second nonce to a new
daemon; one death (`MaxCrash`) leaves orphans for reconciliation.

**Deadlock** is checked in every run except `clone_import` and `clone_jam`,
where a finished import may be the last thing that happens.

**Fairness.** `LocksAreReleased` assumes weak fairness of each process's next
step: a thread that can run, runs. Nothing is assumed about which waiter gets
an flock, so no run claims that a given operation eventually gets its lock; the
claim is that nobody keeps the accepted lock or exclusive maintenance for ever,
which is what the lock order is for.

`AttemptSettles` and `WorkersEnd` assume that the daemon's thread runs, that
both deadlines pass in time (they are clock reads in the loops of the code), and
that the manager carries out the stop job that the unit's binding to the service
queues, even if the service comes back first (hence strong fairness). Nothing is
assumed of the worker, the peer, the memory controller, or of when a requested
unit starts. Two facts about systemd are taken from how the code uses it. The
manager copies the worker's input when it carries out the start
(`LoadCredential`, `unit.rs`), so a start without the input fails; and it removes
the runtime directory that holds the input when the service stops
(`RuntimeDirectory` of the packaged unit, which restarts only after
`RestartSec`). A start that a dead daemon asked for is therefore carried out
either while the service is stopped, and then the next daemon lists the unit, or
in vain. Nothing is assumed of the order in which the manager handles the
requests of `systemd-run` and of `busctl`, which are two clients. The one other
assumption is the callers' own: a nonce does not come back while its launch is
still pending (`nonce.rs`).

`ResumeEnds` assumes that an importer's thread runs, that a failed import is
tried again, and that a user who entered the root leaves it. An flock gives no
order among those who try, so the number of ordinary operations is bounded by
`MaxUse` and the claim is about a root that is eventually left to the importers.

### What the code does not keep

Two runs state what a comment or a document says and end in a violation; the
quotations are in `PROJECT.json` under `findings`.

* `gc_race`: with two servers, a commit fits between the retention snapshot of
  a collection and its exclusive guard; the collection then deletes objects of
  the new accepted head. With one server and
  any recoveries beside it, `garbage_collection` shows that nothing retained is
  ever planned for deletion.
* `clone_jam`: the native importer returns early when the classification under
  the lock is an error, before the lines that take its marker back. If a
  repository was initialised since the advisory look, the marker stays on it and
  every ordinary operation refuses from then on. `NoStrayMarker` is about this
  return alone, the one under the lock; there the v1 importer takes its marker
  back, and the same run over a v1 exchange finds no violation. (Where somebody
  else holds the lock both importers leave the marker, by design.)

The models contain further behaviour that a reader of the documents would not
expect. No run is kept for it; each is a few steps long.

* Recovery journals `Committed` before it syncs the head directory. If it stops
  in between, a retry is answered with success from the journal, and a power
  loss can still take the head back (`PromisedSurvives` of `NativeAttempts`
  fails with power loss).
* `attempts/` is created and the root not synced. A power loss may drop the
  whole journal of the first native commit and keep its head; the attempt id can
  then be bound to another parent and accepted again (`native_once` with
  `FreshJournal = TRUE` violates `AttemptOnce`).
* A branch can be created on a receipt that an interrupted commit linked and
  nobody synced (`InterruptedReceipt`); a power loss leaves the branch without it.
* A collection keeps the states of the head, the branches and the sessions, and
  recovery reads the states of all ancestors. After a commit that supersedes an
  object and a collection, the head loads and recovery refuses.
* A retried import that finds the head in place neither renames nor syncs it
  (`KeepHead`, `repository.rs:4306`) and then removes the marker: after a power
  loss an acknowledged clone may have neither head nor marker.
  `CloneReexports` is therefore about roots that have the head.
* Two importers of one exchange write one temporary file, so a torn marker can
  be visible for a moment; two different exchanges in one target make each other
  refuse until one marker is removed, as `REPOSITORY_EXCHANGE_V1.md:611` says.
* `execute` and the surveys load the head a second time and compare nothing, so
  they may run over a root the session is not bound to; their reports name the
  root. `AnswersBoundRoot` leaves them out (`server.rs:3970`, `SMP1.md:935`).
* Renewal, close and checkout clear the diagnostic cache and not the replay
  cache (`server.rs:1784`). The entries it keeps answer nothing, because their
  tokens are gone, but hold their attempt id against other sessions.
* The supervisor removes the staged input while the cleanup of the worker is
  unconfirmed (`service.rs:321`); the daemon then stops with status 78.

`HeadStaysWhole` is about the head and the sessions. A branch can also be put on
a transaction whose objects a failed collection removed and a failed commit put
back without a sync, which is the branch on an unsynced receipt with an object for the receipt;
`PlanSparesRetained` covers branches too.

`native_crash` and `native_once` show what holds of the journal in spite of
its two observations: without a power loss it is exact, and with `attempts/` in place
no record that a crash can leave invites a wrong retry.

Two comments differ from the code in a way that no property depends on. The
state `PromotionStarted` is described as "Receipt persisted; head CAS not yet
confirmed" (`native_commit.rs:108`) and written before the receipt; the model
has it so. A process without an executor "refuses before any journal or
accepted-state write" (`repository.rs:2771`) and in fact journals `Admitted` and
`AbortedBeforePromotion` first; so does `Freshness`.

## 5. What is proved

Every theorem holds for all values of the constants that satisfy the named
assumptions of the module: any number of processes, objects, names, transactions
and exchanges, any bounds. TLC evaluates the assumptions in every run.

| module | theorems | further hypothesis |
|---|---|---|
| `ObjectStore_proofs` | `AckedIsDurable`, `FinalIsWhole`, `RecoverySettles`; `Refinement`: `Spec => RefinesShelf` | |
| `TransactionRepository_proofs` | `TypeOK`, `HeadClosed`, `PromisedSurvives`, `CasNeverStale`, `StagesIntact`, `RecoveryIsFinal`; `Refinement`: `Spec => RefinesHistory` | |
| `NativeAttempts_proofs` | `NoV1OnNative` | none: all faults |
| | `HintIsSound`, `AttemptOnce` | `DirectorySafe`: with power losses, `attempts/` is in place |
| | `CommittedIsAccepted`, `AttemptNeverReopens` | no power loss |
| `BranchRefs_proofs` | `TypeOK`, `RefHasOrigin`, `BranchIsLinear`, `ToldSurvives`, `RefRecoverySettles` | |
| `GarbageCollection_proofs` | `TypeOK`, `WitnessCoversDeletion`, `CollectedIsFinal` | none: any number of servers |
| | `PlanSparesRetained`, `HeadStaysWhole` | `OneServer` |
| `CloneImport_proofs` | `TypeOK`, `HeadIsWhole`, `GuardHolds`, `CloneReexports`, `ImportNeverGrafts` | |
| `ProtocolServer_proofs` | `TypeOK`, `AnswersBoundRoot`, `TablesAgree`, `DiagnosticsFollowBinding`, `WorkIsBounded`, `RunsOnce` | |
| `TestSupervisor_proofs` | `ServingMeansQuiet`, `EvidenceIsTrue` | |

None of the three hypotheses is a convenience: without `OneServer` the run
`gc_race` ends in a violation, and the two of the journal are the observations
of section 4 about `attempts/` and about a head that recovery has not synced.
The runs `garbage_collection`, `native_once` and `native_crash` are instances
that satisfy them.

**Assumptions on the constants.** Values that stand for "none" are outside the
sets they are joined with, bounds are natural numbers, and functions have the
types their names say. Beyond that: `BranchAssumption` takes transactions to be
non-empty sequences closed under parents, as the id of a transaction binds its
chain; `CloneAssumption` takes the set of transactions to be finite and
`CollectionAssumption` the set of objects, so that the closures the code computes
by a work list are reached; `StoreAssumption` has at least one directory level.

**The arguments.** None of the safety properties is inductive alone; each
`_proofs` module begins with the invariant that is. They share one shape: what
the position of an operation says about the disk, and why nobody else can
disturb it meanwhile. One lemma per action shows that the invariant is kept,
with a frame lemma for the processes that do not move.

* *ObjectStore.* `PutInv(p)` says how far the directories, the stage and the
  final name of the put are durable at each of its steps; `FinalFiles` that a
  final file is never torn and that one nobody sees cannot come back;
  `RecoveryInv` that recovery is alone and leaves everything settled. No lock protects a put, so `PutInv` states only facts that other puts
  can make truer.
* *TransactionRepository.* `LockHeld` says that whoever is past the accepted
  lock holds it, and that recovery holds maintenance exclusively; `Exclusion`
  derives that the holder is alone. `HolderInv` says what the holder's position
  implies about the disk: the visible head is the one it read (`HeadKnown`), its
  objects and then its receipt are safe (`Stored`), after the sync one head is
  possible (`HeadSynced`), its stage is still there (`StageKept`), and the
  directories that recovery has passed are clean (`Swept`). `HolderStep` keeps
  this for the holder's own steps, `HolderInvOutside` for everybody else's;
  `SafeGrows`, `HeadMoves` and `PromisesAre` reduce the steps of the system to
  the few ways in which the disk, the head and the promises may change.
* *NativeAttempts.* Three layers. `BaseInv`: the types, who holds the lock, and
  which records an operation may be writing. `SoundInv` adds that an attempt in
  flight is in no head that a power loss may leave (`FreshInv`), and that a
  record that invites a retry is about such an attempt (`HintIsSound`), from
  which no head contains an attempt twice. `FinalInv`: a record `Committed`, on
  disk or being written, names a transaction of the accepted history.
* *BranchRefs.* `NameInv`: a ref that a power loss may leave has its origin, which
  is certain and in the ancestry of its head, and is not ahead of the visible
  ref; `ToldInv`: what was reported is an ancestor of every ref that may be left; `HolderInv` what the holder of
  the refs lock has synced.
* *GarbageCollection.* `ProcInv` ties the deleting positions to exclusive
  maintenance and to a durable witness. `SnapshotInv` is the heart of the claim
  for one server: from each read of the snapshot on, head, branches and sessions
  have not moved, because the only process that moves them is the one that
  collects. That the retained set is closed under references needs a lemma about
  the recursive function that computes it: a round that adds nothing is a fixed
  point, and among as many rounds as there are objects one adds nothing.
* *CloneImport.* `ImpInv(p)` says what an importer's position implies about its
  marker, the lock and the parts it has synced, `FileInv(p)` to which name the
  file it writes belongs, `AckedInv` that an acknowledged clone has all its
  parts on disk and nothing besides, `HeadInv` that an import replaces no head. The lemmas on
  `Ancestry` say that it is closed under parents and the least such set.
* *ProtocolServer.* One part per table (`AuthorityInv`, `RegistryInv`, `WorkInv`,
  `TokenInv`, `CacheInv`, whose part `LinkInv` says that an attempt and its token
  name one root), one for the request being dispatched (`RequestInv`)
  and one for the history of the work spent (`SpentInv`). `RunsOnce` is an
  action property and follows from `RegistryInv` before the step.
* *TestSupervisor.* `UnitInv` and `ProcInv` relate the manager's view of a unit to
  the process of its launch. `QuietInv` says at which positions a name may still
  have a process: it has none while it is free, failed or requested (`Still`),
  and a requested one gets none without its input, which only the current
  attempt has. `BoundInv` says what binding the cgroup ensures, `OverdueInv` what
  the deadline has left on the process of the run, `RunInv` and `ResultInv` what
  each position knows about the result that it is about to sign.

**What the proofs changed in the models.** `CloneReexports` used to be about every
exchange ever acknowledged; it fails for exchanges that share a head, because a
racing importer may extend a clone, and is now about the last authorised one.
The first model let an importer with an open file write into a marker that had
been removed, which no file system does. `ProtocolServer` evicted by an age that
the code does not keep in order. The exchanges of the run were changed so that
the extension of a clone is reached.

**Only model-checked:** the liveness properties `LocksAreReleased`,
`AttemptSettles`, `WorkersEnd` and `ResumeEnds`, because the prover does not
reason about fairness and enabledness.

## 6. What is not modelled

The repository has some 315,000 lines of Rust. The models stand for the code
that keeps shared or persistent state and must survive interleavings and
failures, which is a small share of it. The rest is tests and fixtures inside
the source files, record codecs, and sequential functions over one candidate:
they have no shared state and no failure to recover from, and their corpora
reach more of their inputs than a model checker would.

* Reads that change nothing, except as holders of locks. `accepted_head` may
  report a head that is visible and not durable; the code promises no more.
* Record formats, digests, signatures, the content of test evidence: the models
  use that a name determines its content.
* Limits of recovery in bytes and entries, other than the length of the
  ancestry and the numbers of branches and origins. Three limits can be reached
  by legal use: recovery refuses more than 65,536 ancestors although commits do
  not count them (`repository.rs:100`), a claim that stays `PromotionStarted`
  keeps one of the 4,096 places (`repository.rs:1562`), and orphan origins are
  counted apart from refs (`refs.rs:2193`).
* The order of the two directory syncs when a record moves between `settled/`
  and `attempts/` (`native_commit.rs:1156`).
* A journal stage that an error leaves blocks later writes of the attempt by
  the same process id: the model has it (`StageRecord`), no property is about it.
* Which waiter gets an flock: the kernel promises nothing, so a stream of shared
  holders can keep recovery or collection waiting.
* `gc.dry_run`, which changes nothing, and anchors that no caller makes yet
  (tags, leases, packs).
* Of the import: the trust checks of native evidence and the purge of the index
  cache. Of the server: hello, negotiation, the frame and payload codecs, and
  the workspace identity. Of the supervisor: signed refusals before a launch,
  the content of requests and reports, and calendar time.
* The index cache: a rebuildable file keyed by the root it was built from.
* Merge and compare: pure functions, see the plan.
* The checker, the VM, queries, mutation, policy, encodings, the agent and the
  front ends.

## 7. Plan

Done: 1 `ObjectStore`, 2 `TransactionRepository` with its proofs, 3
`NativeAttempts`, 4 `BranchRefs`, 5 `GarbageCollection`, 6 `ProtocolServer`
(sessions against a moving head, with the server's tables), 7 `CloneImport`, 8
`TestSupervisor`. Left:

9. Pure algorithms as operators checked against a reference definition: binding
   differences, tombstones, the judgement of the three-way merge.

Proofs: every safety property of every passing run is proved (section 5). Left:

* `HeadClosed`, `CasNeverStale` and `StagesIntact` for `NativeSpec`, where
  native commits and the journal run beside version-1 commits, by the invariant
  of `TransactionRepository_proofs` with the positions of a native commit added;
* without power loss, `NativeSpec => RefinesHistory`;
* `PlanSparesRetained` under the weaker hypothesis that no other server changes
  the head, a branch or a session between a snapshot and its guard.
