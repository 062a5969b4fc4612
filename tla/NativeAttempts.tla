--------------------------- MODULE NativeAttempts ---------------------------
(***************************************************************************)
(* sley-txn: native commits and their attempt journal, on the repository   *)
(* of TransactionRepository.tla.                                           *)
(*                                                                         *)
(* A caller names an attempt and the parent it builds on.  The attempt's   *)
(* record under attempts/ says how far it came; it is a hint for retries   *)
(* and recovery, and no part of the accepted state.  From persist_objects  *)
(* on, a native commit takes the steps of an ordinary one.                 *)
(*                                                                         *)
(* The two places of a record (active and settled) are one cell: a rename  *)
(* between two directories shows the file in one of them.  The workspace,  *)
(* the principal and the candidate of the bindings follow from the attempt *)
(* and its parent.                                                         *)
(***************************************************************************)
EXTENDS TransactionRepository

CONSTANTS
  Attempts,      \* attempt ids, and the inputs they install
  Executors,     \* processes that have a native test executor configured
  Faults,        \* the faults of this instance: "abandon", "power"
  FreshJournal   \* attempts/ does not exist yet

ASSUME NativeAssumption ==
  /\ Attempts \subseteq Candidates
  /\ Executors \subseteq Procs
  /\ Faults \subseteq {"abandon", "power"}
  /\ FreshJournal \in BOOLEAN

VARIABLES
  journal,       \* per attempt: cell of its record
  attemptsDir,   \* cell: the directory attempts/ is in the root
  jstages,       \* journal stage files, as <<attempt, process>>
  note           \* per process: the record it writes

jvars == <<journal, attemptsDir, jstages, note>>
nvars == <<vars, jvars>>

Retryable == {"Admitted", "Running", "AbortedBeforePromotion"}
AttemptStates == Retryable \cup {"PromotionStarted", "Committed", "OutcomeUnknown"}

NoRecord == [state |-> "none", parent |-> << >>]
AttemptRecords == [state : AttemptStates, parent : Transactions] \cup {NoRecord}
NoNote == [attempt |-> Genesis, record |-> NoRecord]

\* The transaction that the promotion claim of a record names.
Claimed(a, record) == Append(record.parent, a)
-----------------------------------------------------------------------------
\* A repository with an accepted genesis; native commits refuse without one.
NativeInit ==
  /\ maintenance = [shared |-> {}, exclusive |-> NoProc]
  /\ lock = NoProc
  /\ objects = [seen |-> Writes[Genesis], safe |-> Writes[Genesis]]
  /\ receipts = [seen |-> {<<Genesis>>}, safe |-> {<<Genesis>>}]
  /\ head = Settled(<<Genesis>>)
  /\ stages = {} /\ limbo = {}
  /\ pc = [p \in Procs |-> "idle"]
  /\ op = [p \in Procs |-> NoOperation]
  /\ todo = [p \in Procs |-> {}]
  /\ promised = {<<Genesis>>}
  /\ journal = [a \in Attempts |-> Settled(NoRecord)]
  /\ attemptsDir = Settled(~FreshJournal)
  /\ jstages = {}
  /\ note = [p \in Procs |-> NoNote]

BeginNative(p, t, a) ==
  /\ Len(t) < MaxLen
  /\ Begin(p, [kind |-> "native", parent |-> t, input |-> a])
  /\ UNCHANGED jvars

\* ensure_layout_under_maintenance syncs the root, before p waits for the
\* accepted lock: attempts/ may be created by its holder after that.
EnsureLayout(p) ==
  /\ pc[p] = "lock"
  /\ attemptsDir' = SyncCell(attemptsDir)
  /\ Goto(p, "layout")
  /\ UNCHANGED <<maintenance, lock, disk, op, todo, promised, journal, jstages, note>>

\* The accepted lock, waited for, as in AcquireLock.
LockNative(p) ==
  /\ pc[p] = "layout"
  /\ lock = NoProc
  /\ lock' = p
  /\ Goto(p, IF op[p].kind = "recover" THEN "plan" ELSE "check")
  /\ UNCHANGED <<maintenance, disk, op, todo, promised, jvars>>
-----------------------------------------------------------------------------
(* write_attempt_record, and what the writer does after it.                *)

\* The record to write is known.
Write(p, a, state, parent) ==
  /\ note' = [note EXCEPT ![p] =
       [attempt |-> a, record |-> [state |-> state, parent |-> parent]]]
  /\ Goto(p, "stageRecord")

\* The same for the attempt that p commits.
Transition(p, state) ==
  /\ Write(p, op[p].input, state, op[p].parent)
  /\ UNCHANGED <<maintenance, lock, disk, op, todo, promised, journal, attemptsDir, jstages>>

\* attempts/ is created if need be, and not synced in the root; the stage is
\* created (its name must be free), written, synced and read back ...
StageRecord(p) ==
  LET stage == <<note[p].attempt, p>> IN
  /\ pc[p] = "stageRecord"
  /\ stage \notin jstages
  /\ jstages' = jstages \cup {stage}
  /\ attemptsDir' = IF attemptsDir.seen THEN attemptsDir ELSE Replace(attemptsDir, TRUE)
  /\ Goto(p, "renameRecord")
  /\ UNCHANGED <<maintenance, lock, disk, op, todo, promised, journal, note>>

\* ... renamed over the record ...
RenameRecord(p) ==
  /\ pc[p] = "renameRecord"
  /\ journal' = [journal EXCEPT ![note[p].attempt] = Replace(@, note[p].record)]
  /\ jstages' = jstages \ {<<note[p].attempt, p>>}
  /\ Goto(p, "syncRecord")
  /\ UNCHANGED <<maintenance, lock, disk, op, todo, promised, attemptsDir, note>>

\* ... and attempts/ is synced.
SyncRecord(p) ==
  /\ pc[p] = "syncRecord"
  /\ journal' = [journal EXCEPT ![note[p].attempt] = SyncCell(@)]
  /\ note' = [note EXCEPT ![p] = NoNote]
  /\ UNCHANGED <<disk, attemptsDir, jstages>>

\* A commit that goes on: to the freshness check, to the tests, to promotion.
WrittenInCommit(p) ==
  LET state == note[p].record.state IN
  /\ SyncRecord(p)
  /\ op[p].kind = "native" /\ state \in {"Admitted", "Running", "PromotionStarted"}
  /\ Goto(p, CASE state = "Admitted" -> "fresh"
               [] state = "Running" -> "execute"
               [] state = "PromotionStarted" -> "objects")
  /\ todo' = [todo EXCEPT ![p] =
       IF state = "PromotionStarted" THEN Writes[op[p].input] ELSE {}]
  /\ UNCHANGED <<maintenance, lock, op, promised>>

\* A commit that ends: the caller learns success or a refusal.
WrittenAtEnd(p) ==
  LET state == note[p].record.state IN
  /\ SyncRecord(p)
  /\ op[p].kind = "native" /\ state \in {"AbortedBeforePromotion", "OutcomeUnknown", "Committed"}
  /\ promised' = IF state = "Committed" THEN promised \cup {Target(p)} ELSE promised
  /\ Release(p)

\* Recovery goes on with the next record.
WrittenInRecovery(p) ==
  /\ SyncRecord(p)
  /\ op[p].kind = "recover"
  /\ Goto(p, "journal")
  /\ UNCHANGED <<maintenance, lock, op, todo, promised>>
-----------------------------------------------------------------------------
(* commit_native_inner up to the promotion.                                *)

\* No head, a parent that does not load, a rejected candidate, an attempt
\* bound to another parent, or one that started promotion before.
RefuseNative(p) ==
  /\ pc[p] = "check" /\ op[p].kind = "native"
  /\ Release(p)
  /\ UNCHANGED <<disk, promised, jvars>>

\* Mutant of AdmitNative: a record of another parent is overwritten.
AdmitNativeRebinding(p) ==
  LET record == journal[op[p].input].seen IN
  /\ pc[p] = "check" /\ op[p].kind = "native"
  /\ Loads(op[p].parent)
  /\ \/ record = NoRecord
     \/ record.state \in Retryable
     \/ record.parent # op[p].parent
  /\ Transition(p, "Admitted")

\* Mutant of AdmitNative: every attempt that is not committed is retried.
AdmitNativeUnlessCommitted(p) ==
  LET record == journal[op[p].input].seen IN
  /\ pc[p] = "check" /\ op[p].kind = "native"
  /\ Loads(op[p].parent)
  /\ \/ record = NoRecord
     \/ record.parent = op[p].parent /\ record.state # "Committed"
  /\ Transition(p, "Admitted")

\* The candidate is valid on the expected parent, whatever the head is, and
\* the attempt is new or safe to retry.
AdmitNative(p) ==
  LET record == journal[op[p].input].seen IN
  /\ pc[p] = "check" /\ op[p].kind = "native"
  /\ Loads(op[p].parent)
  /\ \/ record = NoRecord
     \/ record.parent = op[p].parent /\ record.state \in Retryable
  /\ Transition(p, "Admitted")

\* replay_committed_attempt: the caller gets the recorded outcome if the
\* receipt still loads.
Replay(p) ==
  /\ pc[p] = "check" /\ op[p].kind = "native"
  /\ journal[op[p].input].seen = [state |-> "Committed", parent |-> op[p].parent]
  /\ Loads(Target(p))
  /\ promised' = promised \cup {Target(p)}
  /\ Release(p)
  /\ UNCHANGED <<disk, jvars>>

\* Freshness gates writes, and so does the executor.
Freshness(p) ==
  /\ pc[p] = "fresh"
  /\ Transition(p, IF head.seen = op[p].parent /\ p \in Executors
                   THEN "Running" ELSE "AbortedBeforePromotion")

\* Mutant of Execute: the claim is journaled only after the promotion.
ExecuteUnclaimed(p, state) ==
  /\ pc[p] = "execute"
  /\ \/ state \in {"AbortedBeforePromotion", "OutcomeUnknown"} /\ Transition(p, state)
     \/ /\ state = "PromotionStarted"
        /\ todo' = [todo EXCEPT ![p] = Writes[op[p].input]]
        /\ Goto(p, "objects")
        /\ UNCHANGED <<maintenance, lock, disk, op, promised, jvars>>

\* The executor runs the plan: the evidence is accepted, the tests or the
\* executor fail, or what they left cannot be judged.
Execute(p, state) ==
  /\ pc[p] = "execute"
  /\ state \in {"PromotionStarted", "AbortedBeforePromotion", "OutcomeUnknown"}
  /\ Transition(p, state)

\* cas_head returned.  (That it finds another head, which would abort the
\* attempt, cannot happen under the accepted lock: CasNeverStale.)
ConfirmNative(p) ==
  /\ pc[p] = "confirm" /\ op[p].kind = "native"
  /\ head.seen = Target(p)
  /\ Transition(p, "Committed")

\* Mutant of AdmitV1: an ordinary commit builds on whatever loads.
AdmitV1OnAny(p) == Admit(p) /\ UNCHANGED jvars

\* An ordinary commit reads its parent as a version 1 receipt.
AdmitV1(p) ==
  /\ op[p].kind = "commit" => Last(op[p].parent) \notin Attempts
  /\ Admit(p)
  /\ UNCHANGED jvars
-----------------------------------------------------------------------------
(* reconcile_attempt_journal.                                              *)

\* A claim whose receipt is not there.
Unverified(a) ==
  LET record == journal[a].seen IN
  /\ record.state \in {"PromotionStarted", "Committed"}
  /\ Claimed(a, record) \notin receipts.seen

\* A claim that the head confirms.
Confirmed(a) ==
  LET record == journal[a].seen IN
  /\ record.state = "PromotionStarted"
  /\ Claimed(a, record) \in receipts.seen
  /\ head.seen = Claimed(a, record)

\* Mutant of Reconcile: a claim with a receipt counts as confirmed.
ReconcileByReceipt(p, a) ==
  /\ pc[p] = "journal"
  /\ journal[a].seen.state = "PromotionStarted"
  /\ Write(p, a, IF Unverified(a) THEN "OutcomeUnknown" ELSE "Committed", journal[a].seen.parent)
  /\ UNCHANGED <<maintenance, lock, disk, op, todo, promised, journal, attemptsDir, jstages>>

Reconcile(p, a) ==
  /\ pc[p] = "journal"
  /\ Unverified(a) \/ Confirmed(a)
  /\ Write(p, a, IF Unverified(a) THEN "OutcomeUnknown" ELSE "Committed", journal[a].seen.parent)
  /\ UNCHANGED <<maintenance, lock, disk, op, todo, promised, journal, attemptsDir, jstages>>

\* Every other claim stays as it is.
Reconciled(p) ==
  /\ NoJournal(p)
  /\ \A a \in Attempts : ~Unverified(a) /\ ~Confirmed(a)
  /\ UNCHANGED jvars
-----------------------------------------------------------------------------
\* A journal stage stays behind under its name, which holds the process id:
\* it is in the way if the process lives on or its id comes back.
AbandonNative(p) ==
  /\ "abandon" \in Faults
  /\ Abandon(p)
  /\ note' = [note EXCEPT ![p] = NoNote]
  /\ jstages' \in {jstages, {s \in jstages : s[2] # p}}
  /\ UNCHANGED <<journal, attemptsDir>>

\* Without attempts/ in the root every record is lost.
PowerLossNative ==
  /\ "power" \in Faults
  /\ PowerLoss
  /\ attemptsDir' \in AfterPowerLoss(attemptsDir)
  /\ IF attemptsDir'.seen
       THEN /\ journal' \in [Attempts -> UNION {AfterPowerLoss(journal[a]) : a \in Attempts}]
            /\ \A a \in Attempts : journal'[a] \in AfterPowerLoss(journal[a])
            /\ jstages' \in SUBSET jstages
       ELSE /\ journal' = [a \in Attempts |-> Settled(NoRecord)]
            /\ jstages' = {}
  /\ note' = [p \in Procs |-> NoNote]

CallNative(p) ==
  \/ BeginRecover(p) /\ UNCHANGED jvars
  \/ \E t \in receipts.seen :
       \/ \E c \in Candidates \ Attempts : BeginCommit(p, t, c) /\ UNCHANGED jvars
       \/ \E a \in Attempts : BeginNative(p, t, a)

\* Steps that native commits share with the rest of the repository.
SharedStep(p) ==
  /\ \/ AcquireShared(p) \/ AcquireExclusive(p)
     \/ RefuseStale(p) \/ RefuseInput(p)
     \/ PromoteStep(p) \/ Confirm(p)
     \/ PlanRecovery(p) \/ RefuseRecovery(p) \/ SweepStep(p)
  /\ UNCHANGED jvars

NativeStep(p) ==
  \/ SharedStep(p) \/ EnsureLayout(p) \/ LockNative(p) \/ AdmitV1(p)
  \/ RefuseNative(p) \/ AdmitNative(p) \/ Replay(p)
  \/ Freshness(p) \/ \E state \in AttemptStates : Execute(p, state)
  \/ ConfirmNative(p)
  \/ StageRecord(p) \/ RenameRecord(p)
  \/ WrittenInCommit(p) \/ WrittenAtEnd(p) \/ WrittenInRecovery(p)
  \/ \E a \in Attempts : Reconcile(p, a)
  \/ Reconciled(p)

NativeNext ==
  \/ \E p \in Procs : CallNative(p) \/ NativeStep(p) \/ AbandonNative(p)
  \/ PowerLossNative

NativeSpec == NativeInit /\ [][NativeNext]_nvars
-----------------------------------------------------------------------------
NativeLabels == Labels \cup {"layout", "fresh", "execute", "stageRecord", "renameRecord", "syncRecord"}

\* Types of the journal, and of the process labels that it adds.
NativeTypeOK ==
  /\ journal \in [Attempts -> CellOf(AttemptRecords)]
  /\ attemptsDir \in CellOf(BOOLEAN)
  /\ jstages \subseteq Attempts \X Procs
  /\ note \in [Procs -> [attempt : Inputs, record : AttemptRecords]]
  /\ pc \in [Procs -> NativeLabels]
  /\ \A a \in Attempts : journal[a].seen # NoRecord => attemptsDir.seen
  /\ \A p \in Procs :
       pc[p] \in {"stageRecord", "renameRecord", "syncRecord"} => note[p].attempt \in Attempts

\* The attempt a is part of the history t.
InstalledIn(a, t) == \E i \in 1 .. Len(t) : t[i] = a

\* Whatever record a crash may leave, one that invites a retry (or none)
\* belongs to an attempt that no surviving head contains: "Any failure from
\* this point is OutcomeUnknown, never a silent retry-safe refusal".
HintIsSound ==
  \A a \in Attempts :
    (\E r \in journal[a].disk : r = NoRecord \/ r.state \in Retryable)
      => \A h \in head.disk : ~InstalledIn(a, h)

\* One attempt is accepted at most once, whatever parents its retries name.
AttemptOnce ==
  \A a \in Attempts :
    Cardinality({i \in 1 .. Len(head.seen) : head.seen[i] = a}) <= 1

\* "A v1 head never has v2 ancestors through the commit APIs": once a native
\* transaction is accepted, ordinary commits are refused.
NoV1OnNative ==
  \A h \in head.disk : \A i \in 1 .. Len(h) :
    h[i] \in Attempts => \A j \in i .. Len(h) : h[j] \in Attempts

\* A record says Committed only of a transaction in the accepted history.
CommittedIsAccepted ==
  \A a \in Attempts :
    journal[a].seen.state = "Committed"
      => IsPrefix(Claimed(a, journal[a].seen), head.seen)

\* An attempt that started promotion is never reopened for a retry, and one
\* that is committed stays so.
AttemptNeverReopens ==
  [][\A a \in Attempts :
       LET before == journal[a].seen  after == journal'[a].seen IN
       /\ before.state \in {"PromotionStarted", "Committed", "OutcomeUnknown"}
            => after.state \in {"PromotionStarted", "Committed", "OutcomeUnknown"}
       /\ before.state = "Committed" => after = before]_nvars
=============================================================================
