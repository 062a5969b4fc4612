----------------------- MODULE NativeAttempts_proofs -----------------------
(***************************************************************************)
(* Proofs about NativeAttempts, for any number of processes, inputs and    *)
(* attempts.  What the journal promises depends on the faults: a retry     *)
(* hint is sound if a power loss cannot take the directory attempts/ away, *)
(* and Committed is final where there is no power loss (recovery journals  *)
(* a head that it has not synced yet).                                     *)
(***************************************************************************)
EXTENDS NativeAttempts, TransactionRepository_proofs, FiniteSetTheorems
-----------------------------------------------------------------------------
(* The inductive invariant, in three layers.                               *)

NativeLocked == NativeLabels \ {"idle", "maintenance", "lock", "layout"}
Writing == {"stageRecord", "renameRecord", "syncRecord"}
Promotion == {"objects", "link", "syncReceipt", "unlink", "cas", "rename", "syncHead", "confirm"}
Recovering == {"plan", "journal", "sweepObject", "sweepReceipt", "sweepHead", "report"}

Records == [state : AttemptStates, parent : Transactions]
Notes == [attempt : Inputs, record : AttemptRecords]

Types ==
  /\ lock \in Procs \cup {NoProc}
  /\ head \in CellOf(Transactions)
  /\ receipts \in [seen : SUBSET Transactions, safe : SUBSET Transactions]
  /\ pc \in [Procs -> NativeLabels]
  /\ op \in [Procs -> Operations]
  /\ journal \in [Attempts -> CellOf(AttemptRecords)]
  /\ note \in [Procs -> Notes]

\* What p builds, and the lock it holds for it.
OperationInv(p) ==
  LET o == op[p] IN
  /\ pc[p] \in NativeLocked => lock = p
  /\ pc[p] # "idle" => \/ o.kind = "commit" /\ o.input \notin Attempts /\ o.parent # << >>
                       \/ o.kind = "native" /\ o.input \in Attempts
                       \/ o.kind = "recover"
  /\ pc[p] \in {"fresh", "execute"} => o.kind = "native"
  /\ pc[p] \in Promotion => o.kind \in {"commit", "native"}
  /\ pc[p] \in Recovering => o.kind = "recover"
  /\ pc[p] \in Promotion /\ o.kind = "commit" => Last(o.parent) \notin Attempts
  /\ pc[p] = "rename" => head.seen = o.parent

\* What p writes to the journal, and what it finds there: a claim is durable
\* before the promotion begins, and nothing but a retry-safe record or none is
\* replaced on the way to it.
RecordInv(p) ==
  LET o == op[p]  n == note[p] IN
  /\ pc[p] \in Writing =>
       /\ n.attempt \in Attempts /\ n.record \in Records
       /\ o.kind \in {"native", "recover"}
       /\ o.kind = "native" => n.attempt = o.input /\ n.record.parent = o.parent
       /\ o.kind = "recover" => n.record.state \in {"Committed", "OutcomeUnknown"}
  /\ pc[p] = "syncRecord" => journal[n.attempt].seen = n.record
  /\ pc[p] \in {"fresh", "execute"} => journal[o.input].seen.state \in Retryable
  /\ pc[p] \in Promotion /\ o.kind = "native" =>
       journal[o.input] = Settled([state |-> "PromotionStarted", parent |-> o.parent])
  /\ pc[p] \in {"stageRecord", "renameRecord"} /\ o.kind = "native" =>
       journal[n.attempt].seen.state \in
         IF n.record.state = "Committed" THEN {"PromotionStarted"} ELSE Retryable \cup {"none"}

BaseInv ==
  /\ Types
  /\ NoV1OnNative
  /\ \A p \in Procs : OperationInv(p) /\ RecordInv(p)

\* A power loss cannot take attempts/ away.
DirectorySafe == "power" \in Faults => ~FreshJournal

\* An attempt on its way to the head is in none that may survive.
InFlight(p) ==
  /\ op[p].kind = "native"
  /\ \/ pc[p] \in {"fresh", "execute", "objects", "link", "syncReceipt", "unlink", "cas", "rename"}
     \/ pc[p] \in Writing /\ note[p].record.state \in Retryable \cup {"PromotionStarted"}

Absent(a) == \A h \in head.disk : ~InstalledIn(a, h)

FreshInv(p) == InFlight(p) => Absent(op[p].input)

\* A record that a crash may leave invites a retry.
Invites(a) == \E r \in journal[a].disk : r = NoRecord \/ r.state \in Retryable

OnceInv ==
  \A h \in head.disk : \A i, j \in 1 .. Len(h) :
    h[i] = h[j] /\ h[i] \in Attempts => i = j

SoundInv ==
  /\ BaseInv
  /\ "power" \in Faults => attemptsDir = Settled(TRUE)
  /\ HintIsSound /\ OnceInv
  /\ \A p \in Procs : FreshInv(p)

\* A transaction is in the accepted history, and its receipt is there.
Accepted(t) == IsPrefix(t, head.seen) /\ t \in receipts.seen

CommitInv(p) ==
  /\ pc[p] \in Writing /\ note[p].record.state = "Committed" =>
       Accepted(Claimed(note[p].attempt, note[p].record))
  /\ pc[p] \in Promotion \ {"objects", "link"} => Target(p) \in receipts.seen
  /\ pc[p] \in {"stageRecord", "renameRecord"} /\ op[p].kind = "recover" =>
       journal[note[p].attempt].seen.state = "PromotionStarted"

FinalInv ==
  /\ BaseInv
  /\ "power" \notin Faults
  /\ \A a \in Attempts : journal[a].seen.state = "Committed" => Accepted(Claimed(a, journal[a].seen))
  /\ \A p \in Procs : CommitInv(p)
-----------------------------------------------------------------------------
(* Types, and what a step of one process leaves to the others.             *)

\* What a step of p does to the others: it moves none of them, and it touches
\* the head, the receipts and the journal only under the accepted lock.
Frame(p) ==
  /\ \A q \in Procs \ {p} : pc'[q] = pc[q] /\ op'[q] = op[q] /\ note'[q] = note[q]
  /\ pc[p] \in NativeLocked \/ UNCHANGED <<head, receipts, journal>>
  /\ lock' = lock \/ (lock = p /\ lock' = NoProc) \/ (lock = NoProc /\ lock' = p)
  /\ pc'[p] \in NativeLocked => lock' = p

\* The operation of nobody, and the record of nobody.
LEMMA NothingTypes == NoOperation \in Operations /\ NoRecord \in AttemptRecords /\ NoNote \in Notes
<1>1. << >> \in Transactions /\ Genesis \in Inputs
  BY EmptySeq DEF Transactions, Inputs
<1> QED
  BY <1>1 DEF NoOperation, Operations, NoRecord, AttemptRecords, NoNote, Notes

\* The labels that a step may go to under the lock.
LEMMA LockedLabels ==
  NativeLocked = {"check", "objects", "link", "syncReceipt", "unlink", "cas", "rename", "syncHead",
    "confirm", "plan", "journal", "sweepObject", "sweepReceipt", "sweepHead", "report",
    "fresh", "execute", "stageRecord", "renameRecord", "syncRecord"}
  BY DEF NativeLocked, NativeLabels, Labels

\* An operation builds on a transaction and installs an input.
LEMMA OperationTypes ==
  ASSUME Types, NEW p \in Procs
  PROVE  /\ Target(p) \in Transactions
         /\ op[p].parent \in Transactions
         /\ op[p].input \in Inputs
         /\ note[p].attempt \in Inputs
         /\ note[p].record \in AttemptRecords
<1>1. op[p] \in Operations /\ note[p] \in Notes
  BY DEF Types
<1>2. op[p].parent \in Transactions /\ op[p].input \in Inputs
  BY <1>1 DEF Operations
<1> QED
  BY <1>1, <1>2, AppendType DEF Target, Notes

\* Starting an operation keeps the types.
LEMMA CallFrame ==
  ASSUME Types, NEW p \in Procs, OperationInv(p), CallNative(p)
  PROVE  Types' /\ Frame(p)
<1>1. PICK o \in Operations : Begin(p, o) /\ UNCHANGED jvars
  BY EmptySeq, NativeAssumption DEF CallNative, BeginRecover, BeginCommit, BeginNative,
    Operations, Inputs, Transactions, Types
<1>2. op' \in [Procs -> Operations] /\ pc' \in [Procs -> NativeLabels]
  BY <1>1 DEF Begin, Goto, Types, NativeLabels, Labels
<1>3. Types'
  BY <1>1, <1>2 DEF Begin, Types, disk, jvars
<1>4. pc'[p] = "maintenance"
  BY <1>1 DEF Begin, Goto, Types
<1> QED
  BY <1>1, <1>3, <1>4, LockedLabels DEF Begin, Goto, Types, disk, jvars, Frame

\* Releasing the locks keeps the types of what it touches.
LEMMA ReleaseTypes ==
  ASSUME Types, NEW p \in Procs, Release(p)
  PROVE  /\ lock' \in Procs \cup {NoProc}
         /\ pc' \in [Procs -> NativeLabels]
         /\ op' \in [Procs -> Operations]
         /\ pc'[p] = "idle"
         /\ \A q \in Procs \ {p} : pc'[q] = pc[q] /\ op'[q] = op[q]
         /\ lock' = lock \/ (lock = p /\ lock' = NoProc)
  BY NothingTypes DEF Types, Release, Goto, NativeLabels, Labels

\* So does every way to end an operation that leaves the journal alone.
LEMMA EndFrame ==
  ASSUME Types, NEW p \in Procs, OperationInv(p), Release(p), UNCHANGED <<head, receipts, journal>>,
         note' \in [Procs -> Notes], \A q \in Procs \ {p} : note'[q] = note[q]
  PROVE  Types' /\ Frame(p)
<1>1. Types'
  BY ReleaseTypes DEF Types
<1> QED
  BY <1>1, ReleaseTypes, LockedLabels DEF Frame

\* A step that touches none of this.
LEMMA IdleFrame ==
  ASSUME Types, NEW p \in Procs, OperationInv(p),
         UNCHANGED <<lock, head, receipts, pc, op, journal, note>>
  PROVE  Types' /\ Frame(p)
  BY DEF Types, OperationInv, Frame

\* A step that goes to another label, or to none, and keeps the lock or takes it.
LEMMA GotoFrame ==
  ASSUME Types, NEW p \in Procs, OperationInv(p), NEW l \in NativeLabels, Goto(p, l),
         op' = op, note' \in [Procs -> Notes], \A q \in Procs \ {p} : note'[q] = note[q],
         head' \in CellOf(Transactions),
         receipts' \in [seen : SUBSET Transactions, safe : SUBSET Transactions],
         journal' \in [Attempts -> CellOf(AttemptRecords)],
         pc[p] \in NativeLocked \/ UNCHANGED <<head, receipts, journal>>,
         \/ lock' = lock /\ (pc[p] \in NativeLocked \/ l \notin NativeLocked)
         \/ lock = NoProc /\ lock' = p
  PROVE  Types' /\ Frame(p)
<1>1. pc' \in [Procs -> NativeLabels] /\ pc'[p] = l /\ \A q \in Procs \ {p} : pc'[q] = pc[q]
  BY DEF Goto, Types
<1>2. lock' \in Procs \cup {NoProc}
  BY DEF Types
<1>3. Types'
  BY <1>1, <1>2 DEF Types
<1>4. pc[p] \in NativeLocked => lock = p
  BY DEF OperationInv
<1> QED
  BY <1>1, <1>3, <1>4 DEF Frame

\* Steps before the lock, and the one that takes it.
LEMMA AcquireFrame ==
  ASSUME Types, NEW p \in Procs, OperationInv(p),
         \/ (AcquireShared(p) \/ AcquireExclusive(p)) /\ UNCHANGED jvars
         \/ EnsureLayout(p) \/ LockNative(p)
  PROVE  Types' /\ Frame(p)
<1>1. /\ op' = op /\ note' = note /\ head' = head /\ receipts' = receipts /\ journal' = journal
      /\ note' \in [Procs -> Notes]
  BY DEF AcquireShared, AcquireExclusive, EnsureLayout, LockNative, disk, jvars, Types
<1>2. PICK l \in NativeLabels :
        /\ Goto(p, l)
        /\ (lock' = lock /\ l \notin NativeLocked) \/ (lock = NoProc /\ lock' = p)
  <2>1. CASE AcquireShared(p) \/ AcquireExclusive(p)
    <3>1. Goto(p, "lock") /\ lock' = lock
      BY <2>1 DEF AcquireShared, AcquireExclusive
    <3>2. "lock" \in NativeLabels /\ "lock" \notin NativeLocked
      BY LockedLabels DEF NativeLabels, Labels
    <3> QED
      BY <3>1, <3>2
  <2>2. CASE EnsureLayout(p)
    BY <2>2, LockedLabels DEF EnsureLayout, NativeLabels
  <2>3. CASE LockNative(p)
    BY <2>3 DEF LockNative, NativeLabels, Labels
  <2> QED
    BY <2>1, <2>2, <2>3
<1> QED
  BY <1>1, <1>2, GotoFrame DEF Types

\* Persisting, promoting and sweeping: the journal is left alone.
LEMMA RepositoryFrame ==
  ASSUME Types, NEW p \in Procs, OperationInv(p), UNCHANGED jvars,
         \/ PromoteStep(p) \/ PlanRecovery(p) \/ Admit(p) \/ NoJournal(p)
         \/ \E kind \in StageKinds : SyncSweep(p, kind)
  PROVE  Types' /\ Frame(p)
<1>0. /\ op' = op /\ note' = note /\ journal' = journal /\ lock' = lock
      /\ note' \in [Procs -> Notes]
      /\ journal' \in [Attempts -> CellOf(AttemptRecords)]
  BY DEF jvars, Types, PromoteStep, PlanRecovery, Admit, NoJournal, local,
    PutLink, PutReturn, AdoptReceipt, StageReceipt, LinkReceipt, SyncReceipt, UnlinkReceiptStage,
    StageHead, RenameHead, SyncHead, SyncSweep
<1>t. Target(p) \in Transactions
  BY OperationTypes
<1>1. head' \in CellOf(Transactions)
  <2>1. head' = head \/ head' = Replace(head, Target(p)) \/ head' = SyncCell(head)
    BY DEF PromoteStep, PlanRecovery, Admit, NoJournal, disk,
      PutLink, PutReturn, AdoptReceipt, StageReceipt, LinkReceipt, SyncReceipt, UnlinkReceiptStage,
      StageHead, RenameHead, SyncHead, SyncSweep
  <2> QED
    BY <2>1, <1>t DEF Types, CellOf, Replace, SyncCell, Settled
<1>2. receipts' \in [seen : SUBSET Transactions, safe : SUBSET Transactions]
  <2>1. \/ receipts' = receipts \/ receipts' = Link(receipts, Target(p))
        \/ receipts' = SyncName(receipts, Target(p)) \/ receipts' = SyncShelf(receipts)
    BY DEF PromoteStep, PlanRecovery, Admit, NoJournal, disk,
      PutLink, PutReturn, AdoptReceipt, StageReceipt, LinkReceipt, SyncReceipt, UnlinkReceiptStage,
      StageHead, RenameHead, SyncHead, SyncSweep
  <2> QED
    BY <2>1, <1>t DEF Types, Link, SyncName, SyncShelf
<1>3. pc[p] \in NativeLocked /\ \E l \in NativeLabels : Goto(p, l)
  <2>1. CASE PromoteStep(p)
    <3>1. CASE \E o \in Objects : PutLink(p, o) \/ PutReturn(p, o)
      BY <3>1, LockedLabels DEF PutLink, PutReturn, local, Goto, Types, NativeLabels, Labels
    <3>2. CASE AdoptReceipt(p) \/ StageReceipt(p) \/ LinkReceipt(p) \/ SyncReceipt(p)
      BY <3>2, LockedLabels DEF AdoptReceipt, StageReceipt, LinkReceipt, SyncReceipt, NativeLabels, Labels
    <3>3. CASE UnlinkReceiptStage(p) \/ StageHead(p) \/ RenameHead(p) \/ SyncHead(p)
      BY <3>3, LockedLabels DEF UnlinkReceiptStage, StageHead, RenameHead, SyncHead, NativeLabels, Labels
    <3> QED
      BY <2>1, <3>1, <3>2, <3>3 DEF PromoteStep
  <2>3. CASE \E kind \in StageKinds : SyncSweep(p, kind)
    BY <2>3, LockedLabels DEF SyncSweep, SweepLabel, AfterSweep, StageKinds, NativeLabels, Labels
  <2>4. CASE PlanRecovery(p) \/ Admit(p) \/ NoJournal(p)
    BY <2>4, LockedLabels DEF PlanRecovery, Admit, NoJournal, NativeLabels, Labels
  <2> QED
    BY <2>1, <2>3, <2>4
<1> QED
  BY <1>0, <1>1, <1>2, <1>3, GotoFrame
-----------------------------------------------------------------------------
(* The journal's own steps.                                                *)

\* A step that decides which record to write next.
WriteStep(p) ==
  \/ AdmitNative(p) \/ Freshness(p) \/ (\E state \in AttemptStates : Execute(p, state))
  \/ ConfirmNative(p) \/ \E a \in Attempts : Reconcile(p, a)

\* What such a step does.
Decides(p, a, state, parent) ==
  /\ note' = [note EXCEPT ![p] = [attempt |-> a, record |-> [state |-> state, parent |-> parent]]]
  /\ pc' = [pc EXCEPT ![p] = "stageRecord"]
  /\ UNCHANGED <<lock, head, receipts, op, journal, attemptsDir>>

\* The record of an attempt names a transaction as its parent.
LEMMA RecordTypes ==
  ASSUME Types, NEW a \in Attempts
  PROVE  /\ journal[a].seen \in AttemptRecords
         /\ journal[a].seen \in journal[a].disk
         /\ journal[a].disk \subseteq AttemptRecords
         /\ journal[a].seen.parent \in Transactions
         /\ journal[a] = [seen |-> journal[a].seen, disk |-> journal[a].disk]
<1>1. journal[a] \in CellOf(AttemptRecords)
  BY DEF Types
<1>2. /\ journal[a].seen \in AttemptRecords /\ journal[a].seen \in journal[a].disk
      /\ journal[a].disk \subseteq AttemptRecords
      /\ journal[a] = [seen |-> journal[a].seen, disk |-> journal[a].disk]
  BY <1>1 DEF CellOf
<1>3. CASE journal[a].seen = NoRecord
  <2>1. << >> \in Transactions
    BY EmptySeq DEF Transactions
  <2>2. journal[a].seen.parent = << >>
    BY <1>3 DEF NoRecord
  <2> QED
    BY <1>2, <2>1, <2>2
<1>4. CASE journal[a].seen # NoRecord
  BY <1>2, <1>4 DEF AttemptRecords
<1> QED
  BY <1>2, <1>3, <1>4

\* A record is a state and a parent, and never NoRecord.
LEMMA RecordOf ==
  ASSUME NEW state \in AttemptStates, NEW parent \in Transactions
  PROVE  LET r == [state |-> state, parent |-> parent] IN
         /\ r \in Records /\ r \in AttemptRecords /\ r # NoRecord
         /\ r.state = state /\ r.parent = parent
  BY DEF Records, AttemptRecords, NoRecord, AttemptStates, Retryable

\* Which attempt, which state and which parent, for each such step.
LEMMA WriteDecides ==
  ASSUME Types, NEW p \in Procs, OperationInv(p), WriteStep(p)
  PROVE  \/ /\ op[p].kind = "native" /\ op[p].input \in Attempts
            /\ \E state \in AttemptStates :
                 /\ Decides(p, op[p].input, state, op[p].parent)
                 /\ \/ AdmitNative(p) /\ state = "Admitted"
                    \/ pc[p] = "fresh" /\ state \in {"Running", "AbortedBeforePromotion"}
                    \/ /\ pc[p] = "execute"
                       /\ state \in {"PromotionStarted", "AbortedBeforePromotion", "OutcomeUnknown"}
                    \/ ConfirmNative(p) /\ state = "Committed"
         \/ /\ op[p].kind = "recover" /\ pc[p] = "journal"
            /\ \E a \in Attempts :
                 \/ Unverified(a) /\ Decides(p, a, "OutcomeUnknown", journal[a].seen.parent)
                 \/ Confirmed(a) /\ Decides(p, a, "Committed", journal[a].seen.parent)
<1> USE DEF OperationInv
<1>s. \A state \in AttemptStates : Transition(p, state) => Decides(p, op[p].input, state, op[p].parent)
  BY DEF Transition, Write, Goto, Decides, disk
<1>1. CASE AdmitNative(p)
  BY <1>1, <1>s DEF AdmitNative, AttemptStates, Retryable
<1>2. CASE Freshness(p)
  <2>1. PICK state \in {"Running", "AbortedBeforePromotion"} : Transition(p, state)
    BY <1>2 DEF Freshness
  <2>2. pc[p] = "fresh" /\ op[p].kind = "native" /\ op[p].input \in Attempts
    BY <1>2 DEF Freshness
  <2> QED
    BY <2>1, <2>2, <1>s DEF AttemptStates, Retryable
<1>3. CASE \E state \in AttemptStates : Execute(p, state)
  <2>1. PICK state \in AttemptStates : Execute(p, state)
    BY <1>3
  <2>2. op[p].kind = "native" /\ op[p].input \in Attempts
    BY <2>1 DEF Execute
  <2> QED
    BY <2>1, <2>2, <1>s DEF Execute
<1>4. CASE ConfirmNative(p)
  BY <1>4, <1>s DEF ConfirmNative, AttemptStates, Retryable
<1>5. CASE \E a \in Attempts : Reconcile(p, a)
  <2>1. PICK a \in Attempts : Reconcile(p, a)
    BY <1>5
  <2>2. pc[p] = "journal" /\ op[p].kind = "recover"
    BY <2>1, LockedLabels DEF Reconcile, Recovering
  <2>3. CASE Unverified(a)
    BY <2>1, <2>2, <2>3 DEF Reconcile, Write, Goto, Decides, disk
  <2>4. CASE ~Unverified(a)
    BY <2>1, <2>2, <2>4 DEF Reconcile, Write, Goto, Decides, disk
  <2> QED
    BY <2>3, <2>4
<1> QED
  BY <1>1, <1>2, <1>3, <1>4, <1>5 DEF WriteStep

\* Deciding keeps the types.
LEMMA WriteFrame ==
  ASSUME Types, NEW p \in Procs, OperationInv(p), WriteStep(p)
  PROVE  Types' /\ Frame(p)
<1>1. PICK a \in Attempts, state \in AttemptStates, parent \in Transactions : Decides(p, a, state, parent)
  <2>1. CASE op[p].input \in Attempts /\ \E state \in AttemptStates : Decides(p, op[p].input, state, op[p].parent)
    BY <2>1, OperationTypes
  <2>2. CASE \E a \in Attempts : \/ Decides(p, a, "OutcomeUnknown", journal[a].seen.parent)
                                \/ Decides(p, a, "Committed", journal[a].seen.parent)
    <3>1. PICK a \in Attempts : \/ Decides(p, a, "OutcomeUnknown", journal[a].seen.parent)
                               \/ Decides(p, a, "Committed", journal[a].seen.parent)
      BY <2>2
    <3>2. journal[a].seen.parent \in Transactions /\ "OutcomeUnknown" \in AttemptStates /\ "Committed" \in AttemptStates
      BY RecordTypes DEF AttemptStates
    <3> QED
      BY <3>1, <3>2
  <2> QED
    BY <2>1, <2>2, WriteDecides
<1>2. [attempt |-> a, record |-> [state |-> state, parent |-> parent]] \in Notes
  BY RecordOf, NativeAssumption DEF Notes, Inputs
<1>3. note' \in [Procs -> Notes] /\ \A q \in Procs \ {p} : note'[q] = note[q]
  BY <1>1, <1>2 DEF Decides, Types
<1>4. Goto(p, "stageRecord") /\ UNCHANGED <<lock, head, receipts, op, journal>>
  BY <1>1 DEF Decides, Goto
<1>5. pc[p] \in NativeLocked /\ "stageRecord" \in NativeLabels
  BY LockedLabels, WriteDecides DEF AdmitNative, ConfirmNative, NativeLabels
<1> QED
  BY <1>3, <1>4, <1>5, GotoFrame DEF Types

\* The writer's steps.
LEMMA RecordFrame ==
  ASSUME Types, NEW p \in Procs, OperationInv(p), RecordInv(p),
         \/ StageRecord(p) \/ RenameRecord(p)
         \/ WrittenInCommit(p) \/ WrittenAtEnd(p) \/ WrittenInRecovery(p)
  PROVE  Types' /\ Frame(p)
<1>1. pc[p] \in Writing
  BY DEF StageRecord, RenameRecord, WrittenInCommit, WrittenAtEnd, WrittenInRecovery, SyncRecord, Writing
<1>2. note[p].attempt \in Attempts /\ note[p].record \in AttemptRecords
  BY <1>1, OperationTypes DEF RecordInv
<1>3. journal' \in [Attempts -> CellOf(AttemptRecords)]
  <2>1. \/ journal' = journal
        \/ journal' = [journal EXCEPT ![note[p].attempt] = Replace(@, note[p].record)]
        \/ journal' = [journal EXCEPT ![note[p].attempt] = SyncCell(@)]
    BY DEF StageRecord, RenameRecord, WrittenInCommit, WrittenAtEnd, WrittenInRecovery, SyncRecord
  <2>2. /\ Replace(journal[note[p].attempt], note[p].record) \in CellOf(AttemptRecords)
        /\ SyncCell(journal[note[p].attempt]) \in CellOf(AttemptRecords)
    BY <1>2, RecordTypes DEF Replace, SyncCell, Settled, CellOf
  <2> QED
    BY <1>2, <2>1, <2>2 DEF Types
<1>4. note' \in [Procs -> Notes] /\ \A q \in Procs \ {p} : note'[q] = note[q]
  BY NothingTypes DEF StageRecord, RenameRecord, WrittenInCommit, WrittenAtEnd, WrittenInRecovery,
    SyncRecord, Types
<1>5. head' = head /\ receipts' = receipts
  BY DEF StageRecord, RenameRecord, WrittenInCommit, WrittenAtEnd, WrittenInRecovery, SyncRecord, disk
<1>6. pc[p] \in NativeLocked
  BY <1>1, LockedLabels DEF Writing
<1>7. CASE WrittenAtEnd(p)
  <2>1. Release(p)
    BY <1>7 DEF WrittenAtEnd
  <2>2. Types'
    BY <2>1, <1>3, <1>4, <1>5, ReleaseTypes DEF Types
  <2> QED
    BY <2>1, <2>2, <1>4, <1>6, ReleaseTypes, LockedLabels DEF Frame
<1>8. CASE ~WrittenAtEnd(p)
  <2>1. op' = op /\ lock' = lock
    BY <1>8 DEF StageRecord, RenameRecord, WrittenInCommit, WrittenInRecovery
  <2>2. PICK l \in NativeLabels : Goto(p, l)
    BY <1>8 DEF StageRecord, RenameRecord, WrittenInCommit, WrittenInRecovery, NativeLabels, Labels
  <2> QED
    BY <2>1, <2>2, <1>3, <1>4, <1>5, <1>6, GotoFrame DEF Types
<1> QED
  BY <1>7, <1>8
-----------------------------------------------------------------------------
(* The steps of a process by what they do, and what each leaves it with.   *)

AcquireStep(p) ==
  \/ (AcquireShared(p) \/ AcquireExclusive(p)) /\ UNCHANGED jvars
  \/ EnsureLayout(p) \/ LockNative(p)

PersistStep(p) == PromoteStep(p) /\ UNCHANGED jvars

RecoveryStep(p) ==
  /\ PlanRecovery(p) \/ NoJournal(p) \/ \E kind \in StageKinds : SyncSweep(p, kind)
  /\ UNCHANGED jvars

RemoveStep(p) == (\E s \in stages : RemoveStage(p, s)) /\ UNCHANGED jvars

EndStep(p) ==
  \/ /\ RefuseStale(p) \/ RefuseInput(p) \/ Confirm(p) \/ RefuseRecovery(p) \/ Report(p)
     /\ UNCHANGED jvars
  \/ RefuseNative(p) \/ Replay(p) \/ AbandonNative(p)

RecordStep(p) ==
  \/ StageRecord(p) \/ RenameRecord(p)
  \/ WrittenInCommit(p) \/ WrittenAtEnd(p) \/ WrittenInRecovery(p)

\* Every step is one of them.
LEMMA StepCases ==
  ASSUME NEW p \in Procs, CallNative(p) \/ NativeStep(p) \/ AbandonNative(p)
  PROVE  \/ CallNative(p) \/ AcquireStep(p) \/ AdmitV1(p) \/ PersistStep(p) \/ RecoveryStep(p)
         \/ RemoveStep(p) \/ EndStep(p) \/ WriteStep(p) \/ RecordStep(p)
<1>1. CASE SharedStep(p)
  BY <1>1 DEF SharedStep, SweepStep, AcquireStep, PersistStep, RecoveryStep, RemoveStep, EndStep
<1>2. CASE Reconciled(p)
  BY <1>2 DEF Reconciled, RecoveryStep
<1> QED
  BY <1>1, <1>2 DEF NativeStep, AcquireStep, EndStep, WriteStep, RecordStep

\* Ending an operation leaves the files alone and the process idle.
LEMMA EndsIdle ==
  ASSUME Types, NEW p \in Procs, OperationInv(p), EndStep(p)
  PROVE  Types' /\ Frame(p) /\ pc'[p] = "idle" /\ UNCHANGED <<head, receipts, journal, attemptsDir>>
<1>1. Release(p) /\ UNCHANGED <<head, receipts, journal, attemptsDir>>
  BY DEF EndStep, RefuseStale, RefuseInput, Confirm, RefuseRecovery, Report, RefuseNative, Replay,
    AbandonNative, Abandon, disk, jvars
<1>2. note' \in [Procs -> Notes] /\ \A q \in Procs \ {p} : note'[q] = note[q]
  <2>1. note' = note \/ note' = [note EXCEPT ![p] = NoNote]
    BY DEF EndStep, RefuseNative, Replay, AbandonNative, jvars
  <2> QED
    BY <2>1, NothingTypes DEF Types
<1> QED
  BY <1>1, <1>2, EndFrame, ReleaseTypes

\* Every step keeps the types and leaves the others alone.
LEMMA StepFrame ==
  ASSUME Types, NEW p \in Procs, OperationInv(p), RecordInv(p),
         CallNative(p) \/ NativeStep(p) \/ AbandonNative(p)
  PROVE  Types' /\ Frame(p)
<1>1. CASE RemoveStep(p)
  BY <1>1, IdleFrame DEF RemoveStep, RemoveStage, local, jvars
<1>2. CASE AdmitV1(p)
  BY <1>2, RepositoryFrame DEF AdmitV1
<1> QED
  BY <1>1, <1>2, StepCases, CallFrame, AcquireFrame, RepositoryFrame, EndsIdle, WriteFrame, RecordFrame
  DEF AcquireStep, PersistStep, RecoveryStep, RecordStep

\* A process that is idle, or waits for a lock, has only its operation.
LEMMA WaitingInv ==
  ASSUME NEW p \in Procs, pc'[p] \in {"idle", "maintenance", "lock", "layout"},
         pc'[p] # "idle" => \/ op'[p].kind = "commit" /\ op'[p].input \notin Attempts /\ op'[p].parent # << >>
                            \/ op'[p].kind = "native" /\ op'[p].input \in Attempts
                            \/ op'[p].kind = "recover"
  PROVE  OperationInv(p)' /\ RecordInv(p)'
  BY LockedLabels DEF OperationInv, RecordInv, Promotion, Recovering, Writing

\* Where a step leads that neither writes a record nor promotes.
LEMMA CallOwn ==
  ASSUME Types, NEW p \in Procs, OperationInv(p), RecordInv(p), Types', Frame(p),
         CallNative(p) \/ EndStep(p) \/ RemoveStep(p)
  PROVE  OperationInv(p)' /\ RecordInv(p)'
<1>1. CASE CallNative(p)
  <2>1. PICK o \in Operations :
          /\ Begin(p, o)
          /\ \/ o.kind = "commit" /\ o.input \notin Attempts /\ o.parent # << >>
             \/ o.kind = "native" /\ o.input \in Attempts
             \/ o.kind = "recover"
    <3>1. CASE BeginRecover(p)
      <4>1. [kind |-> "recover", parent |-> << >>, input |-> Genesis] \in Operations
        BY EmptySeq DEF Operations, Transactions, Inputs
      <4> QED
        BY <3>1, <4>1 DEF BeginRecover
    <3>2. CASE \E t \in receipts.seen : \E c \in Candidates \ Attempts : BeginCommit(p, t, c)
      <4>1. PICK t \in receipts.seen, c \in Candidates \ Attempts : BeginCommit(p, t, c)
        BY <3>2
      <4>2. [kind |-> "commit", parent |-> t, input |-> c] \in Operations
        BY <4>1 DEF Types, Operations, Inputs
      <4> QED
        BY <4>1, <4>2 DEF BeginCommit
    <3>3. CASE \E t \in receipts.seen : \E a \in Attempts : BeginNative(p, t, a)
      <4>1. PICK t \in receipts.seen, a \in Attempts : BeginNative(p, t, a)
        BY <3>3
      <4>2. [kind |-> "native", parent |-> t, input |-> a] \in Operations
        BY <4>1, NativeAssumption DEF Types, Operations, Inputs
      <4> QED
        BY <4>1, <4>2 DEF BeginNative
    <3> QED
      BY <1>1, <3>1, <3>2, <3>3 DEF CallNative
  <2>2. pc'[p] = "maintenance" /\ op'[p] = o
    BY <2>1 DEF Begin, Goto, Types
  <2> QED
    BY <2>1, <2>2, WaitingInv
<1>2. CASE EndStep(p)
  BY <1>2, EndsIdle, WaitingInv
<1>3. CASE RemoveStep(p)
  <2>1. UNCHANGED <<lock, head, receipts, pc, op, journal, note>>
    BY <1>3 DEF RemoveStep, RemoveStage, local, jvars
  <2> QED
    BY <2>1 DEF OperationInv, RecordInv
<1> QED
  BY <1>1, <1>2, <1>3

\* Taking the locks.
LEMMA AcquireOwn ==
  ASSUME Types, NEW p \in Procs, OperationInv(p), Types', Frame(p), AcquireStep(p)
  PROVE  OperationInv(p)' /\ RecordInv(p)'
<1>1. op' = op /\ pc[p] # "idle"
  BY DEF AcquireStep, AcquireShared, AcquireExclusive, EnsureLayout, LockNative
<1>2. CASE AcquireShared(p) \/ AcquireExclusive(p) \/ EnsureLayout(p)
  <2>1. pc'[p] \in {"lock", "layout"}
    BY <1>2 DEF AcquireShared, AcquireExclusive, EnsureLayout, Goto, Types
  <2> QED
    BY <1>1, <2>1, WaitingInv DEF OperationInv
<1>3. CASE LockNative(p)
  <2>1. /\ op[p].kind = "recover" => pc'[p] = "plan"
        /\ op[p].kind # "recover" => pc'[p] = "check"
    BY <1>3 DEF EnsureLayout, LockNative, Goto, Types
  <2>2. pc'[p] \in {"plan", "check"} /\ (pc'[p] \in NativeLocked => lock' = p)
    BY <2>1 DEF Frame
  <2>3. OperationInv(p)'
    BY <1>1, <2>1, <2>2 DEF OperationInv, Promotion, Recovering
  <2> QED
    BY <2>2, <2>3 DEF RecordInv, Promotion, Writing
<1> QED
  BY <1>2, <1>3 DEF AcquireStep

\* Promotion, which for a native commit goes on under its claim.
LEMMA PersistOwn ==
  ASSUME Types, NEW p \in Procs, OperationInv(p), RecordInv(p), Types', Frame(p),
         AdmitV1(p) \/ PersistStep(p)
  PROVE  OperationInv(p)' /\ RecordInv(p)' /\ pc[p] \in Promotion \cup {"check"} /\ pc'[p] \in Promotion
<1>1. op' = op /\ note' = note /\ journal' = journal /\ lock' = lock
  BY DEF AdmitV1, Admit, PersistStep, PromoteStep, PutLink, PutReturn, AdoptReceipt, StageReceipt,
    LinkReceipt, SyncReceipt, UnlinkReceiptStage, StageHead, RenameHead, SyncHead, local, jvars
<1>2. /\ pc[p] \in Promotion \cup {"check"} /\ pc'[p] \in Promotion
      /\ pc[p] = "check" => AdmitV1(p)
      /\ pc'[p] = "rename" => head'.seen = op[p].parent
  <2>1. CASE AdmitV1(p)
    BY <2>1 DEF AdmitV1, Admit, Goto, Types, Promotion
  <2>2. CASE \E o \in Objects : PutLink(p, o) \/ PutReturn(p, o)
    BY <2>2 DEF PutLink, PutReturn, local, Promotion, Types
  <2>3. CASE AdoptReceipt(p) \/ StageReceipt(p) \/ LinkReceipt(p) \/ SyncReceipt(p)
    BY <2>3 DEF AdoptReceipt, StageReceipt, LinkReceipt, SyncReceipt, Goto, Types, Promotion
  <2>4. CASE UnlinkReceiptStage(p) \/ StageHead(p) \/ RenameHead(p) \/ SyncHead(p)
    BY <2>4 DEF UnlinkReceiptStage, StageHead, RenameHead, SyncHead, Goto, Types, Promotion
  <2> QED
    BY <2>1, <2>2, <2>3, <2>4 DEF PersistStep, PromoteStep
<1>3. op[p].kind \in {"commit", "native"} /\ (op[p].kind = "commit" => Last(op[p].parent) \notin Attempts)
  BY <1>2 DEF OperationInv, AdmitV1, Admit
<1>4. AdmitV1(p) => op[p].kind = "commit"
  BY <1>3 DEF AdmitV1, Admit
<1>5. pc'[p] \notin Recovering \cup Writing \cup {"idle", "fresh", "execute"} /\ pc[p] # "idle"
  BY <1>2 DEF Promotion, Recovering, Writing
<1>6. OperationInv(p)'
  BY <1>1, <1>2, <1>3, <1>5 DEF OperationInv, Frame
<1>7. RecordInv(p)'
  BY <1>1, <1>2, <1>4, <1>5 DEF RecordInv, Writing
<1> QED
  BY <1>2, <1>6, <1>7

\* Recovery between the plan and the report.
LEMMA RecoveryOwn ==
  ASSUME Types, NEW p \in Procs, OperationInv(p), Types', Frame(p), RecoveryStep(p)
  PROVE  /\ OperationInv(p)' /\ RecordInv(p)'
         /\ pc[p] \in Recovering /\ pc'[p] \in Recovering /\ op'[p].kind = "recover"
<1>1. op' = op /\ pc[p] \in Recovering /\ pc'[p] \in Recovering
  <2>1. CASE PlanRecovery(p) \/ NoJournal(p)
    BY <2>1 DEF PlanRecovery, NoJournal, Goto, Types, Recovering
  <2>2. CASE \E kind \in StageKinds : SyncSweep(p, kind)
    BY <2>2 DEF SyncSweep, SweepLabel, AfterSweep, StageKinds, Goto, Types, Recovering
  <2> QED
    BY <2>1, <2>2 DEF RecoveryStep
<1>2. op'[p].kind = "recover"
  BY <1>1 DEF OperationInv
<1>3. pc'[p] \notin Promotion \cup Writing \cup {"idle", "fresh", "execute", "rename"}
  BY <1>1 DEF Promotion, Recovering, Writing
<1>4. OperationInv(p)'
  BY <1>1, <1>2, <1>3 DEF OperationInv, Frame
<1> QED
  BY <1>1, <1>2, <1>3, <1>4 DEF RecordInv, Writing

\* What the writer has in hand after it decided.
LEMMA DecidesOwn ==
  ASSUME Types, NEW p \in Procs, OperationInv(p), NEW a \in Attempts, NEW state \in AttemptStates,
         NEW parent \in Transactions, Decides(p, a, state, parent)
  PROVE  /\ pc'[p] = "stageRecord" /\ op' = op /\ journal' = journal /\ head' = head /\ receipts' = receipts
         /\ note'[p].attempt = a
         /\ note'[p].record = [state |-> state, parent |-> parent]
         /\ note'[p].record \in Records
         /\ note'[p].record.state = state /\ note'[p].record.parent = parent
<1>1. note'[p] = [attempt |-> a, record |-> [state |-> state, parent |-> parent]]
  BY DEF Decides, Types
<1> QED
  BY <1>1, RecordOf DEF Decides, Types

\* The decision to write: only what is retry-safe is replaced before the
\* claim, and only the claim by Committed.
LEMMA WriteOwn ==
  ASSUME Types, NEW p \in Procs, OperationInv(p), RecordInv(p), Types', Frame(p), WriteStep(p)
  PROVE  OperationInv(p)' /\ RecordInv(p)'
<1> DEFINE Replaced(state) == IF state = "Committed" THEN {"PromotionStarted"} ELSE Retryable \cup {"none"}
<1>1. PICK a \in Attempts, state \in AttemptStates, parent \in Transactions :
        /\ Decides(p, a, state, parent)
        /\ \/ /\ op[p].kind = "native" /\ a = op[p].input /\ parent = op[p].parent
              /\ journal[a].seen.state \in Replaced(state)
           \/ op[p].kind = "recover" /\ state \in {"Committed", "OutcomeUnknown"}
  <2>1. CASE op[p].kind = "native"
    <3>1. PICK state \in AttemptStates :
            /\ op[p].input \in Attempts
            /\ Decides(p, op[p].input, state, op[p].parent)
            /\ \/ AdmitNative(p) /\ state = "Admitted"
               \/ pc[p] = "fresh" /\ state \in {"Running", "AbortedBeforePromotion"}
               \/ /\ pc[p] = "execute"
                  /\ state \in {"PromotionStarted", "AbortedBeforePromotion", "OutcomeUnknown"}
               \/ ConfirmNative(p) /\ state = "Committed"
      BY <2>1, WriteDecides
    <3>2. journal[op[p].input].seen.state \in Replaced(state)
      <4>1. CASE AdmitNative(p) /\ state = "Admitted"
        BY <4>1 DEF AdmitNative, NoRecord
      <4>2. CASE pc[p] \in {"fresh", "execute"} /\ state # "Committed"
        BY <4>2 DEF RecordInv
      <4>3. CASE ConfirmNative(p) /\ state = "Committed"
        <5>1. journal[op[p].input] = Settled([state |-> "PromotionStarted", parent |-> op[p].parent])
          BY <4>3 DEF ConfirmNative, RecordInv, Promotion
        <5> QED
          BY <5>1, <4>3 DEF Settled
      <4> QED
        BY <3>1, <4>1, <4>2, <4>3
    <3> QED
      BY <2>1, <3>1, <3>2, OperationTypes
  <2>2. CASE op[p].kind # "native"
    BY <2>2, WriteDecides, RecordTypes DEF AttemptStates
  <2> QED
    BY <2>1, <2>2
<1>2. /\ pc'[p] = "stageRecord" /\ op' = op /\ journal' = journal
      /\ note'[p].attempt = a /\ note'[p].record \in Records
      /\ note'[p].record.state = state /\ note'[p].record.parent = parent
  <2>1. Decides(p, a, state, parent)
    BY <1>1
  <2> QED
    BY <2>1, DecidesOwn
<1>3. pc[p] # "idle"
  BY WriteDecides DEF AdmitNative, ConfirmNative
<1>4. OperationInv(p)'
  BY <1>2, <1>3 DEF OperationInv, Frame, Promotion, Recovering
<1>5. RecordInv(p)'
  BY <1>1, <1>2 DEF RecordInv, Promotion, Writing
<1> QED
  BY <1>4, <1>5

\* Writing it.
LEMMA RecordOwn ==
  ASSUME Types, NEW p \in Procs, OperationInv(p), RecordInv(p), Types', Frame(p), RecordStep(p)
  PROVE  OperationInv(p)' /\ RecordInv(p)'
<1>1. pc[p] \in Writing
  BY DEF RecordStep, StageRecord, RenameRecord, WrittenInCommit, WrittenAtEnd, WrittenInRecovery,
    SyncRecord, Writing
<1>2. /\ note[p].attempt \in Attempts /\ note[p].record \in Records
      /\ op[p].kind \in {"native", "recover"}
      /\ op[p].kind = "native" => /\ note[p].attempt = op[p].input /\ op[p].input \in Attempts
                                  /\ note[p].record.parent = op[p].parent
      /\ pc[p] # "idle"
  BY <1>1 DEF RecordInv, OperationInv, Writing
<1>3. CASE StageRecord(p)
  <2>1. pc'[p] = "renameRecord" /\ pc[p] = "stageRecord" /\ op' = op /\ note' = note /\ journal' = journal
    BY <1>3 DEF StageRecord, Goto, Types
  <2>2. OperationInv(p)'
    BY <1>2, <2>1 DEF OperationInv, Frame, Promotion, Recovering
  <2> QED
    BY <2>1, <2>2 DEF RecordInv, Promotion, Writing
<1>4. CASE RenameRecord(p)
  <2>1. /\ pc'[p] = "syncRecord" /\ pc[p] = "renameRecord" /\ op' = op /\ note' = note
        /\ journal'[note[p].attempt].seen = note[p].record
    BY <1>2, <1>4 DEF RenameRecord, Goto, Types, Replace
  <2>2. OperationInv(p)'
    BY <1>2, <2>1 DEF OperationInv, Frame, Promotion, Recovering
  <2> QED
    BY <2>1, <2>2 DEF RecordInv, Promotion, Writing
<1>5. CASE WrittenInCommit(p)
  <2>1. pc[p] = "syncRecord" /\ journal[note[p].attempt].seen = note[p].record
    BY <1>5 DEF WrittenInCommit, SyncRecord, RecordInv
  <2>2. op' = op /\ journal'[op[p].input] = Settled(note[p].record) /\ op[p].kind = "native"
    BY <1>2, <1>5, <2>1 DEF WrittenInCommit, SyncRecord, SyncCell, Types
  <2>3. \/ pc'[p] = "fresh" /\ note[p].record.state = "Admitted"
        \/ pc'[p] = "execute" /\ note[p].record.state = "Running"
        \/ pc'[p] = "objects" /\ note[p].record.state = "PromotionStarted"
    BY <1>5 DEF WrittenInCommit, Goto, Types
  <2>4. note[p].record = [state |-> note[p].record.state, parent |-> op[p].parent]
    BY <1>2, <2>2 DEF Records
  <2>5. OperationInv(p)'
    BY <1>2, <2>2, <2>3 DEF OperationInv, Frame, Promotion, Recovering
  <2>6. journal'[op'[p].input].seen.state = note[p].record.state
    BY <2>2 DEF Settled
  <2>7. RecordInv(p)'
    <3>1. CASE pc'[p] \in {"fresh", "execute"}
      BY <2>3, <2>6, <3>1 DEF RecordInv, Promotion, Writing, Retryable
    <3>2. CASE pc'[p] = "objects"
      <4>1. journal'[op'[p].input] = Settled([state |-> "PromotionStarted", parent |-> op'[p].parent])
        BY <2>2, <2>3, <2>4, <3>2
      <4> QED
        BY <3>2, <4>1 DEF RecordInv, Promotion, Writing
    <3> QED
      BY <2>3, <3>1, <3>2
  <2> QED
    BY <2>5, <2>7
<1>6. CASE WrittenAtEnd(p)
  BY <1>6, ReleaseTypes, WaitingInv DEF WrittenAtEnd
<1>7. CASE WrittenInRecovery(p)
  <2>1. pc'[p] = "journal" /\ op' = op /\ op[p].kind = "recover"
    BY <1>7 DEF WrittenInRecovery, Goto, Types
  <2>2. OperationInv(p)'
    BY <1>2, <2>1 DEF OperationInv, Frame, Promotion, Recovering
  <2> QED
    BY <2>1, <2>2 DEF RecordInv, Promotion, Writing
<1> QED
  BY <1>3, <1>4, <1>5, <1>6, <1>7 DEF RecordStep
-----------------------------------------------------------------------------
(* The first layer: no ordinary commit on a native one.                    *)

\* A process under the lock finds the files as it left them.
LEMMA OthersKept ==
  ASSUME Types, Types', NEW p \in Procs, NEW q \in Procs, q # p, OperationInv(p), OperationInv(q), Frame(p)
  PROVE  /\ pc'[q] = pc[q] /\ op'[q] = op[q] /\ note'[q] = note[q]
         /\ pc[q] \in NativeLocked => UNCHANGED <<lock, head, receipts, journal>>
<1>1. pc'[q] = pc[q] /\ op'[q] = op[q] /\ note'[q] = note[q]
  BY DEF Frame
<1>2. ASSUME pc[q] \in NativeLocked PROVE UNCHANGED <<lock, head, receipts, journal>>
  <2>1. lock = q /\ pc[p] \notin NativeLocked /\ q # NoProc
    BY <1>2, ProcsAssumption DEF OperationInv
  <2> QED
    BY <2>1 DEF Frame
<1> QED
  BY <1>1, <1>2

\* So it keeps what it knows.
LEMMA OthersInv ==
  ASSUME Types, Types', NEW p \in Procs, NEW q \in Procs, q # p, OperationInv(p), OperationInv(q), RecordInv(q),
         Frame(p)
  PROVE  OperationInv(q)' /\ RecordInv(q)'
<1>1. CASE pc[q] \in NativeLocked
  <2>1. /\ pc'[q] = pc[q] /\ op'[q] = op[q] /\ note'[q] = note[q]
        /\ lock' = lock /\ head' = head /\ journal' = journal
    BY <1>1, OthersKept
  <2> QED
    BY <2>1 DEF OperationInv, RecordInv
<1>2. CASE pc[q] \notin NativeLocked
  <2>1. pc'[q] = pc[q] /\ op'[q] = op[q]
    BY OthersKept
  <2>2. pc[q] \in {"idle", "maintenance", "lock", "layout"}
    BY <1>2 DEF NativeLocked, Types
  <2> QED
    BY <2>1, <2>2, WaitingInv DEF OperationInv
<1> QED
  BY <1>1, <1>2

\* The head changes by a sync or by a promotion.
LEMMA HeadStep ==
  ASSUME Types, NEW p \in Procs, OperationInv(p), CallNative(p) \/ NativeStep(p) \/ AbandonNative(p)
  PROVE  \/ head' = head
         \/ head' = SyncCell(head)
         \/ pc[p] = "rename" /\ RenameHead(p) /\ head' = Replace(head, Target(p)) /\ PersistStep(p)
<1>1. CASE CallNative(p)
  BY <1>1 DEF CallNative, BeginRecover, BeginCommit, BeginNative, Begin, disk
<1>2. CASE AcquireStep(p) \/ AdmitV1(p)
  BY <1>2 DEF AcquireStep, AcquireShared, AcquireExclusive, EnsureLayout, LockNative, AdmitV1, Admit, disk
<1>3. CASE PersistStep(p)
  BY <1>3 DEF PersistStep, PromoteStep, PutLink, PutReturn, AdoptReceipt, StageReceipt,
    LinkReceipt, SyncReceipt, UnlinkReceiptStage, StageHead, RenameHead, SyncHead, disk
<1>4. CASE RecoveryStep(p) \/ RemoveStep(p)
  BY <1>4 DEF RecoveryStep, RemoveStep, PlanRecovery, NoJournal, SyncSweep, RemoveStage, disk
<1>5. CASE EndStep(p)
  BY <1>5, EndsIdle
<1>6. CASE WriteStep(p)
  BY <1>6, WriteDecides DEF Decides
<1>7. CASE RecordStep(p)
  BY <1>7 DEF RecordStep, StageRecord, RenameRecord, WrittenInCommit, WrittenAtEnd, WrittenInRecovery,
    SyncRecord, disk
<1> QED
  BY <1>1, <1>2, <1>3, <1>4, <1>5, <1>6, <1>7, StepCases

\* What may survive: earlier heads, and one more when a promotion renames.
LEMMA SurvivorsStep ==
  ASSUME Types, NEW p \in Procs, OperationInv(p), CallNative(p) \/ NativeStep(p) \/ AbandonNative(p)
  PROVE  \/ head'.disk \subseteq head.disk /\ head'.seen = head.seen
         \/ /\ pc[p] = "rename" /\ PersistStep(p) /\ RenameHead(p)
            /\ head.seen = op[p].parent /\ head.seen \in head.disk /\ head.seen \in Transactions
            /\ head'.seen = Append(head.seen, op[p].input)
            /\ head'.disk = head.disk \cup {Append(head.seen, op[p].input)}
<1>1. head.seen \in head.disk /\ head.seen \in Transactions
  BY DEF Types, CellOf
<1>2. CASE head' = head
  BY <1>2
<1>3. CASE head' = SyncCell(head)
  BY <1>1, <1>3 DEF SyncCell, Settled
<1>4. CASE pc[p] = "rename" /\ RenameHead(p) /\ head' = Replace(head, Target(p)) /\ PersistStep(p)
  <2>1. head.seen = op[p].parent
    BY <1>4 DEF OperationInv
  <2> QED
    BY <1>1, <1>4, <2>1 DEF Replace, Target
<1> QED
  BY <1>2, <1>3, <1>4, HeadStep

\* Native on anything, or an ordinary input on an ordinary transaction.
LEMMA NativeAppend ==
  ASSUME NEW t \in Transactions, NEW x \in Inputs,
         \A i \in 1 .. Len(t) : t[i] \in Attempts => \A j \in i .. Len(t) : t[j] \in Attempts,
         x \in Attempts \/ (t # << >> /\ Last(t) \notin Attempts)
  PROVE  LET h == Append(t, x) IN
         \A i \in 1 .. Len(h) : h[i] \in Attempts => \A j \in i .. Len(h) : h[j] \in Attempts
<1>1. PICK h \in Transactions : h = Append(t, x)
  BY AppendType
<1>2. /\ Len(t) \in Nat /\ Len(h) = Len(t) + 1
      /\ \A k \in 1 .. Len(t) : h[k] = t[k]
      /\ h[Len(t) + 1] = x
  BY <1>1, AppendType DEF Transactions
<1>3. CASE x \in Attempts
  BY <1>1, <1>2, <1>3
<1>4. CASE x \notin Attempts
  <2>1. t # << >> /\ Last(t) = t[Len(t)] /\ Len(t) \in 1 .. Len(t)
    BY <1>2, <1>4, EmptySeq DEF Last, Transactions
  <2>2. \A i \in 1 .. Len(t) : t[i] \notin Attempts
    <3> SUFFICES ASSUME NEW i \in 1 .. Len(t), t[i] \in Attempts PROVE FALSE
      OBVIOUS
    <3>1. Len(t) \in i .. Len(t)
      BY <2>1
    <3> QED
      BY <1>4, <2>1, <3>1
  <2> QED
    BY <1>1, <1>2, <1>4, <2>2
<1> QED
  BY <1>3, <1>4

\* A step of a process keeps what every process knows.
LEMMA LocalStep ==
  ASSUME BaseInv, NEW p \in Procs, CallNative(p) \/ NativeStep(p) \/ AbandonNative(p)
  PROVE  Types' /\ Frame(p) /\ \A q \in Procs : OperationInv(q)' /\ RecordInv(q)'
<1>0. Types /\ \A q \in Procs : OperationInv(q) /\ RecordInv(q)
  BY DEF BaseInv
<1>1. Types' /\ Frame(p)
  BY <1>0, StepFrame
<1>2. OperationInv(p)' /\ RecordInv(p)'
  BY <1>0, <1>1, StepCases, CallOwn, AcquireOwn, PersistOwn, RecoveryOwn, WriteOwn, RecordOwn
<1>3. ASSUME NEW q \in Procs, q # p PROVE OperationInv(q)' /\ RecordInv(q)'
  BY <1>0, <1>1, <1>3, OthersInv
<1> QED
  BY <1>1, <1>2, <1>3

\* After a power loss nobody is under way; the cells have values they had.
LEMMA PowerLossLocal ==
  ASSUME Types, PowerLossNative
  PROVE  /\ Types' /\ \A q \in Procs : OperationInv(q)' /\ RecordInv(q)' /\ pc'[q] = "idle"
         /\ head'.disk \subseteq head.disk /\ head'.disk = {head'.seen}
<1>1. head' \in CellOf(Transactions) /\ head'.disk \subseteq head.disk /\ head'.disk = {head'.seen}
  BY DEF PowerLossNative, PowerLoss, Types, AfterPowerLoss, Settled, CellOf
<1>2. receipts' \in [seen : SUBSET Transactions, safe : SUBSET Transactions]
  BY DEF PowerLossNative, PowerLoss, Types, ShelfAfterPowerLoss
<1>3. journal' \in [Attempts -> CellOf(AttemptRecords)]
  <2>0. Settled(NoRecord) \in CellOf(AttemptRecords)
    BY NothingTypes DEF Settled, CellOf
  <2>1. CASE attemptsDir'.seen
    <3>1. journal' \in [Attempts -> UNION {AfterPowerLoss(journal[a]) : a \in Attempts}]
      BY <2>1 DEF PowerLossNative
    <3>2. UNION {AfterPowerLoss(journal[a]) : a \in Attempts} \subseteq CellOf(AttemptRecords)
      <4> SUFFICES ASSUME NEW a \in Attempts, NEW r \in journal[a].disk
                   PROVE  Settled(r) \in CellOf(AttemptRecords)
        BY DEF AfterPowerLoss
      <4>1. r \in AttemptRecords
        BY RecordTypes
      <4> QED
        BY <4>1 DEF Settled, CellOf
    <3> QED
      BY <3>1, <3>2
  <2>2. CASE ~attemptsDir'.seen
    BY <2>0, <2>2 DEF PowerLossNative
  <2> QED
    BY <2>1, <2>2
<1>4. /\ lock' = NoProc
      /\ pc' = [q \in Procs |-> "idle"] /\ op' = [q \in Procs |-> NoOperation]
      /\ note' = [q \in Procs |-> NoNote]
  BY DEF PowerLossNative, PowerLoss
<1>5. Types'
  BY <1>1, <1>2, <1>3, <1>4, NothingTypes DEF Types, NativeLabels, Labels
<1>6. \A q \in Procs : pc'[q] = "idle"
  BY <1>4
<1> QED
  BY <1>1, <1>5, <1>6, WaitingInv

\* Every step keeps the first layer.
LEMMA BaseStep == BaseInv /\ [NativeNext]_nvars => BaseInv'
<1> SUFFICES ASSUME BaseInv, [NativeNext]_nvars PROVE BaseInv'
  OBVIOUS
<1>0. Types /\ NoV1OnNative /\ \A q \in Procs : OperationInv(q) /\ RecordInv(q)
  BY DEF BaseInv
<1>1. CASE UNCHANGED nvars
  <2>1. UNCHANGED <<lock, head, receipts, pc, op, journal, note>>
    BY <1>1 DEF nvars, vars, jvars, disk, local
  <2>2. \A q \in Procs : OperationInv(q)' /\ RecordInv(q)'
    BY <1>0, <2>1 DEF OperationInv, RecordInv
  <2> QED
    BY <1>0, <2>1, <2>2 DEF BaseInv, Types, NoV1OnNative
<1>2. ASSUME NEW p \in Procs, CallNative(p) \/ NativeStep(p) \/ AbandonNative(p) PROVE BaseInv'
  <2>1. Types' /\ \A q \in Procs : OperationInv(q)' /\ RecordInv(q)'
    BY <1>2, LocalStep
  <2>2. NoV1OnNative'
    <3>1. CASE head'.disk \subseteq head.disk
      BY <1>0, <3>1 DEF NoV1OnNative
    <3>2. CASE /\ pc[p] = "rename" /\ head.seen = op[p].parent
               /\ head.seen \in head.disk /\ head.seen \in Transactions
               /\ head'.disk = head.disk \cup {Append(head.seen, op[p].input)}
      <4>1. \/ op[p].input \in Attempts
            \/ op[p].parent # << >> /\ Last(op[p].parent) \notin Attempts
        BY <1>0, <3>2 DEF OperationInv, Promotion
      <4>2. op[p].input \in Inputs
        BY <1>0, OperationTypes
      <4>3. LET h == Append(head.seen, op[p].input) IN
            \A i \in 1 .. Len(h) : h[i] \in Attempts => \A j \in i .. Len(h) : h[j] \in Attempts
        BY <1>0, <3>2, <4>1, <4>2, NativeAppend DEF NoV1OnNative
      <4> QED
        BY <1>0, <3>2, <4>3 DEF NoV1OnNative
    <3> QED
      BY <1>0, <1>2, <3>1, <3>2, SurvivorsStep
  <2> QED
    BY <2>1, <2>2 DEF BaseInv
<1>3. CASE PowerLossNative
  <2>1. NoV1OnNative'
    BY <1>0, <1>3, PowerLossLocal DEF NoV1OnNative
  <2> QED
    BY <1>0, <1>3, <2>1, PowerLossLocal DEF BaseInv
<1> QED
  BY <1>1, <1>2, <1>3 DEF NativeNext

\* The repository starts with a genesis and an empty journal.
LEMMA InitBase == NativeInit => BaseInv
<1> SUFFICES ASSUME NativeInit PROVE BaseInv
  OBVIOUS
<1>1. <<Genesis>> \in Transactions /\ Len(<<Genesis>>) = 1 /\ <<Genesis>>[1] = Genesis
  BY DEF Transactions, Inputs
<1>2. Types
  <2>1. head \in CellOf(Transactions) /\ receipts \in [seen : SUBSET Transactions, safe : SUBSET Transactions]
    BY <1>1 DEF NativeInit, Settled, CellOf
  <2>2. journal \in [Attempts -> CellOf(AttemptRecords)]
    BY NothingTypes DEF NativeInit, Settled, CellOf
  <2> QED
    BY <2>1, <2>2, NothingTypes DEF NativeInit, Types, NativeLabels, Labels
<1>3. Genesis \notin Attempts
  BY NativeAssumption, InputsAssumption
<1>4. NoV1OnNative
  <2>1. head.disk = {<<Genesis>>}
    BY DEF NativeInit, Settled
  <2>2. \A h \in head.disk : \A i \in 1 .. Len(h) : h[i] \notin Attempts
    BY <1>1, <1>3, <2>1
  <2> QED
    BY <2>2 DEF NoV1OnNative
<1>5. \A p \in Procs : pc[p] = "idle"
  BY DEF NativeInit
<1> QED
  BY <1>2, <1>4, <1>5, LockedLabels DEF BaseInv, OperationInv, RecordInv, Promotion, Recovering, Writing

\* The first layer holds in every reachable state.
LEMMA BaseInvariance == NativeSpec => []BaseInv
  BY InitBase, BaseStep, PTL DEF NativeSpec

\* Once a native transaction is accepted, ordinary commits are refused: in
\* every head that may survive, all that follows a native input is native.
\* The parent that an ordinary commit reads as a version 1 receipt is the head
\* it renames over, because it keeps the accepted lock in between.
THEOREM NoV1OnNativeInvariant == NativeSpec => []NoV1OnNative
  BY BaseInvariance, PTL DEF BaseInv
-----------------------------------------------------------------------------
(* The second layer: a hint to retry is sound, so no attempt is accepted   *)
(* twice.                                                                  *)

\* One more input installs itself and nothing else.
LEMMA InstalledAppend ==
  ASSUME NEW t \in Transactions, NEW x \in Inputs, NEW a, InstalledIn(a, Append(t, x))
  PROVE  a = x \/ InstalledIn(a, t)
<1>1. PICK i \in 1 .. Len(Append(t, x)) : Append(t, x)[i] = a
  BY DEF InstalledIn
<1>2. Len(t) \in Nat /\ i \in 1 .. Len(t) + 1
  BY <1>1, AppendType DEF Transactions
<1>3. CASE i \in 1 .. Len(t)
  BY <1>1, <1>3, AppendType DEF InstalledIn
<1>4. CASE i = Len(t) + 1
  BY <1>1, <1>4, AppendType
<1> QED
  BY <1>2, <1>3, <1>4

\* No attempt twice in t, and x not in it: none twice in the extension.
LEMMA OnceAppend ==
  ASSUME NEW t \in Transactions, NEW x \in Inputs,
         \A i, j \in 1 .. Len(t) : t[i] = t[j] /\ t[i] \in Attempts => i = j,
         x \in Attempts => ~InstalledIn(x, t)
  PROVE  LET h == Append(t, x) IN
         \A i, j \in 1 .. Len(h) : h[i] = h[j] /\ h[i] \in Attempts => i = j
<1>1. PICK h \in Transactions : h = Append(t, x)
  BY AppendType
<1>2. /\ Len(t) \in Nat /\ Len(h) = Len(t) + 1
      /\ \A k \in 1 .. Len(t) : h[k] = t[k]
      /\ h[Len(t) + 1] = x
  BY <1>1, AppendType DEF Transactions
<1>3. ASSUME NEW i \in 1 .. Len(h), NEW j \in 1 .. Len(h), h[i] = h[j], h[i] \in Attempts PROVE i = j
  <2>1. CASE i \in 1 .. Len(t) /\ j \in 1 .. Len(t)
    BY <1>2, <1>3, <2>1
  <2>2. CASE i = Len(t) + 1 /\ j \in 1 .. Len(t)
    BY <1>2, <1>3, <2>2 DEF InstalledIn
  <2>3. CASE j = Len(t) + 1 /\ i \in 1 .. Len(t)
    BY <1>2, <1>3, <2>3 DEF InstalledIn
  <2>4. CASE i = Len(t) + 1 /\ j = Len(t) + 1
    BY <2>4
  <2> QED
    BY <1>2, <2>1, <2>2, <2>3, <2>4
<1> QED
  BY <1>1, <1>3

\* The journal changes by what p has in hand.
LEMMA JournalStep ==
  ASSUME Types, NEW p \in Procs, OperationInv(p), RecordInv(p),
         CallNative(p) \/ NativeStep(p) \/ AbandonNative(p)
  PROVE  \/ journal' = journal
         \/ RenameRecord(p) \/ WrittenInCommit(p) \/ WrittenAtEnd(p) \/ WrittenInRecovery(p)
<1>1. CASE CallNative(p)
  BY <1>1 DEF CallNative, BeginNative, jvars
<1>2. CASE AcquireStep(p) \/ AdmitV1(p) \/ PersistStep(p) \/ RecoveryStep(p) \/ RemoveStep(p)
  BY <1>2 DEF AcquireStep, EnsureLayout, LockNative, AdmitV1, PersistStep, RecoveryStep, RemoveStep, jvars
<1>3. CASE EndStep(p)
  BY <1>3, EndsIdle
<1>4. CASE WriteStep(p)
  BY <1>4, WriteDecides DEF Decides
<1>5. CASE RecordStep(p)
  BY <1>5 DEF RecordStep, StageRecord
<1> QED
  BY <1>1, <1>2, <1>3, <1>4, <1>5, StepCases

\* The directory attempts/ is durable and stays so.
LEMMA DirectoryStep ==
  ASSUME NEW p \in Procs, CallNative(p) \/ NativeStep(p) \/ AbandonNative(p), attemptsDir = Settled(TRUE)
  PROVE  attemptsDir' = Settled(TRUE)
<1>0. attemptsDir.seen = TRUE /\ SyncCell(attemptsDir) = Settled(TRUE)
  BY DEF Settled, SyncCell
<1>1. CASE CallNative(p)
  BY <1>1 DEF CallNative, BeginNative, jvars
<1>2. CASE AcquireStep(p) \/ AdmitV1(p) \/ PersistStep(p) \/ RecoveryStep(p) \/ RemoveStep(p)
  BY <1>0, <1>2 DEF AcquireStep, EnsureLayout, LockNative, AdmitV1, PersistStep, RecoveryStep, RemoveStep, jvars
<1>3. CASE EndStep(p)
  BY <1>3 DEF EndStep, RefuseNative, Replay, AbandonNative, jvars
<1>4. CASE WriteStep(p)
  BY <1>4 DEF WriteStep, AdmitNative, Freshness, Execute, ConfirmNative, Reconcile, Transition
<1>5. CASE RecordStep(p)
  BY <1>0, <1>5 DEF RecordStep, StageRecord, RenameRecord, WrittenInCommit, WrittenAtEnd,
    WrittenInRecovery, SyncRecord
<1> QED
  BY <1>1, <1>2, <1>3, <1>4, <1>5, StepCases

\* An attempt is in flight because it was, or because it is admitted now.
LEMMA FlightStep ==
  ASSUME BaseInv, Types', NEW p \in Procs, CallNative(p) \/ NativeStep(p) \/ AbandonNative(p), InFlight(p)'
  PROVE  /\ op'[p] = op[p] /\ head'.disk \subseteq head.disk
         /\ InFlight(p) \/ AdmitNative(p)
<1>0. Types /\ OperationInv(p) /\ RecordInv(p)
  BY DEF BaseInv
<1>1. CASE CallNative(p)
  <2>1. pc'[p] = "maintenance"
    BY <1>0, <1>1 DEF CallNative, BeginRecover, BeginCommit, BeginNative, Begin, Goto, Types
  <2> QED
    BY <2>1 DEF InFlight, Writing
<1>2. CASE AcquireStep(p)
  <2>1. pc'[p] \in {"lock", "layout", "plan", "check"}
    BY <1>0, <1>2 DEF AcquireStep, AcquireShared, AcquireExclusive, EnsureLayout, LockNative, Goto, Types
  <2> QED
    BY <2>1 DEF InFlight, Writing
<1>3. CASE AdmitV1(p)
  <2>1. op' = op /\ op[p].kind \in {"genesis", "commit"}
    BY <1>3 DEF AdmitV1, Admit
  <2> QED
    BY <2>1 DEF InFlight
<1>4. CASE PersistStep(p)
  <2>1. /\ op' = op
        /\ pc[p] \in {"objects", "link", "syncReceipt", "unlink", "cas", "rename", "syncHead"}
        /\ pc[p] = "rename" => pc'[p] = "syncHead"
        /\ pc[p] = "syncHead" => pc'[p] = "confirm"
    <3>1. CASE \E o \in Objects : PutLink(p, o) \/ PutReturn(p, o)
      BY <3>1 DEF PutLink, PutReturn, local
    <3>2. CASE AdoptReceipt(p) \/ StageReceipt(p) \/ LinkReceipt(p) \/ SyncReceipt(p)
      BY <1>0, <3>2 DEF AdoptReceipt, StageReceipt, LinkReceipt, SyncReceipt, Goto, Types
    <3>3. CASE UnlinkReceiptStage(p) \/ StageHead(p) \/ RenameHead(p) \/ SyncHead(p)
      BY <1>0, <3>3 DEF UnlinkReceiptStage, StageHead, RenameHead, SyncHead, Goto, Types
    <3> QED
      BY <1>4, <3>1, <3>2, <3>3 DEF PersistStep, PromoteStep
  <2>2. pc[p] \in {"objects", "link", "syncReceipt", "unlink", "cas"}
    BY <2>1 DEF InFlight, Writing
  <2>3. InFlight(p)
    BY <2>1, <2>2 DEF InFlight
  <2> QED
    BY <1>0, <2>1, <2>2, <2>3, SurvivorsStep
<1>5. CASE RecoveryStep(p)
  <2>1. op'[p].kind = "recover"
    BY <1>0, <1>5, StepFrame, RecoveryOwn
  <2> QED
    BY <2>1 DEF InFlight
<1>6. CASE RemoveStep(p)
  <2>1. UNCHANGED <<lock, head, receipts, pc, op, journal, note>>
    BY <1>6 DEF RemoveStep, RemoveStage, local, jvars
  <2> QED
    BY <2>1 DEF InFlight
<1>7. CASE EndStep(p)
  <2>1. pc'[p] = "idle"
    BY <1>0, <1>7, EndsIdle
  <2> QED
    BY <2>1 DEF InFlight, Writing
<1>8. CASE WriteStep(p)
  <2>1. CASE op[p].kind = "native"
    <3>1. PICK state \in AttemptStates :
            /\ op[p].input \in Attempts
            /\ Decides(p, op[p].input, state, op[p].parent)
            /\ \/ AdmitNative(p)
               \/ pc[p] \in {"fresh", "execute"}
               \/ state = "Committed"
      BY <1>0, <1>8, <2>1, WriteDecides
    <3>2. op[p].parent \in Transactions
      BY <1>0, OperationTypes
    <3>3. /\ pc'[p] = "stageRecord" /\ op' = op /\ head' = head /\ note'[p].record.state = state
      <4>1. PICK a \in Attempts, parent \in Transactions : a = op[p].input /\ parent = op[p].parent
        BY <3>1, <3>2
      <4>2. Decides(p, a, state, parent)
        BY <3>1, <4>1
      <4> QED
        BY <1>0, <4>2, DecidesOwn
    <3>4. state # "Committed"
      BY <3>3 DEF InFlight, Retryable
    <3>5. InFlight(p) \/ AdmitNative(p)
      BY <2>1, <3>1, <3>4 DEF InFlight
    <3> QED
      BY <3>3, <3>5
  <2>2. CASE op[p].kind # "native"
    <3>1. op' = op
      BY <1>0, <1>8, <2>2, WriteDecides DEF Decides
    <3> QED
      BY <2>2, <3>1 DEF InFlight
  <2> QED
    BY <2>1, <2>2
<1>9. CASE RecordStep(p)
  <2>1. CASE StageRecord(p) \/ RenameRecord(p)
    <3>1. /\ op' = op /\ note' = note /\ head' = head /\ pc[p] \in Writing
          /\ pc'[p] \in {"renameRecord", "syncRecord"}
      BY <1>0, <2>1 DEF StageRecord, RenameRecord, Writing, Goto, Types, disk
    <3> QED
      BY <3>1 DEF InFlight, Writing
  <2>2. CASE WrittenInCommit(p)
    <3>1. /\ op' = op /\ head' = head /\ pc[p] \in Writing /\ op[p].kind = "native"
          /\ note[p].record.state \in {"Admitted", "Running", "PromotionStarted"}
      BY <1>0, <2>2 DEF WrittenInCommit, SyncRecord, Writing, disk
    <3> QED
      BY <3>1 DEF InFlight, Retryable
  <2>3. CASE WrittenAtEnd(p)
    <3>1. pc'[p] = "idle"
      BY <1>0, <2>3, ReleaseTypes DEF WrittenAtEnd
    <3> QED
      BY <3>1 DEF InFlight, Writing
  <2>4. CASE WrittenInRecovery(p)
    <3>1. op' = op /\ op[p].kind = "recover"
      BY <2>4 DEF WrittenInRecovery
    <3> QED
      BY <3>1 DEF InFlight
  <2> QED
    BY <1>9, <2>1, <2>2, <2>3, <2>4 DEF RecordStep
<1> QED
  BY <1>1, <1>2, <1>3, <1>4, <1>5, <1>6, <1>7, <1>8, <1>9, StepCases

\* So it is absent from every head that may survive.
LEMMA FreshStep ==
  ASSUME SoundInv, Types', NEW p \in Procs, CallNative(p) \/ NativeStep(p) \/ AbandonNative(p), Frame(p),
         NEW q \in Procs
  PROVE  FreshInv(q)'
<1>0. /\ BaseInv /\ Types /\ FreshInv(p) /\ FreshInv(q)
      /\ OperationInv(p) /\ OperationInv(q) /\ RecordInv(p) /\ RecordInv(q)
      /\ HintIsSound
  BY DEF SoundInv, BaseInv
<1> SUFFICES ASSUME InFlight(q)' PROVE Absent(op[q].input)'
  BY DEF FreshInv
<1>1. CASE q = p
  <2>1. /\ op'[p] = op[p] /\ head'.disk \subseteq head.disk
        /\ InFlight(p) \/ AdmitNative(p)
    BY <1>0, <1>1, FlightStep
  <2>2. Absent(op[p].input)
    <3>1. CASE InFlight(p)
      BY <1>0, <3>1 DEF FreshInv
    <3>2. CASE AdmitNative(p)
      <4>1. op[p].input \in Attempts
        BY <1>0, <3>2 DEF AdmitNative, OperationInv
      <4>2. Invites(op[p].input)
        BY <1>0, <3>2, <4>1, RecordTypes DEF AdmitNative, Invites
      <4> QED
        BY <1>0, <4>1, <4>2 DEF HintIsSound, Invites, Absent
    <3> QED
      BY <2>1, <3>1, <3>2
  <2> QED
    BY <1>1, <2>1, <2>2 DEF Absent, InstalledIn
<1>2. CASE q # p
  <2>1. pc'[q] = pc[q] /\ op'[q] = op[q] /\ note'[q] = note[q]
    BY <1>0, <1>2, OthersKept
  <2>2. InFlight(q)
    BY <2>1 DEF InFlight
  <2>3. pc[q] \in NativeLocked
    BY <2>2, LockedLabels DEF InFlight, Writing
  <2>4. head' = head
    BY <1>0, <1>2, <2>3, OthersKept
  <2> QED
    BY <1>0, <2>1, <2>2, <2>4 DEF FreshInv, Absent
<1> QED
  BY <1>1, <1>2

\* A record invites a retry because it did, or because p journals so now.
LEMMA InvitesStep ==
  ASSUME BaseInv, NEW p \in Procs, CallNative(p) \/ NativeStep(p) \/ AbandonNative(p),
         NEW a \in Attempts, Invites(a)'
  PROVE  Invites(a) \/ (InFlight(p) /\ op[p].input = a /\ head' = head)
<1>0. Types /\ OperationInv(p) /\ RecordInv(p)
  BY DEF BaseInv
<1>1. CASE journal' = journal
  BY <1>1 DEF Invites
<1>2. CASE RenameRecord(p)
  <2>1. /\ note[p].attempt \in Attempts /\ note[p].record \in Records
        /\ op[p].kind \in {"native", "recover"}
        /\ op[p].kind = "native" => note[p].attempt = op[p].input
        /\ op[p].kind = "recover" => note[p].record.state \in {"Committed", "OutcomeUnknown"}
        /\ pc[p] \in Writing /\ head' = head
    BY <1>0, <1>2 DEF RecordInv, RenameRecord, Writing, disk
  <2>2. CASE a = note[p].attempt
    <3>1. journal'[a].disk = journal[a].disk \cup {note[p].record}
      BY <1>0, <1>2, <2>2 DEF RenameRecord, Replace, Types
    <3>2. note[p].record # NoRecord
      BY <2>1 DEF Records, NoRecord, AttemptStates, Retryable
    <3>3. CASE note[p].record.state \in Retryable
      <4>1. op[p].kind = "native"
        BY <2>1, <3>3 DEF Retryable
      <4> QED
        BY <2>1, <2>2, <3>3, <4>1 DEF InFlight
    <3>4. CASE note[p].record.state \notin Retryable
      BY <3>1, <3>2, <3>4 DEF Invites
    <3> QED
      BY <3>3, <3>4
  <2>3. CASE a # note[p].attempt
    <3>1. journal'[a] = journal[a]
      BY <1>0, <1>2, <2>3 DEF RenameRecord, Types
    <3> QED
      BY <3>1 DEF Invites
  <2> QED
    BY <2>2, <2>3
<1>3. CASE WrittenInCommit(p) \/ WrittenAtEnd(p) \/ WrittenInRecovery(p)
  <2>1. journal' = [journal EXCEPT ![note[p].attempt] = SyncCell(@)]
    BY <1>3 DEF WrittenInCommit, WrittenAtEnd, WrittenInRecovery, SyncRecord
  <2>2. journal'[a] = journal[a] \/ journal'[a] = SyncCell(journal[a])
    BY <1>0, <2>1 DEF Types
  <2>3. journal'[a].disk \subseteq journal[a].disk
    <3>1. journal[a].seen \in journal[a].disk
      BY <1>0, RecordTypes
    <3>2. SyncCell(journal[a]).disk = {journal[a].seen}
      BY DEF SyncCell, Settled
    <3> QED
      BY <2>2, <3>1, <3>2
  <2> QED
    BY <2>3 DEF Invites
<1> QED
  BY <1>0, <1>1, <1>2, <1>3, JournalStep

\* A hint stays sound.
LEMMA HintStep ==
  ASSUME SoundInv, NEW p \in Procs, CallNative(p) \/ NativeStep(p) \/ AbandonNative(p)
  PROVE  HintIsSound'
<1>0. /\ BaseInv /\ Types /\ FreshInv(p) /\ OperationInv(p) /\ RecordInv(p) /\ HintIsSound
  BY DEF SoundInv, BaseInv
<1> SUFFICES ASSUME NEW a \in Attempts, Invites(a)' PROVE Absent(a)'
  BY DEF HintIsSound, Invites, Absent
<1>1. Absent(a) /\ (Invites(a) \/ head' = head)
  BY <1>0, InvitesStep DEF HintIsSound, Invites, Absent, FreshInv
<1>2. CASE head'.disk \subseteq head.disk
  BY <1>1, <1>2 DEF Absent, InstalledIn
<1>3. CASE /\ pc[p] = "rename" /\ PersistStep(p)
           /\ head.seen \in head.disk /\ head.seen \in Transactions
           /\ head'.disk = head.disk \cup {Append(head.seen, op[p].input)}
  <2>1. CASE Invites(a)
    <3>1. a # op[p].input
      <4> SUFFICES ASSUME a = op[p].input PROVE FALSE
        OBVIOUS
      <4>1. op[p].kind = "native"
        BY <1>0, <1>3 DEF OperationInv, Promotion
      <4>2. journal[a] = Settled([state |-> "PromotionStarted", parent |-> op[p].parent])
        BY <1>0, <1>3, <4>1 DEF RecordInv, Promotion
      <4>3. PICK r \in journal[a].disk : r = NoRecord \/ r.state \in Retryable
        BY <2>1 DEF Invites
      <4>4. r.state = "PromotionStarted"
        BY <4>2, <4>3 DEF Settled
      <4> QED
        BY <4>3, <4>4 DEF NoRecord, Retryable
    <3>2. op[p].input \in Inputs
      BY <1>0, OperationTypes
    <3>3. ~InstalledIn(a, Append(head.seen, op[p].input))
      BY <1>1, <1>3, <3>1, <3>2, InstalledAppend DEF Absent
    <3> QED
      BY <1>1, <1>3, <3>3 DEF Absent, InstalledIn
  <2>2. CASE head' = head
    BY <1>1, <2>2 DEF Absent, InstalledIn
  <2> QED
    BY <1>1, <2>1, <2>2
<1> QED
  BY <1>0, <1>2, <1>3, SurvivorsStep

\* No attempt gets into a head twice.
LEMMA OnceStep ==
  ASSUME SoundInv, NEW p \in Procs, CallNative(p) \/ NativeStep(p) \/ AbandonNative(p)
  PROVE  OnceInv'
<1>0. /\ BaseInv /\ Types /\ FreshInv(p) /\ OperationInv(p) /\ OnceInv
  BY DEF SoundInv, BaseInv
<1>1. CASE head'.disk \subseteq head.disk
  BY <1>0, <1>1 DEF OnceInv
<1>2. CASE /\ pc[p] = "rename"
           /\ head.seen \in head.disk /\ head.seen \in Transactions
           /\ head'.disk = head.disk \cup {Append(head.seen, op[p].input)}
  <2>1. op[p].input \in Attempts => ~InstalledIn(op[p].input, head.seen)
    <3> SUFFICES ASSUME op[p].input \in Attempts PROVE ~InstalledIn(op[p].input, head.seen)
      OBVIOUS
    <3>1. op[p].kind = "native"
      BY <1>0, <1>2 DEF OperationInv, Promotion
    <3>2. InFlight(p)
      BY <1>2, <3>1 DEF InFlight
    <3> QED
      BY <1>0, <1>2, <3>2 DEF FreshInv, Absent
  <2>2. op[p].input \in Inputs
    BY <1>0, OperationTypes
  <2>3. LET h == Append(head.seen, op[p].input) IN
        \A i, j \in 1 .. Len(h) : h[i] = h[j] /\ h[i] \in Attempts => i = j
    BY <1>0, <1>2, <2>1, <2>2, OnceAppend DEF OnceInv
  <2> QED
    BY <1>0, <1>2, <2>3 DEF OnceInv
<1> QED
  BY <1>0, <1>1, <1>2, SurvivorsStep

\* A power loss leaves records and heads that it might have left before.
LEMMA PowerLossSound ==
  ASSUME SoundInv, PowerLossNative, BaseInv'
  PROVE  SoundInv'
<1>0. Types /\ HintIsSound /\ OnceInv
  BY DEF SoundInv, BaseInv
<1>1. attemptsDir = Settled(TRUE) /\ attemptsDir' = Settled(TRUE) /\ attemptsDir'.seen
  <2>1. attemptsDir = Settled(TRUE)
    BY DEF SoundInv, PowerLossNative
  <2>2. attemptsDir.disk = {TRUE}
    BY <2>1 DEF Settled
  <2>3. PICK v \in attemptsDir.disk : attemptsDir' = Settled(v)
    BY DEF PowerLossNative, AfterPowerLoss
  <2>4. v = TRUE
    BY <2>2, <2>3
  <2>5. attemptsDir' = Settled(TRUE)
    BY <2>3, <2>4, Zenon
  <2>6. attemptsDir'.seen = TRUE
    BY <2>5 DEF Settled
  <2> QED
    BY <2>1, <2>5, <2>6
<1>2. \A a \in Attempts : journal'[a] \in AfterPowerLoss(journal[a])
  BY <1>1 DEF PowerLossNative
<1>3. \A a \in Attempts : journal'[a].disk \subseteq journal[a].disk
  BY <1>2 DEF AfterPowerLoss, Settled
<1>4. head'.disk \subseteq head.disk /\ \A q \in Procs : pc'[q] = "idle"
  BY <1>0, PowerLossLocal
<1>5. HintIsSound'
  <2> SUFFICES ASSUME NEW a \in Attempts, NEW r \in journal'[a].disk, r = NoRecord \/ r.state \in Retryable
               PROVE  \A h \in head'.disk : ~InstalledIn(a, h)
    BY DEF HintIsSound, InstalledIn
  <2> QED
    BY <1>0, <1>3, <1>4 DEF HintIsSound
<1>6. OnceInv'
  BY <1>0, <1>4 DEF OnceInv
<1>7. \A q \in Procs : FreshInv(q)'
  BY <1>4 DEF FreshInv, InFlight, Writing
<1> QED
  BY <1>1, <1>5, <1>6, <1>7 DEF SoundInv

\* Every step keeps the second layer.
LEMMA SoundStep == SoundInv /\ [NativeNext]_nvars => SoundInv'
<1> SUFFICES ASSUME SoundInv, [NativeNext]_nvars PROVE SoundInv'
  OBVIOUS
<1>0. BaseInv /\ BaseInv'
  BY BaseStep DEF SoundInv
<1>1. CASE UNCHANGED nvars
  <2>1. UNCHANGED <<head, pc, op, journal, note, attemptsDir>>
    BY <1>1 DEF nvars, vars, jvars, disk, local
  <2>2. HintIsSound' /\ OnceInv'
    BY <2>1 DEF SoundInv, HintIsSound, OnceInv
  <2>3. \A q \in Procs : FreshInv(q)'
    BY <2>1 DEF SoundInv, FreshInv, InFlight, Absent
  <2> QED
    BY <1>0, <2>1, <2>2, <2>3 DEF SoundInv
<1>2. ASSUME NEW p \in Procs, CallNative(p) \/ NativeStep(p) \/ AbandonNative(p) PROVE SoundInv'
  <2>1. Types' /\ Frame(p)
    BY <1>0, <1>2, LocalStep
  <2>2. \A q \in Procs : FreshInv(q)'
    BY <1>2, <2>1, FreshStep
  <2>3. "power" \in Faults => attemptsDir' = Settled(TRUE)
    BY <1>2, DirectoryStep DEF SoundInv
  <2>4. HintIsSound' /\ OnceInv'
    BY <1>2, HintStep, OnceStep
  <2> QED
    BY <1>0, <2>2, <2>3, <2>4 DEF SoundInv
<1>3. CASE PowerLossNative
  BY <1>0, <1>3, PowerLossSound
<1> QED
  BY <1>1, <1>2, <1>3 DEF NativeNext

\* An empty journal invites every attempt, and the genesis holds none.
LEMMA InitSound == NativeInit /\ DirectorySafe => SoundInv
<1> SUFFICES ASSUME NativeInit, DirectorySafe PROVE SoundInv
  OBVIOUS
<1>1. head.disk = {<<Genesis>>} /\ Len(<<Genesis>>) = 1 /\ <<Genesis>>[1] = Genesis
  BY DEF NativeInit, Settled
<1>2. Genesis \notin Attempts
  BY NativeAssumption, InputsAssumption
<1>g. \A h \in head.disk : \A i \in 1 .. Len(h) : h[i] \notin Attempts
  <2> SUFFICES ASSUME NEW i \in 1 .. Len(<<Genesis>>) PROVE <<Genesis>>[i] \notin Attempts
    BY <1>1, Zenon
  <2> QED
    BY <1>2
<1>3. HintIsSound
  BY <1>g DEF HintIsSound, InstalledIn
<1>4. OnceInv
  BY <1>g DEF OnceInv
<1>5. \A p \in Procs : FreshInv(p)
  BY DEF NativeInit, FreshInv, InFlight, Writing
<1>6. "power" \in Faults => attemptsDir = Settled(TRUE)
  BY NativeAssumption DEF NativeInit, DirectorySafe
<1> QED
  BY InitBase, <1>3, <1>4, <1>5, <1>6 DEF SoundInv

\* The second layer holds in every reachable state.
LEMMA SoundInvariance == NativeSpec /\ DirectorySafe => []SoundInv
  BY InitSound, SoundStep, PTL DEF NativeSpec

\* Whatever record a crash or a power loss may leave of an attempt, one that
\* lets its caller retry means that no surviving head contains the attempt: the
\* claim is journaled and synced before the promotion, and nothing but a
\* retry-safe record is replaced on the way to it.  (Where attempts/ may itself
\* be lost to a power loss, the records go with it and this does not hold.)
THEOREM HintIsSoundInvariant == NativeSpec /\ DirectorySafe => []HintIsSound
  BY SoundInvariance, PTL DEF SoundInv

\* Then one attempt is accepted at most once, whatever parents its retries
\* name and wherever they are interrupted.
THEOREM AttemptOnceInvariant == NativeSpec /\ DirectorySafe => []AttemptOnce
<1>1. ASSUME SoundInv PROVE AttemptOnce
  <2> SUFFICES ASSUME NEW a \in Attempts
               PROVE  Cardinality({i \in 1 .. Len(head.seen) : head.seen[i] = a}) <= 1
    BY DEF AttemptOnce
  <2>1. PICK S : S = {i \in 1 .. Len(head.seen) : head.seen[i] = a}
    OBVIOUS
  <2>2. head.seen \in head.disk
    BY <1>1 DEF SoundInv, BaseInv, Types, CellOf
  <2>3. \A i, j \in S : i = j
    BY <1>1, <2>1, <2>2 DEF SoundInv, OnceInv
  <2>4. CASE S = {}
    <3>1. Cardinality(S) = 0
      BY <2>4, FS_EmptySet
    <3> QED
      BY <2>1, <3>1
  <2>5. CASE S # {}
    <3>1. PICK i : S = {i}
      BY <2>3, <2>5
    <3>2. Cardinality(S) = 1
      BY <3>1, FS_Singleton
    <3> QED
      BY <2>1, <3>2
  <2> QED
    BY <2>4, <2>5
<1> QED
  BY <1>1, SoundInvariance, PTL
-----------------------------------------------------------------------------
(* The third layer, where there is no power loss: Committed is final.      *)

\* Receipts are only added.
LEMMA ReceiptsStep ==
  ASSUME Types, NEW p \in Procs, OperationInv(p), CallNative(p) \/ NativeStep(p) \/ AbandonNative(p)
  PROVE  receipts.seen \subseteq receipts'.seen
<1>0. receipts \in [seen : SUBSET Transactions, safe : SUBSET Transactions]
  BY DEF Types
<1>1. CASE CallNative(p)
  BY <1>1 DEF CallNative, BeginRecover, BeginCommit, BeginNative, Begin, disk
<1>2. CASE AcquireStep(p) \/ AdmitV1(p)
  BY <1>2 DEF AcquireStep, AcquireShared, AcquireExclusive, EnsureLayout, LockNative, AdmitV1, Admit, disk
<1>3. CASE PersistStep(p)
  <2>1. \/ receipts' = receipts \/ receipts' = Link(receipts, Target(p))
        \/ receipts' = SyncName(receipts, Target(p))
    BY <1>3 DEF PersistStep, PromoteStep, PutLink, PutReturn, AdoptReceipt, StageReceipt,
      LinkReceipt, SyncReceipt, UnlinkReceiptStage, StageHead, RenameHead, SyncHead, disk
  <2> QED
    BY <1>0, <2>1 DEF Link, SyncName
<1>4. CASE RecoveryStep(p) \/ RemoveStep(p)
  <2>1. receipts' = receipts \/ receipts' = SyncShelf(receipts)
    BY <1>4 DEF RecoveryStep, RemoveStep, PlanRecovery, NoJournal, SyncSweep, RemoveStage, disk
  <2> QED
    BY <1>0, <2>1 DEF SyncShelf
<1>5. CASE EndStep(p)
  BY <1>5, EndsIdle
<1>6. CASE WriteStep(p)
  BY <1>6, WriteDecides DEF Decides
<1>7. CASE RecordStep(p)
  BY <1>7 DEF RecordStep, StageRecord, RenameRecord, WrittenInCommit, WrittenAtEnd, WrittenInRecovery,
    SyncRecord, disk
<1> QED
  BY <1>1, <1>2, <1>3, <1>4, <1>5, <1>6, <1>7, StepCases

\* What is accepted stays accepted.
LEMMA AcceptedStep ==
  ASSUME Types, NEW p \in Procs, OperationInv(p), CallNative(p) \/ NativeStep(p) \/ AbandonNative(p),
         NEW t \in Transactions, Accepted(t)
  PROVE  Accepted(t)'
<1>1. IsPrefix(t, head'.seen)
  <2>1. op[p].input \in Inputs
    BY OperationTypes
  <2>2. CASE head'.seen = head.seen
    BY <2>2 DEF Accepted
  <2>3. CASE head.seen \in Transactions /\ head'.seen = Append(head.seen, op[p].input)
    <3>1. IsPrefix(t, Append(head.seen, op[p].input))
      BY <2>1, <2>3, PrefixExtends DEF Accepted
    <3> QED
      BY <2>3, <3>1
  <2> QED
    BY <2>2, <2>3, SurvivorsStep
<1>2. t \in receipts'.seen
  BY ReceiptsStep DEF Accepted
<1> QED
  BY <1>1, <1>2 DEF Accepted

\* The transaction that a record claims.
LEMMA ClaimedType ==
  ASSUME NEW a \in Attempts, NEW r, r.parent \in Transactions
  PROVE  Claimed(a, r) \in Transactions
<1>1. a \in Inputs
  BY NativeAssumption DEF Inputs
<1> QED
  BY <1>1, AppendType DEF Claimed

\* A record changes only by the rename that puts the writer's note there.
LEMMA SeenStep ==
  ASSUME Types, NEW p \in Procs, OperationInv(p), RecordInv(p),
         CallNative(p) \/ NativeStep(p) \/ AbandonNative(p), NEW a \in Attempts
  PROVE  \/ journal'[a].seen = journal[a].seen
         \/ /\ pc[p] = "renameRecord" /\ a = note[p].attempt
            /\ journal'[a].seen = note[p].record
<1>1. CASE journal' = journal
  BY <1>1
<1>2. CASE RenameRecord(p)
  BY <1>2 DEF RenameRecord, Replace, Types
<1>3. CASE WrittenInCommit(p) \/ WrittenAtEnd(p) \/ WrittenInRecovery(p)
  <2>1. journal' = [journal EXCEPT ![note[p].attempt] = SyncCell(@)]
    BY <1>3 DEF WrittenInCommit, WrittenAtEnd, WrittenInRecovery, SyncRecord
  <2>2. journal'[a] = journal[a] \/ journal'[a] = SyncCell(journal[a])
    BY <2>1 DEF Types
  <2> QED
    BY <2>2 DEF SyncCell, Settled
<1> QED
  BY <1>1, <1>2, <1>3, JournalStep

\* What the process that moves knows of the receipt it promotes.
LEMMA ReceiptOwn ==
  ASSUME BaseInv, Types', NEW p \in Procs, Frame(p), CommitInv(p),
         CallNative(p) \/ NativeStep(p) \/ AbandonNative(p), pc'[p] \in Promotion \ {"objects", "link"}
  PROVE  Target(p)' \in receipts'.seen
<1>0. Types /\ OperationInv(p) /\ RecordInv(p)
  BY DEF BaseInv
<1>1. CASE PersistStep(p)
  <2>1. op' = op
    BY <1>1 DEF PersistStep, PromoteStep, PutLink, PutReturn, AdoptReceipt, StageReceipt,
      LinkReceipt, SyncReceipt, UnlinkReceiptStage, StageHead, RenameHead, SyncHead, local
  <2>2. Target(p) \in receipts'.seen
    <3>1. CASE pc[p] \in Promotion \ {"objects", "link"}
      BY <1>0, <3>1, ReceiptsStep DEF CommitInv
    <3>2. CASE pc[p] \in {"objects", "link"}
      <4>1. AdoptReceipt(p) \/ LinkReceipt(p)
        <5>1. CASE \E o \in Objects : PutLink(p, o) \/ PutReturn(p, o)
          BY <5>1, <3>2 DEF PutLink, PutReturn, local
        <5>2. CASE StageReceipt(p)
          BY <1>0, <5>2 DEF StageReceipt, Goto, Types
        <5>3. CASE SyncReceipt(p) \/ UnlinkReceiptStage(p) \/ StageHead(p) \/ RenameHead(p) \/ SyncHead(p)
          BY <5>3, <3>2 DEF SyncReceipt, UnlinkReceiptStage, StageHead, RenameHead, SyncHead
        <5> QED
          BY <1>1, <5>1, <5>2, <5>3 DEF PersistStep, PromoteStep
      <4>2. CASE AdoptReceipt(p)
        BY <1>0, <4>2, ReceiptsStep DEF AdoptReceipt
      <4>3. CASE LinkReceipt(p)
        BY <1>0, <4>3 DEF LinkReceipt, Link, Types
      <4> QED
        BY <4>1, <4>2, <4>3
    <3>3. pc[p] \in Promotion
      BY <1>0, <1>1, PersistOwn DEF PersistStep, Promotion, PromoteStep, PutLink, PutReturn, AdoptReceipt,
        StageReceipt, LinkReceipt, SyncReceipt, UnlinkReceiptStage, StageHead, RenameHead, SyncHead
    <3> QED
      BY <3>1, <3>2, <3>3
  <2> QED
    BY <2>1, <2>2 DEF Target
<1>2. CASE RemoveStep(p)
  <2>1. UNCHANGED <<pc, op, receipts>>
    BY <1>2 DEF RemoveStep, RemoveStage, local
  <2> QED
    BY <2>1 DEF CommitInv, Target
<1>3. CASE CallNative(p)
  <2>1. pc'[p] = "maintenance"
    BY <1>0, <1>3 DEF CallNative, BeginRecover, BeginCommit, BeginNative, Begin, Goto, Types
  <2> QED
    BY <2>1 DEF Promotion
<1>4. CASE AcquireStep(p) \/ AdmitV1(p)
  <2>1. pc'[p] \in {"lock", "layout", "plan", "check", "objects"}
    BY <1>0, <1>4 DEF AcquireStep, AcquireShared, AcquireExclusive, EnsureLayout, LockNative, Goto, Types,
      AdmitV1, Admit
  <2> QED
    BY <2>1 DEF Promotion
<1>5. CASE RecoveryStep(p)
  <2>1. pc'[p] \in Recovering
    BY <1>0, <1>5, RecoveryOwn
  <2> QED
    BY <2>1 DEF Promotion, Recovering
<1>6. CASE EndStep(p)
  <2>1. pc'[p] = "idle"
    BY <1>0, <1>6, EndsIdle
  <2> QED
    BY <2>1 DEF Promotion
<1>7. CASE WriteStep(p)
  <2>1. pc'[p] = "stageRecord"
    BY <1>0, <1>7, WriteDecides DEF Decides, Types
  <2> QED
    BY <2>1 DEF Promotion
<1>8. CASE RecordStep(p)
  <2>1. pc'[p] \in {"renameRecord", "syncRecord", "fresh", "execute", "objects", "idle", "journal"}
    BY <1>0, <1>8, ReleaseTypes DEF RecordStep, StageRecord, RenameRecord, WrittenInCommit, WrittenAtEnd,
      WrittenInRecovery, Goto, Types
  <2> QED
    BY <2>1 DEF Promotion
<1> QED
  BY <1>1, <1>2, <1>3, <1>4, <1>5, <1>6, <1>7, <1>8, StepCases

\* A process writes because it did, or because it decided to.
LEMMA WriterStep ==
  ASSUME BaseInv, Types', NEW p \in Procs, Frame(p),
         CallNative(p) \/ NativeStep(p) \/ AbandonNative(p), pc'[p] \in Writing
  PROVE  \/ WriteStep(p)
         \/ /\ pc[p] \in Writing /\ note' = note /\ op' = op
            /\ pc'[p] \in {"stageRecord", "renameRecord"} =>
                 pc[p] \in {"stageRecord", "renameRecord"} /\ journal' = journal
<1>0. Types /\ OperationInv(p) /\ RecordInv(p)
  BY DEF BaseInv
<1>1. CASE PersistStep(p) \/ AdmitV1(p)
  <2>1. pc'[p] \in Promotion
    BY <1>0, <1>1, PersistOwn
  <2> QED
    BY <2>1 DEF Promotion, Writing
<1>2. CASE RemoveStep(p)
  <2>1. UNCHANGED <<pc, op, note, journal>>
    BY <1>2 DEF RemoveStep, RemoveStage, local, jvars
  <2> QED
    BY <2>1
<1>3. CASE CallNative(p)
  <2>1. pc'[p] = "maintenance"
    BY <1>0, <1>3 DEF CallNative, BeginRecover, BeginCommit, BeginNative, Begin, Goto, Types
  <2> QED
    BY <2>1 DEF Writing
<1>4. CASE AcquireStep(p)
  <2>1. pc'[p] \in {"lock", "layout", "plan", "check"}
    BY <1>0, <1>4 DEF AcquireStep, AcquireShared, AcquireExclusive, EnsureLayout, LockNative, Goto, Types
  <2> QED
    BY <2>1 DEF Writing
<1>5. CASE RecoveryStep(p)
  <2>1. pc'[p] \in Recovering
    BY <1>0, <1>5, RecoveryOwn
  <2> QED
    BY <2>1 DEF Writing, Recovering
<1>6. CASE EndStep(p)
  <2>1. pc'[p] = "idle"
    BY <1>0, <1>6, EndsIdle
  <2> QED
    BY <2>1 DEF Writing
<1>7. CASE StageRecord(p) \/ RenameRecord(p)
  BY <1>0, <1>7 DEF StageRecord, RenameRecord, Goto, Types, Writing
<1>8. CASE WrittenInCommit(p) \/ WrittenAtEnd(p) \/ WrittenInRecovery(p)
  <2>1. pc'[p] \in {"fresh", "execute", "objects", "idle", "journal"}
    BY <1>0, <1>8, ReleaseTypes DEF WrittenInCommit, WrittenAtEnd, WrittenInRecovery, Goto, Types
  <2> QED
    BY <2>1 DEF Writing
<1> QED
  BY <1>1, <1>2, <1>3, <1>4, <1>5, <1>6, <1>7, <1>8, StepCases DEF RecordStep

\* It decides on Committed over a head that holds the transaction, and
\* recovery replaces nothing but a claim.
LEMMA DecisionIsTrue ==
  ASSUME FinalInv, Types', NEW p \in Procs, WriteStep(p)
  PROVE  CommitInv(p)'
<1>0. /\ BaseInv /\ Types /\ OperationInv(p) /\ RecordInv(p) /\ CommitInv(p)
      /\ \A a \in Attempts : journal[a].seen.state = "Committed" => Accepted(Claimed(a, journal[a].seen))
      /\ head.seen \in Transactions
  BY DEF FinalInv, BaseInv, Types, CellOf
<1>1. PICK a \in Attempts, state \in AttemptStates, parent \in Transactions :
        /\ Decides(p, a, state, parent)
        /\ state = "Committed" => Accepted(Append(parent, a))
        /\ op[p].kind = "recover" => journal[a].seen.state = "PromotionStarted"
  <2>1. CASE op[p].kind = "native"
    <3>1. PICK state \in AttemptStates :
            /\ op[p].input \in Attempts
            /\ Decides(p, op[p].input, state, op[p].parent)
            /\ state = "Committed" => ConfirmNative(p)
      BY <1>0, <2>1, WriteDecides
    <3>2. ASSUME state = "Committed" PROVE Accepted(Append(op[p].parent, op[p].input))
      <4>1. pc[p] = "confirm" /\ head.seen = Target(p)
        BY <3>1, <3>2 DEF ConfirmNative
      <4>2. Target(p) \in receipts.seen
        BY <1>0, <4>1 DEF CommitInv, Promotion
      <4> QED
        BY <1>0, <4>1, <4>2, PrefixReflexive DEF Accepted, Target
    <3> QED
      BY <1>0, <2>1, <3>1, <3>2, OperationTypes
  <2>2. CASE op[p].kind # "native"
    <3>1. PICK a \in Attempts :
            \/ Unverified(a) /\ Decides(p, a, "OutcomeUnknown", journal[a].seen.parent)
            \/ Confirmed(a) /\ Decides(p, a, "Committed", journal[a].seen.parent)
      BY <1>0, <2>2, WriteDecides
    <3>2. journal[a].seen.parent \in Transactions
      BY <1>0, RecordTypes
    <3>3. CASE Unverified(a) /\ Decides(p, a, "OutcomeUnknown", journal[a].seen.parent)
      <4>1. journal[a].seen.state = "PromotionStarted"
        BY <1>0, <3>3 DEF Unverified, Accepted
      <4> QED
        BY <3>2, <3>3, <4>1 DEF AttemptStates
    <3>4. CASE Confirmed(a) /\ Decides(p, a, "Committed", journal[a].seen.parent)
      <4>1. journal[a].seen.state = "PromotionStarted" /\ Accepted(Append(journal[a].seen.parent, a))
        BY <1>0, <3>4, PrefixReflexive DEF Confirmed, Accepted, Claimed
      <4> QED
        BY <3>2, <3>4, <4>1 DEF AttemptStates
    <3> QED
      BY <3>1, <3>3, <3>4
  <2> QED
    BY <2>1, <2>2
<1>2. Decides(p, a, state, parent)
  BY <1>1
<1>3. /\ pc'[p] = "stageRecord" /\ op' = op /\ journal' = journal /\ head' = head /\ receipts' = receipts
      /\ note'[p].attempt = a /\ note'[p].record.state = state /\ note'[p].record.parent = parent
  BY <1>0, <1>2, DecidesOwn
<1>4. state = "Committed" => Accepted(Append(parent, a))'
  BY <1>1, <1>3 DEF Accepted
<1>5. Claimed(note[p].attempt, note[p].record)' = Append(parent, a)
  BY <1>3 DEF Claimed
<1>6. pc'[p] \in Writing /\ note'[p].record.state = "Committed" =>
        Accepted(Claimed(note[p].attempt, note[p].record))'
  BY <1>3, <1>4, <1>5 DEF Accepted
<1> QED
  BY <1>1, <1>3, <1>6 DEF CommitInv, Promotion

\* The note of a writer claims a transaction.
LEMMA NoteClaims ==
  ASSUME BaseInv, NEW p \in Procs, pc[p] \in Writing
  PROVE  note[p].attempt \in Attempts /\ Claimed(note[p].attempt, note[p].record) \in Transactions
<1>1. note[p].attempt \in Attempts /\ note[p].record \in Records
  BY DEF BaseInv, RecordInv
<1>2. note[p].record.parent \in Transactions
  BY <1>1 DEF Records
<1> QED
  BY <1>1, <1>2, ClaimedType

\* Every process keeps what it knows of what it commits.
LEMMA CommitStep ==
  ASSUME FinalInv, Types', NEW p \in Procs, Frame(p),
         CallNative(p) \/ NativeStep(p) \/ AbandonNative(p), NEW q \in Procs
  PROVE  CommitInv(q)'
<1>0. /\ BaseInv /\ Types /\ OperationInv(p) /\ OperationInv(q) /\ RecordInv(p)
      /\ CommitInv(p) /\ CommitInv(q)
  BY DEF FinalInv, BaseInv
<1>1. CASE q = p /\ WriteStep(p)
  BY <1>1, DecisionIsTrue
<1>2. CASE q = p /\ ~WriteStep(p)
  <2>1. ASSUME pc'[p] \in Writing
        PROVE  /\ note'[p].record.state = "Committed" => Accepted(Claimed(note[p].attempt, note[p].record))'
               /\ pc'[p] \in {"stageRecord", "renameRecord"} /\ op'[p].kind = "recover" =>
                    journal'[note'[p].attempt].seen.state = "PromotionStarted"
    <3>1. /\ pc[p] \in Writing /\ note' = note /\ op' = op
          /\ pc'[p] \in {"stageRecord", "renameRecord"} =>
               pc[p] \in {"stageRecord", "renameRecord"} /\ journal' = journal
      BY <1>0, <1>2, <2>1, WriterStep
    <3>2. PICK t \in Transactions : t = Claimed(note[p].attempt, note[p].record)
      BY <1>0, <3>1, NoteClaims
    <3>3. Claimed(note[p].attempt, note[p].record)' = t
      BY <3>1, <3>2 DEF Claimed
    <3>4. note[p].record.state = "Committed" => Accepted(t)'
      BY <1>0, <3>1, <3>2, AcceptedStep DEF CommitInv
    <3>5. note'[p].record.state = "Committed" => Accepted(Claimed(note[p].attempt, note[p].record))'
      BY <3>1, <3>3, <3>4 DEF Accepted
    <3> QED
      BY <1>0, <3>1, <3>5 DEF CommitInv
  <2>2. ASSUME pc'[p] \in Promotion \ {"objects", "link"} PROVE Target(p)' \in receipts'.seen
    BY <1>0, <2>2, ReceiptOwn
  <2>3. {"stageRecord", "renameRecord"} \subseteq Writing
    BY DEF Writing
  <2> QED
    BY <1>2, <2>1, <2>2, <2>3 DEF CommitInv
<1>3. CASE q # p
  <2>1. pc'[q] = pc[q] /\ op'[q] = op[q] /\ note'[q] = note[q]
    BY <1>0, <1>3, OthersKept
  <2>2. CASE pc[q] \in NativeLocked
    <3>1. head' = head /\ receipts' = receipts /\ journal' = journal
      BY <1>0, <1>3, <2>2, OthersKept
    <3> QED
      BY <1>0, <2>1, <3>1 DEF CommitInv, Accepted, Claimed, Target
  <2>3. CASE pc[q] \notin NativeLocked
    BY <2>1, <2>3, LockedLabels DEF CommitInv, Writing, Promotion
  <2> QED
    BY <2>2, <2>3
<1> QED
  BY <1>1, <1>2, <1>3

\* Every step keeps the third layer.
LEMMA FinalStepNative == FinalInv /\ [NativeNext]_nvars => FinalInv'
<1> SUFFICES ASSUME FinalInv, [NativeNext]_nvars PROVE FinalInv'
  OBVIOUS
<1>0. /\ BaseInv /\ BaseInv' /\ Types /\ "power" \notin Faults
      /\ \A a \in Attempts : journal[a].seen.state = "Committed" => Accepted(Claimed(a, journal[a].seen))
      /\ \A p \in Procs : CommitInv(p) /\ OperationInv(p) /\ RecordInv(p)
  BY BaseStep DEF FinalInv, BaseInv
<1>1. CASE UNCHANGED nvars
  <2>1. UNCHANGED <<head, receipts, pc, op, journal, note>>
    BY <1>1 DEF nvars, vars, jvars, disk, local
  <2>2. \A p \in Procs : CommitInv(p)'
    BY <1>0, <2>1 DEF CommitInv, Accepted, Claimed, Target
  <2>3. \A a \in Attempts : journal'[a].seen.state = "Committed" => Accepted(Claimed(a, journal[a].seen))'
    BY <1>0, <2>1 DEF Accepted, Claimed
  <2> QED
    BY <1>0, <2>2, <2>3 DEF FinalInv, Accepted, Claimed
<1>2. ASSUME NEW p \in Procs, CallNative(p) \/ NativeStep(p) \/ AbandonNative(p) PROVE FinalInv'
  <2>1. Types' /\ Frame(p)
    BY <1>0, <1>2, LocalStep
  <2>2. \A q \in Procs : CommitInv(q)'
    BY <1>2, <2>1, CommitStep
  <2>3. ASSUME NEW a \in Attempts, journal'[a].seen.state = "Committed"
        PROVE  Accepted(Claimed(a, journal[a].seen))'
    <3>1. PICK t \in Transactions : t = Claimed(a, journal'[a].seen) /\ Accepted(t)
      <4>1. CASE journal'[a].seen = journal[a].seen
        <5>1. Claimed(a, journal[a].seen) \in Transactions
          BY <1>0, RecordTypes, ClaimedType
        <5> QED
          BY <1>0, <2>3, <4>1, <5>1
      <4>2. CASE pc[p] = "renameRecord" /\ a = note[p].attempt /\ journal'[a].seen = note[p].record
        <5>1. pc[p] \in Writing
          BY <4>2 DEF Writing
        <5>2. Claimed(note[p].attempt, note[p].record) \in Transactions
          BY <1>0, <5>1, NoteClaims
        <5>3. Accepted(Claimed(note[p].attempt, note[p].record))
          BY <1>0, <2>3, <4>2, <5>1 DEF CommitInv
        <5> QED
          BY <4>2, <5>2, <5>3
      <4> QED
        BY <1>0, <1>2, <4>1, <4>2, SeenStep
    <3>2. Accepted(t)'
      BY <1>0, <1>2, <3>1, AcceptedStep
    <3> QED
      BY <3>1, <3>2 DEF Accepted, Claimed
  <2> QED
    BY <1>0, <2>2, <2>3 DEF FinalInv
<1>3. ~PowerLossNative
  BY <1>0 DEF PowerLossNative
<1> QED
  BY <1>1, <1>2, <1>3 DEF NativeNext

\* An empty journal claims nothing.
LEMMA InitFinal == NativeInit /\ "power" \notin Faults => FinalInv
<1> SUFFICES ASSUME NativeInit, "power" \notin Faults PROVE FinalInv
  OBVIOUS
<1>1. \A a \in Attempts : journal[a].seen.state = "none"
  BY DEF NativeInit, Settled, NoRecord
<1>2. \A p \in Procs : pc[p] = "idle"
  BY DEF NativeInit
<1>3. \A p \in Procs : CommitInv(p)
  BY <1>2 DEF CommitInv, Writing, Promotion
<1> QED
  BY InitBase, <1>1, <1>3 DEF FinalInv

\* The third layer holds in every reachable state.
LEMMA FinalInvariance == NativeSpec /\ "power" \notin Faults => []FinalInv
  BY InitFinal, FinalStepNative, PTL DEF NativeSpec

\* Without a power loss, a record says Committed only of a transaction in the
\* accepted history: the commit writes it after the head was re-read, recovery
\* only where the head is the claim.  (With one it does not hold: recovery
\* journals a head that it has not synced.)
THEOREM CommittedIsAcceptedInvariant ==
  NativeSpec /\ "power" \notin Faults => []CommittedIsAccepted
<1>1. FinalInv => CommittedIsAccepted
  BY DEF FinalInv, CommittedIsAccepted, Accepted
<1> QED
  BY <1>1, FinalInvariance, PTL

\* Without a power loss, no step of any process reopens an attempt that
\* started promotion, and Committed stays as it is.
THEOREM AttemptNeverReopensStep ==
  NativeSpec /\ "power" \notin Faults => AttemptNeverReopens
<1> DEFINE Claims == {"PromotionStarted", "Committed", "OutcomeUnknown"}
           Kept == \A a \in Attempts :
                     LET before == journal[a].seen  after == journal'[a].seen IN
                     /\ before.state \in {"PromotionStarted", "Committed", "OutcomeUnknown"}
                          => after.state \in {"PromotionStarted", "Committed", "OutcomeUnknown"}
                     /\ before.state = "Committed" => after = before
<1>1. ASSUME FinalInv, [NativeNext]_nvars PROVE [Kept]_nvars
  <2>0. /\ BaseInv /\ Types /\ "power" \notin Faults
        /\ \A p \in Procs : CommitInv(p) /\ OperationInv(p) /\ RecordInv(p)
    BY <1>1 DEF FinalInv, BaseInv
  <2>1. ASSUME NEW p \in Procs, CallNative(p) \/ NativeStep(p) \/ AbandonNative(p), NEW a \in Attempts
        PROVE  LET before == journal[a].seen  after == journal'[a].seen IN
               /\ before.state \in Claims => after.state \in Claims
               /\ before.state = "Committed" => after = before
    <3>1. CASE journal'[a].seen = journal[a].seen
      BY <3>1
    <3>2. CASE pc[p] = "renameRecord" /\ a = note[p].attempt /\ journal'[a].seen = note[p].record
      <4>1. CASE op[p].kind = "native"
        <5>1. journal[a].seen.state \in
                IF note[p].record.state = "Committed" THEN {"PromotionStarted"} ELSE Retryable \cup {"none"}
          BY <2>0, <3>2, <4>1 DEF RecordInv
        <5> QED
          BY <3>2, <5>1 DEF Retryable
      <4>2. CASE op[p].kind = "recover"
        <5>1. note[p].record.state \in {"Committed", "OutcomeUnknown"}
          BY <2>0, <3>2, <4>2 DEF RecordInv, Writing
        <5>2. journal[a].seen.state = "PromotionStarted"
          BY <2>0, <3>2, <4>2 DEF CommitInv
        <5> QED
          BY <3>2, <5>1, <5>2
      <4>3. op[p].kind \in {"native", "recover"}
        BY <2>0, <3>2 DEF RecordInv, Writing
      <4> QED
        BY <4>1, <4>2, <4>3
    <3> QED
      BY <2>0, <2>1, <3>1, <3>2, SeenStep
  <2>2. ~PowerLossNative
    BY <2>0 DEF PowerLossNative
  <2> QED
    BY <1>1, <2>1, <2>2 DEF NativeNext
<1> QED
  BY <1>1, FinalInvariance, PTL DEF NativeSpec, AttemptNeverReopens
=============================================================================
