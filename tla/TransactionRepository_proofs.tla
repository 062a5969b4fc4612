-------------------- MODULE TransactionRepository_proofs --------------------
(***************************************************************************)
(* Proofs about TransactionRepository, for any number of processes, inputs *)
(* and objects and for any bounds.                                         *)
(***************************************************************************)
EXTENDS TransactionRepository, SequenceTheorems, TLAPS
-----------------------------------------------------------------------------
(* Transactions: what one more input changes.                              *)

\* The transaction that an operation builds is a transaction.
LEMMA AppendType ==
  ASSUME NEW t \in Transactions, NEW i \in Inputs
  PROVE  /\ Append(t, i) \in Transactions
         /\ Len(Append(t, i)) = Len(t) + 1
         /\ \A k \in 1 .. Len(t) : Append(t, i)[k] = t[k]
         /\ Append(t, i)[Len(t) + 1] = i
  BY DEF Transactions

\* The prefixes of a transaction, before and after one more input.
LEMMA PrefixOfAppend ==
  ASSUME NEW t \in Transactions, NEW i \in Inputs, NEW k \in 0 .. Len(t)
  PROVE  SubSeq(Append(t, i), 1, k) = SubSeq(t, 1, k)
<1>1. /\ SubSeq(t, 1, k) \in Seq(Inputs)
      /\ Len(SubSeq(t, 1, k)) = k
      /\ \A j \in 1 .. k : SubSeq(t, 1, k)[j] = t[j]
  BY SubSeqProperties, SMT DEF Transactions
<1>2. /\ SubSeq(Append(t, i), 1, k) \in Seq(Inputs)
      /\ Len(SubSeq(Append(t, i), 1, k)) = k
      /\ \A j \in 1 .. k : SubSeq(Append(t, i), 1, k)[j] = t[j]
  BY SubSeqProperties, AppendType, SMT DEF Transactions
<1> QED
  BY <1>1, <1>2, SeqEqual, SMT

\* The ancestry of a transaction is that of its parent and itself.
LEMMA AncestryOfAppend ==
  ASSUME NEW t \in Transactions, NEW i \in Inputs
  PROVE  Ancestry(Append(t, i)) \subseteq Ancestry(t) \cup {Append(t, i)}
<1> SUFFICES ASSUME NEW k \in 1 .. Len(Append(t, i))
             PROVE  SubSeq(Append(t, i), 1, k) \in Ancestry(t) \cup {Append(t, i)}
  BY DEF Ancestry
<1>1. Len(t) \in Nat /\ k \in 1 .. Len(t) + 1
  BY AppendType DEF Transactions
<1>2. CASE k \in 1 .. Len(t)
  BY <1>1, <1>2, PrefixOfAppend DEF Ancestry
<1>3. CASE k = Len(t) + 1
  <2>1. k = Len(Append(t, i)) /\ Append(t, i) \in Seq(Inputs)
    BY <1>3, AppendType DEF Transactions
  <2> QED
    BY <2>1, SubSeqFull
<1> QED
  BY <1>1, <1>2, <1>3

\* It binds the objects of its parent and those it writes.
LEMMA InventoryOfAppend ==
  ASSUME NEW t \in Transactions, NEW i \in Inputs
  PROVE  Inventory(Append(t, i)) \subseteq Inventory(t) \cup Writes[i]
<1> SUFFICES ASSUME NEW k \in 1 .. Len(Append(t, i))
             PROVE  Writes[Append(t, i)[k]] \subseteq Inventory(t) \cup Writes[i]
  BY DEF Inventory
<1>1. Len(t) \in Nat /\ k \in 1 .. Len(t) + 1
  BY AppendType DEF Transactions
<1>2. CASE k \in 1 .. Len(t)
  BY <1>2, AppendType DEF Inventory
<1>3. CASE k = Len(t) + 1
  BY <1>3, AppendType
<1> QED
  BY <1>1, <1>2, <1>3

\* A history extended by one input extends whatever it extended.
LEMMA PrefixExtends ==
  ASSUME NEW s \in Transactions, NEW t \in Transactions, NEW i \in Inputs, IsPrefix(s, t)
  PROVE  IsPrefix(s, Append(t, i))
<1>1. Len(s) \in 0 .. Len(t) /\ Len(t) \in Nat
  BY DEF IsPrefix, Transactions
<1> QED
  BY <1>1, PrefixOfAppend, AppendType DEF IsPrefix

\* Every history extends itself.
LEMMA PrefixReflexive == \A s \in Transactions : IsPrefix(s, s)
  BY DEF IsPrefix, Transactions
-----------------------------------------------------------------------------
(* Type correctness.                                                       *)

\* An empty root has the types.
LEMMA InitTypeOK == Init => TypeOK
<1> SUFFICES ASSUME Init PROVE TypeOK
  OBVIOUS
<1>1. << >> \in Transactions
  BY DEF Transactions
<1>2. NoOperation \in Operations
  BY <1>1 DEF NoOperation, Operations, Inputs
<1> QED
  BY <1>1, <1>2 DEF Init, TypeOK, EmptyShelf, Settled, CellOf, Labels

\* Releasing the locks keeps the types of what it touches.
LEMMA ReleaseType ==
  ASSUME TypeOK, NEW p \in Procs, Release(p)
  PROVE  /\ maintenance' \in [shared : SUBSET Procs, exclusive : Procs \cup {NoProc}]
         /\ lock' \in Procs \cup {NoProc}
         /\ pc' \in [Procs -> Labels]
         /\ op' \in [Procs -> Operations]
         /\ todo' \in [Procs -> SUBSET Objects]
<1>1. NoOperation \in Operations
  BY DEF NoOperation, Operations, Inputs, Transactions
<1> QED
  BY <1>1 DEF TypeOK, Release, Goto, Labels

\* A receipt is synced only after its name was linked.
Linked == \A p \in Procs : pc[p] = "syncReceipt" => Target(p) \in receipts.seen

TypeInv == TypeOK /\ Linked

\* An operation builds on a transaction and installs an input.
LEMMA TargetType ==
  ASSUME TypeOK, NEW p \in Procs
  PROVE  /\ Target(p) \in Transactions
         /\ op[p].parent \in Transactions
         /\ op[p].input \in Inputs
<1>1. op[p] \in Operations
  BY DEF TypeOK
<1>2. op[p].parent \in Transactions /\ op[p].input \in Inputs
  BY <1>1 DEF Operations
<1> QED
  BY <1>2, AppendType DEF Target

\* Every step of the repository keeps the types.
LEMMA TypeStep == TypeInv /\ [Next]_vars => TypeInv'
<1> SUFFICES ASSUME TypeInv, [Next]_vars PROVE TypeInv'
  OBVIOUS
<1> USE DEF TypeInv
<1>u. CASE UNCHANGED vars
  BY <1>u DEF vars, disk, local, TypeOK, Linked, Target
<1>c. ASSUME NEW p \in Procs, Call(p) PROVE TypeInv'
  <2>1. PICK o \in Operations : Begin(p, o)
    BY <1>c, EmptySeq DEF Call, BeginGenesis, BeginRead, BeginRecover, BeginCommit, Operations, Inputs, Transactions, TypeOK
  <2>2. op' \in [Procs -> Operations] /\ pc' \in [Procs -> Labels]
    BY <2>1 DEF Begin, Goto, TypeOK, Labels
  <2> QED
    BY <2>1, <2>2 DEF Begin, Goto, TypeOK, Linked, Target, disk
<1>l. ASSUME NEW p \in Procs, AcquireShared(p) \/ AcquireExclusive(p) \/ AcquireLock(p)
      PROVE  TypeInv'
  <2>1. pc' \in [Procs -> Labels]
    BY <1>l DEF AcquireShared, AcquireExclusive, AcquireLock, Goto, TypeOK, Labels
  <2>2. TypeOK'
    BY <1>l, <2>1 DEF AcquireShared, AcquireExclusive, AcquireLock, TypeOK, disk
  <2> QED
    BY <1>l, <2>2 DEF AcquireShared, AcquireExclusive, AcquireLock, Goto, TypeOK, Linked, Target, disk
<1>r. ASSUME NEW p \in Procs,
             FinishRead(p) \/ RefuseStale(p) \/ RefuseInput(p) \/ RefuseRecovery(p)
      PROVE  TypeInv'
  <2>1. Release(p) /\ UNCHANGED <<disk, promised>>
    BY <1>r DEF FinishRead, RefuseStale, RefuseInput, RefuseRecovery
  <2> QED
    BY <2>1, ReleaseType DEF TypeOK, Linked, Target, disk, Release, Goto
<1>a. ASSUME NEW p \in Procs, Admit(p) PROVE TypeInv'
  BY <1>a, InputsAssumption, TargetType DEF Admit, Goto, TypeOK, Linked, Target, disk, Labels
<1>p. ASSUME NEW p \in Procs, NEW o \in Objects, PutLink(p, o) \/ PutReturn(p, o)
      PROVE  TypeInv'
  BY <1>p DEF PutLink, PutReturn, TypeOK, Linked, Target, local, Link, SyncName, StageKinds
<1>s. ASSUME NEW p \in Procs,
             AdoptReceipt(p) \/ StageReceipt(p) \/ LinkReceipt(p) \/ SyncReceipt(p)
      PROVE  TypeInv'
  <2>1. Target(p) \in Transactions
    BY TargetType
  <2>2. TypeOK'
    BY <1>s, <2>1 DEF AdoptReceipt, StageReceipt, LinkReceipt, SyncReceipt, TypeOK, Linked,
      Goto, Link, SyncName, StageKinds, Labels
  <2>3. op' = op /\ receipts.seen \subseteq receipts'.seen
    BY <1>s DEF AdoptReceipt, StageReceipt, LinkReceipt, SyncReceipt, TypeOK, Link, SyncName
  <2>4. \A q \in Procs : pc'[q] = "syncReceipt" => pc[q] = "syncReceipt" \/ (q = p /\ LinkReceipt(p))
    BY <1>s DEF AdoptReceipt, StageReceipt, LinkReceipt, SyncReceipt, TypeOK, Goto
  <2>5. LinkReceipt(p) => Target(p) \in receipts'.seen
    BY DEF LinkReceipt, Link, TypeOK
  <2> QED
    BY <2>2, <2>3, <2>4, <2>5 DEF Linked, Target
<1>h. ASSUME NEW p \in Procs,
             UnlinkReceiptStage(p) \/ StageHead(p) \/ RenameHead(p) \/ SyncHead(p)
      PROVE  TypeInv'
  <2>1. Target(p) \in Transactions
    BY TargetType
  <2>2. TypeOK'
    BY <1>h, <2>1 DEF UnlinkReceiptStage, StageHead, RenameHead, SyncHead, TypeOK,
      Goto, CellOf, Replace, SyncCell, Settled, StageKinds, Labels
  <2> QED
    BY <1>h, <2>2 DEF UnlinkReceiptStage, StageHead, RenameHead, SyncHead, TypeOK, Linked,
      Goto, Target
<1>f. ASSUME NEW p \in Procs, Confirm(p) \/ Report(p) PROVE TypeInv'
  <2>1. Release(p) /\ UNCHANGED disk
    BY <1>f DEF Confirm, Report
  <2>2. promised' \subseteq Transactions
    BY <1>f, TargetType DEF Confirm, Report, TypeOK, CellOf
  <2> QED
    BY <2>1, <2>2, ReleaseType DEF TypeOK, Linked, Target, disk, Release, Goto
<1>g. ASSUME NEW p \in Procs, PlanRecovery(p) \/ NoJournal(p) PROVE TypeInv'
  BY <1>g DEF PlanRecovery, NoJournal, TypeOK, Linked, Target, disk, Goto, Labels
<1>w. ASSUME NEW p \in Procs, NEW x \in stages, RemoveStage(p, x) PROVE TypeInv'
  BY <1>w DEF RemoveStage, TypeOK, Linked, Target, local
<1>y. ASSUME NEW p \in Procs, NEW kind \in StageKinds, SyncSweep(p, kind) PROVE TypeInv'
  BY <1>y DEF SyncSweep, TypeOK, Linked, Target, Goto, AfterSweep, SweepLabel, StageKinds, Labels,
    CellOf, SyncCell, Settled, SyncShelf
<1>b. ASSUME NEW p \in Procs, Abandon(p) PROVE TypeInv'
  <2>1. stages' \subseteq StageKinds \X (Procs \cup {NoProc})
    BY <1>b DEF Abandon, TypeOK, Orphan
  <2> QED
    BY <1>b, <2>1, ReleaseType DEF Abandon, TypeOK, Linked, Target, Release, Goto
<1>z. CASE PowerLoss
  <2>1. /\ objects' \in [seen : SUBSET Objects, safe : SUBSET Objects]
        /\ objects'.safe \subseteq objects'.seen
    BY <1>z DEF PowerLoss, TypeOK, ShelfAfterPowerLoss
  <2>2. /\ receipts' \in [seen : SUBSET Transactions, safe : SUBSET Transactions]
        /\ receipts'.safe \subseteq receipts'.seen
    BY <1>z DEF PowerLoss, TypeOK, ShelfAfterPowerLoss
  <2>3. head' \in CellOf(Transactions)
    BY <1>z DEF PowerLoss, TypeOK, AfterPowerLoss, Settled, CellOf
  <2>4. stages' \subseteq StageKinds \X (Procs \cup {NoProc})
    BY <1>z DEF PowerLoss, TypeOK, Orphan
  <2>5. NoOperation \in Operations
    BY EmptySeq DEF NoOperation, Operations, Inputs, Transactions
  <2> QED
    BY <1>z, <2>1, <2>2, <2>3, <2>4, <2>5 DEF PowerLoss, TypeOK, Linked, Labels
<1> QED
  BY <1>u, <1>c, <1>l, <1>r, <1>a, <1>p, <1>s, <1>h, <1>f, <1>g, <1>w, <1>y, <1>b, <1>z
  DEF Next, Step, CheckStep, PromoteStep, RecoverStep, SweepStep

\* Every reachable state has the types of TypeOK: in particular nothing is
\* durable that is not visible.
THEOREM TypeCorrect == Spec => []TypeOK
<1>1. Init => TypeInv
  BY InitTypeOK DEF TypeInv, Init, Linked
<1> QED
  BY <1>1, TypeStep, PTL DEF Spec, TypeInv
-----------------------------------------------------------------------------
(* The accepted lock: while one process holds it, the others leave the     *)
(* files and its stages alone.                                             *)

\* The labels between taking the accepted lock and releasing it.
Locked == Labels \ {"idle", "maintenance", "lock"}

LockHeld == \A p \in Procs : pc[p] \in Locked => lock = p

\* A step that is taken under the lock, by the process that holds it.
LockedStep(p) ==
  CheckStep(p) \/ PromoteStep(p) \/ Confirm(p) \/ RecoverStep(p)

\* Such a step either keeps the lock or gives it back.
LEMMA LockedStepLocal ==
  ASSUME TypeOK, NEW p \in Procs, LockedStep(p)
  PROVE  /\ pc[p] \in Locked
         /\ \A q \in Procs \ {p} :
              pc'[q] = pc[q] /\ op'[q] = op[q] /\ todo'[q] = todo[q]
         /\ \/ Release(p)
            \/ pc'[p] \in Locked /\ lock' = lock /\ op' = op
<1>1. ASSUME FinishRead(p) \/ RefuseStale(p) \/ RefuseInput(p) \/ RefuseRecovery(p)
             \/ Confirm(p) \/ Report(p)
      PROVE  pc[p] \in Locked /\ Release(p)
  BY <1>1 DEF FinishRead, RefuseStale, RefuseInput, RefuseRecovery, Confirm, Report, Locked, Labels
<1>2. Release(p) => \A q \in Procs \ {p} :
                      pc'[q] = pc[q] /\ op'[q] = op[q] /\ todo'[q] = todo[q]
  BY DEF Release, Goto, TypeOK
<1>3. ASSUME Admit(p) \/ PlanRecovery(p) \/ NoJournal(p)
             \/ AdoptReceipt(p) \/ StageReceipt(p) \/ LinkReceipt(p) \/ SyncReceipt(p)
             \/ UnlinkReceiptStage(p) \/ StageHead(p) \/ RenameHead(p) \/ SyncHead(p)
      PROVE  /\ pc[p] \in Locked /\ pc'[p] \in Locked /\ lock' = lock /\ op' = op
             /\ \A q \in Procs \ {p} : pc'[q] = pc[q] /\ todo'[q] = todo[q]
  BY <1>3 DEF Admit, PlanRecovery, NoJournal, AdoptReceipt, StageReceipt, LinkReceipt, SyncReceipt,
    UnlinkReceiptStage, StageHead, RenameHead, SyncHead, Goto, TypeOK, Locked, Labels
<1>4. ASSUME NEW o \in Objects, PutLink(p, o) \/ PutReturn(p, o)
      PROVE  /\ pc[p] \in Locked /\ pc' = pc /\ lock' = lock /\ op' = op
             /\ \A q \in Procs \ {p} : todo'[q] = todo[q]
  BY <1>4 DEF PutLink, PutReturn, local, TypeOK, Locked, Labels
<1>5. ASSUME NEW x \in stages, RemoveStage(p, x)
      PROVE  pc[p] \in Locked /\ lock' = lock /\ UNCHANGED local
  <2>1. x[1] \in StageKinds
    BY DEF TypeOK
  <2> QED
    BY <1>5, <2>1 DEF RemoveStage, SweepLabel, StageKinds, Locked, Labels
<1>6. ASSUME NEW kind \in StageKinds, SyncSweep(p, kind)
      PROVE  /\ pc[p] \in Locked /\ pc'[p] \in Locked /\ lock' = lock /\ op' = op
             /\ \A q \in Procs \ {p} : pc'[q] = pc[q] /\ todo'[q] = todo[q]
  BY <1>6 DEF SyncSweep, SweepLabel, AfterSweep, StageKinds, Goto, TypeOK, Locked, Labels
<1> QED
  BY <1>1, <1>2, <1>3, <1>4, <1>5, <1>6
  DEF LockedStep, CheckStep, PromoteStep, RecoverStep, SweepStep, local

\* Whoever is past acquire_lock holds the accepted lock.
LEMMA LockStep == TypeOK /\ LockHeld /\ [Next]_vars => LockHeld'
<1> SUFFICES ASSUME TypeOK, LockHeld, [Next]_vars PROVE LockHeld'
  OBVIOUS
<1>1. CASE UNCHANGED vars
  BY <1>1 DEF vars, local, LockHeld
<1>2. ASSUME NEW p \in Procs, LockedStep(p) PROVE LockHeld'
  <2>1. pc[p] \in Locked /\ lock = p
    BY <1>2, LockedStepLocal DEF LockHeld
  <2>2. \A q \in Procs \ {p} : pc'[q] \notin Locked
    BY <1>2, <2>1, LockedStepLocal DEF LockHeld
  <2>3. Release(p) => pc'[p] \notin Locked
    BY DEF Release, Goto, TypeOK, Locked
  <2> QED
    BY <1>2, <2>1, <2>2, <2>3, LockedStepLocal DEF LockHeld
<1>3. ASSUME NEW p \in Procs, Call(p) PROVE LockHeld'
  BY <1>3 DEF Call, BeginGenesis, BeginCommit, BeginRead, BeginRecover, Begin, Goto, TypeOK,
    LockHeld, Locked
<1>4. ASSUME NEW p \in Procs, AcquireShared(p) \/ AcquireExclusive(p) \/ AcquireLock(p)
      PROVE  LockHeld'
  BY <1>4, ProcsAssumption DEF AcquireShared, AcquireExclusive, AcquireLock, Goto, TypeOK,
    LockHeld, Locked
<1>5. ASSUME NEW p \in Procs, Abandon(p) PROVE LockHeld'
  BY <1>5 DEF Abandon, Release, Goto, TypeOK, LockHeld, Locked
<1>6. CASE PowerLoss
  BY <1>6 DEF PowerLoss, LockHeld, Locked
<1> QED
  BY <1>1, <1>2, <1>3, <1>4, <1>5, <1>6 DEF Next, Step, LockedStep

\* A process that is under the lock after a step took that step, or the step
\* touched nothing it relies on.
LEMMA Exclusion ==
  ASSUME TypeOK, LockHeld, Next, NEW q \in Procs, pc'[q] \in Locked
  PROVE  \/ LockedStep(q)
         \/ AcquireLock(q)
         \/ /\ pc'[q] = pc[q] /\ op'[q] = op[q] /\ todo'[q] = todo[q]
            /\ UNCHANGED <<objects, receipts, head, limbo, promised>>
            /\ \A x \in stages : x[2] = q => x \in stages'
            /\ \A y \in stages' : \E x \in stages : x[1] = y[1]
<1>1. ASSUME NEW p \in Procs \ {q}, LockedStep(p) PROVE FALSE
  BY <1>1, LockedStepLocal DEF LockHeld
<1>2. ASSUME NEW p \in Procs, Call(p) \/ AcquireShared(p) \/ AcquireExclusive(p)
      PROVE  /\ q # p /\ pc'[q] = pc[q] /\ op'[q] = op[q] /\ todo'[q] = todo[q]
             /\ UNCHANGED <<disk, promised>>
  BY <1>2 DEF Call, BeginGenesis, BeginCommit, BeginRead, BeginRecover, Begin,
    AcquireShared, AcquireExclusive, Goto, TypeOK, Locked
<1>3. ASSUME NEW p \in Procs \ {q}, AcquireLock(p) PROVE FALSE
  BY <1>3, ProcsAssumption DEF AcquireLock, Goto, LockHeld, TypeOK
<1>4. ASSUME NEW p \in Procs, Abandon(p)
      PROVE  /\ q # p /\ pc'[q] = pc[q] /\ op'[q] = op[q] /\ todo'[q] = todo[q]
             /\ UNCHANGED <<objects, receipts, head, limbo, promised>>
             /\ \A x \in stages : x[2] = q => x \in stages'
             /\ \A y \in stages' : \E x \in stages : x[1] = y[1]
  <2>1. q # p /\ pc'[q] = pc[q] /\ op'[q] = op[q] /\ todo'[q] = todo[q]
    BY <1>4 DEF Abandon, Release, Goto, TypeOK, Locked
  <2> QED
    BY <1>4, <2>1 DEF Abandon, Orphan
<1>5. ~PowerLoss
  BY DEF PowerLoss, Locked
<1> QED
  BY <1>1, <1>2, <1>3, <1>4, <1>5 DEF Next, Step, LockedStep, disk
-----------------------------------------------------------------------------
(* What the holder of the lock knows at each of its steps.                 *)

Building == {"objects", "link", "syncReceipt", "unlink", "cas", "rename"}
Promoting == Building \cup {"syncHead", "confirm"}

\* The head it read is still the head, or is the one it renamed.
HeadKnown(p) ==
  /\ pc[p] \in Building => head.seen = op[p].parent
  /\ pc[p] \in {"syncHead", "confirm"} => head.seen = Target(p)

\* Objects first, then the receipt, are durable before the head is renamed.
Stored(p) ==
  /\ pc[p] \in Promoting => Writes[op[p].input] \ todo[p] \subseteq objects.safe
  /\ pc[p] \in Promoting \ {"objects"} => todo[p] = {}
  /\ pc[p] \in {"unlink", "cas", "rename"} => Target(p) \in receipts.safe

\* The head is durable before anything is reported.
HeadSynced(p) == pc[p] \in {"confirm", "report"} => head.disk = {head.seen}

\* Its own stage files are there until it renames or removes them.
StageKept(p) ==
  /\ pc[p] \in {"link", "syncReceipt", "unlink"} => <<"receipt", p>> \in stages
  /\ pc[p] = "rename" => <<"head", p>> \in stages

\* Recovery is done with these kinds of stage files.
SweptKinds(label) ==
  CASE label = "sweepReceipt" -> {"object"}
    [] label = "sweepHead" -> {"object", "receipt"}
    [] label = "report" -> StageKinds
    [] OTHER -> {}

Swept(p) ==
  /\ \A x \in stages \cup limbo : x[1] \notin SweptKinds(pc[p])
  /\ pc[p] \in {"sweepReceipt", "sweepHead", "report"} => objects.safe = objects.seen
  /\ pc[p] \in {"sweepHead", "report"} => receipts.safe = receipts.seen

HolderInv(p) == HeadKnown(p) /\ Stored(p) /\ HeadSynced(p) /\ StageKept(p) /\ Swept(p)

\* Nothing is known outside the lock.
LEMMA HolderInvOutside ==
  ASSUME NEW p \in Procs, pc[p] \notin Locked, pc[p] \in Labels
  PROVE  HolderInv(p)
<1>1. pc[p] \in {"idle", "maintenance", "lock"}
  BY DEF Locked
<1> QED
  BY <1>1 DEF HolderInv, HeadKnown, Stored, HeadSynced, StageKept, Swept, SweptKinds,
    Building, Promoting

\* Checks and refusals.
LEMMA HolderCheck ==
  ASSUME TypeInv, TypeOK', NEW p \in Procs, HolderInv(p), CheckStep(p) \/ AcquireLock(p),
         pc'[p] \in Locked
  PROVE  HolderInv(p)'
<1>1. CASE AcquireLock(p)
  BY <1>1 DEF AcquireLock, Goto, TypeInv, TypeOK, HolderInv, HeadKnown, Stored, HeadSynced,
    StageKept, Swept, SweptKinds, Building, Promoting
<1>2. CASE Admit(p)
  BY <1>2 DEF Admit, Goto, disk, TypeInv, TypeOK, HolderInv, HeadKnown, Stored, HeadSynced,
    StageKept, Swept, SweptKinds, Building, Promoting
<1>3. CASE FinishRead(p) \/ RefuseStale(p) \/ RefuseInput(p)
  BY <1>3 DEF FinishRead, RefuseStale, RefuseInput, Release, Goto, TypeInv, TypeOK, Locked
<1> QED
  BY <1>1, <1>2, <1>3 DEF CheckStep

\* The promotion, step by step.
LEMMA HolderPromote ==
  ASSUME TypeInv, TypeOK', NEW p \in Procs, HolderInv(p), PromoteStep(p)
  PROVE  HolderInv(p)'
<1> USE DEF TypeInv, TypeOK, HolderInv, HeadKnown, Stored, HeadSynced, StageKept, Swept,
        SweptKinds, Building, Promoting, Target
<1>1. ASSUME NEW o \in Objects, PutLink(p, o) \/ PutReturn(p, o) PROVE HolderInv(p)'
  BY <1>1 DEF PutLink, PutReturn, local, Link, SyncName
<1>2. CASE AdoptReceipt(p)
  BY <1>2 DEF AdoptReceipt, Goto, SyncName
<1>3. CASE StageReceipt(p)
  BY <1>3 DEF StageReceipt, Goto
<1>4. CASE LinkReceipt(p)
  BY <1>4 DEF LinkReceipt, Goto, Link
<1>5. CASE SyncReceipt(p)
  BY <1>5 DEF SyncReceipt, Goto, SyncName
<1>6. CASE UnlinkReceiptStage(p)
  BY <1>6 DEF UnlinkReceiptStage, Goto
<1>7. CASE StageHead(p)
  BY <1>7 DEF StageHead, Goto
<1>8. CASE RenameHead(p)
  BY <1>8 DEF RenameHead, Goto, Replace
<1>9. CASE SyncHead(p)
  BY <1>9 DEF SyncHead, Goto, SyncCell, Settled
<1> QED
  BY <1>1, <1>2, <1>3, <1>4, <1>5, <1>6, <1>7, <1>8, <1>9 DEF PromoteStep

\* The sweep, and the report.
LEMMA HolderRecover ==
  ASSUME TypeInv, TypeOK', NEW p \in Procs, HolderInv(p), RecoverStep(p) \/ Confirm(p),
         pc'[p] \in Locked
  PROVE  HolderInv(p)'
<1> USE DEF TypeInv, TypeOK, HolderInv, HeadKnown, Stored, HeadSynced, StageKept, Swept,
        SweptKinds, Building, Promoting, Target
<1>1. CASE PlanRecovery(p) \/ NoJournal(p)
  BY <1>1 DEF PlanRecovery, NoJournal, Goto, disk
<1>2. CASE RefuseRecovery(p) \/ Report(p) \/ Confirm(p)
  BY <1>2 DEF RefuseRecovery, Report, Confirm, Release, Goto, Locked
<1>3. ASSUME NEW x \in stages, RemoveStage(p, x) PROVE HolderInv(p)'
  BY <1>3 DEF RemoveStage, SweepLabel, StageKinds, local
<1>4. ASSUME NEW kind \in StageKinds, SyncSweep(p, kind) PROVE HolderInv(p)'
  <2>1. CASE kind = "object"
    BY <1>4, <2>1 DEF SyncSweep, SweepLabel, AfterSweep, StageKinds, Goto, SyncShelf
  <2>2. CASE kind = "receipt"
    BY <1>4, <2>2 DEF SyncSweep, SweepLabel, AfterSweep, StageKinds, Goto, SyncShelf
  <2>3. CASE kind = "head"
    BY <1>4, <2>3 DEF SyncSweep, SweepLabel, AfterSweep, StageKinds, Goto, SyncCell, Settled
  <2> QED
    BY <2>1, <2>2, <2>3 DEF StageKinds
<1> QED
  BY <1>1, <1>2, <1>3, <1>4 DEF RecoverStep, SweepStep

\* Together with the exclusion of all others: every process knows what it
\* relies on.
LEMMA HolderStep ==
  ASSUME TypeInv, TypeInv', LockHeld, \A p \in Procs : HolderInv(p), [Next]_vars
  PROVE  \A p \in Procs : HolderInv(p)'
<1> SUFFICES ASSUME NEW p \in Procs PROVE HolderInv(p)'
  OBVIOUS
<1>1. CASE UNCHANGED vars
  BY <1>1 DEF vars, disk, local, HolderInv, HeadKnown, Stored, HeadSynced, StageKept, Swept, Target
<1>2. CASE pc'[p] \notin Locked
  <2>1. pc'[p] \in Labels
    BY DEF TypeInv, TypeOK
  <2>2. pc'[p] \in {"idle", "maintenance", "lock"}
    BY <1>2, <2>1 DEF Locked
  <2> QED
    BY <2>2 DEF HolderInv, HeadKnown, Stored, HeadSynced, StageKept, Swept, SweptKinds,
      Building, Promoting
<1>3. CASE Next /\ pc'[p] \in Locked
  <2>1. CASE LockedStep(p) \/ AcquireLock(p)
    BY <1>3, <2>1, HolderCheck, HolderPromote, HolderRecover DEF LockedStep, TypeInv
  <2>2. CASE /\ pc'[p] = pc[p] /\ op'[p] = op[p] /\ todo'[p] = todo[p]
             /\ UNCHANGED <<objects, receipts, head, limbo, promised>>
             /\ \A x \in stages : x[2] = p => x \in stages'
             /\ \A y \in stages' : \E x \in stages : x[1] = y[1]
    <3>1. HeadKnown(p)' /\ Stored(p)' /\ HeadSynced(p)'
      BY <2>2 DEF HolderInv, HeadKnown, Stored, HeadSynced, Target
    <3>2. StageKept(p)'
      BY <2>2 DEF HolderInv, StageKept
    <3>3. Swept(p)'
      BY <2>2 DEF HolderInv, Swept
    <3> QED
      BY <3>1, <3>2, <3>3 DEF HolderInv
  <2> QED
    BY <1>3, <2>1, <2>2, Exclusion DEF TypeInv
<1> QED
  BY <1>1, <1>2, <1>3
-----------------------------------------------------------------------------
(* The files.                                                              *)

\* What is durable stays durable.
LEMMA SafeGrows ==
  ASSUME TypeInv, [Next]_vars
  PROVE  objects.safe \subseteq objects'.safe /\ receipts.safe \subseteq receipts'.safe
<1>1. ASSUME NEW p \in Procs, PromoteStep(p)
      PROVE  objects.safe \subseteq objects'.safe /\ receipts.safe \subseteq receipts'.safe
  BY <1>1 DEF PromoteStep, PutLink, PutReturn, AdoptReceipt, StageReceipt, LinkReceipt, SyncReceipt,
    UnlinkReceiptStage, StageHead, RenameHead, SyncHead, Link, SyncName, TypeInv, TypeOK
<1>2. CASE PowerLoss
  BY <1>2 DEF PowerLoss, ShelfAfterPowerLoss
<1>3. ASSUME NEW p \in Procs, Call(p) \/ AcquireShared(p) \/ AcquireExclusive(p) \/ AcquireLock(p)
             \/ CheckStep(p) \/ Confirm(p) \/ Abandon(p)
      PROVE  UNCHANGED <<objects, receipts>>
  BY <1>3 DEF Call, BeginGenesis, BeginCommit, BeginRead, BeginRecover, Begin, AcquireShared,
    AcquireExclusive, AcquireLock, CheckStep, FinishRead, RefuseStale, RefuseInput, Admit, Confirm,
    Abandon, disk
<1>4. ASSUME NEW p \in Procs, RecoverStep(p)
      PROVE  objects.safe \subseteq objects'.safe /\ receipts.safe \subseteq receipts'.safe
  BY <1>4 DEF RecoverStep, PlanRecovery, RefuseRecovery, NoJournal, SweepStep, RemoveStage,
    SyncSweep, SyncShelf, Report, disk, TypeInv, TypeOK
<1> QED
  BY <1>1, <1>2, <1>3, <1>4 DEF Next, Step, vars, disk

\* The four things that can happen to the head.
LEMMA HeadMoves ==
  ASSUME TypeInv, [Next]_vars
  PROVE  \/ head' = head
         \/ \E p \in Procs : RenameHead(p)
         \/ head' = SyncCell(head) /\ promised' = promised
         \/ PowerLoss
<1>1. ASSUME NEW p \in Procs, Call(p) \/ AcquireShared(p) \/ AcquireExclusive(p) \/ AcquireLock(p)
             \/ CheckStep(p) \/ Confirm(p) \/ Abandon(p)
      PROVE  head' = head
  BY <1>1 DEF Call, BeginGenesis, BeginCommit, BeginRead, BeginRecover, Begin, AcquireShared,
    AcquireExclusive, AcquireLock, CheckStep, FinishRead, RefuseStale, RefuseInput, Admit, Confirm,
    Abandon, disk
<1>2. ASSUME NEW p \in Procs, PromoteStep(p), ~RenameHead(p)
      PROVE  head' = head \/ (head' = SyncCell(head) /\ promised' = promised)
  BY <1>2 DEF PromoteStep, PutLink, PutReturn, AdoptReceipt, StageReceipt, LinkReceipt, SyncReceipt,
    UnlinkReceiptStage, StageHead, SyncHead
<1>3. ASSUME NEW p \in Procs, RecoverStep(p)
      PROVE  head' = head \/ (head' = SyncCell(head) /\ promised' = promised)
  BY <1>3 DEF RecoverStep, PlanRecovery, RefuseRecovery, NoJournal, SweepStep, RemoveStage,
    SyncSweep, Report, disk
<1> QED
  BY <1>1, <1>2, <1>3 DEF Next, Step, vars, disk

\* Only Confirm and Report tell a caller something.
LEMMA PromisesAre ==
  ASSUME TypeInv, [Next]_vars
  PROVE  \/ promised' = promised
         \/ \E p \in Procs : Confirm(p) \/ Report(p)
  BY DEF Next, Step, Call, BeginGenesis, BeginCommit, BeginRead, BeginRecover, Begin, AcquireShared,
    AcquireExclusive, AcquireLock, CheckStep, FinishRead, RefuseStale, RefuseInput, Admit,
    PromoteStep, PutLink, PutReturn, AdoptReceipt, StageReceipt, LinkReceipt, SyncReceipt,
    UnlinkReceiptStage, StageHead, RenameHead, SyncHead, RecoverStep, PlanRecovery, RefuseRecovery,
    NoJournal, SweepStep, RemoveStage, SyncSweep, Abandon, PowerLoss, vars
-----------------------------------------------------------------------------
(* The inductive invariant.  HeadClosed and PromisedSurvives speak of what *)
(* a power loss may leave; neither is inductive without what the holder of *)
(* the lock knows, and that is not without the lock and the types.         *)

Inv ==
  /\ TypeInv
  /\ LockHeld
  /\ \A p \in Procs : HolderInv(p)
  /\ HeadClosed
  /\ PromisedSurvives

\* The inductive invariant holds in an empty root ...
LEMMA InitInv == Init => Inv
<1> SUFFICES ASSUME Init PROVE Inv
  OBVIOUS
<1>1. TypeInv
  BY InitTypeOK DEF TypeInv, Init, Linked
<1>2. LockHeld
  BY DEF Init, LockHeld, Locked
<1>3. \A p \in Procs : HolderInv(p)
  BY HolderInvOutside DEF Init, Locked, Labels
<1>4. HeadClosed
  <2>1. Len(<< >>) = 0
    OBVIOUS
  <2>2. Ancestry(<< >>) = {} /\ Inventory(<< >>) = {}
    BY <2>1 DEF Ancestry, Inventory
  <2> QED
    BY <2>2 DEF Init, HeadClosed, Settled
<1> QED
  BY <1>1, <1>2, <1>3, <1>4 DEF Inv, Init, PromisedSurvives

\* The head that is renamed in has its whole ancestry and every object on
\* disk: the parent's because the parent was the head, its own because the
\* commit stored them first.
LEMMA HeadClosedStep ==
  ASSUME Inv, [Next]_vars
  PROVE  HeadClosed'
<1> USE DEF Inv
<1>1. objects.safe \subseteq objects'.safe /\ receipts.safe \subseteq receipts'.safe
  BY SafeGrows
<1>2. CASE head' = head
  BY <1>1, <1>2 DEF HeadClosed
<1>3. CASE head' = SyncCell(head) \/ PowerLoss
  <2>1. head'.disk \subseteq head.disk
    BY <1>3 DEF SyncCell, Settled, PowerLoss, AfterPowerLoss, TypeInv, TypeOK, CellOf
  <2> QED
    BY <1>1, <2>1 DEF HeadClosed
<1>4. ASSUME NEW p \in Procs, RenameHead(p) PROVE HeadClosed'
  <2>1. /\ op[p].parent \in Transactions /\ op[p].input \in Inputs
        /\ Target(p) = Append(op[p].parent, op[p].input)
    BY TargetType DEF TypeInv, Target
  <2>2. op[p].parent \in head.disk
    BY <1>4 DEF RenameHead, HolderInv, HeadKnown, Building, TypeInv, TypeOK, CellOf
  <2>3. Target(p) \in receipts.safe /\ Writes[op[p].input] \subseteq objects.safe
    BY <1>4 DEF RenameHead, HolderInv, Stored, Building, Promoting
  <2>4. Ancestry(Target(p)) \subseteq receipts.safe
    <3>1. Ancestry(op[p].parent) \subseteq receipts.safe
      BY <2>2 DEF HeadClosed
    <3>2. Ancestry(Target(p)) \subseteq Ancestry(op[p].parent) \cup {Target(p)}
      BY <2>1, AncestryOfAppend
    <3> QED
      BY <2>3, <3>1, <3>2
  <2>5. Inventory(Target(p)) \subseteq objects.safe
    BY <2>1, <2>2, <2>3, InventoryOfAppend DEF HeadClosed
  <2>6. head'.disk = head.disk \cup {Target(p)}
    BY <1>4 DEF RenameHead, Replace
  <2> QED
    BY <1>1, <2>4, <2>5, <2>6 DEF HeadClosed
<1> QED
  BY <1>2, <1>3, <1>4, HeadMoves

\* What was reported is a prefix of every head that may survive: the renamed
\* head extends one of them, and what is reported is the only one left.
LEMMA PromisedStep ==
  ASSUME Inv, [Next]_vars
  PROVE  PromisedSurvives'
<1> USE DEF Inv
<1>1. ASSUME NEW p \in Procs, Confirm(p) \/ Report(p) PROVE PromisedSurvives'
  <2>1. head.disk = {head.seen} /\ head' = head
    BY <1>1 DEF Confirm, Report, HolderInv, HeadSynced, disk
  <2>2. promised' \subseteq promised \cup {head.seen}
    BY <1>1 DEF Confirm, Report
  <2>3. IsPrefix(head.seen, head.seen)
    BY PrefixReflexive DEF TypeInv, TypeOK, CellOf
  <2> QED
    BY <2>1, <2>2, <2>3 DEF PromisedSurvives
<1>2. CASE promised' = promised
  <2>1. CASE head' = head
    BY <1>2, <2>1 DEF PromisedSurvives
  <2>2. CASE head' = SyncCell(head) \/ PowerLoss
    <3>1. head'.disk \subseteq head.disk
      BY <2>2 DEF SyncCell, Settled, PowerLoss, AfterPowerLoss, TypeInv, TypeOK, CellOf
    <3> QED
      BY <1>2, <3>1 DEF PromisedSurvives
  <2>3. ASSUME NEW p \in Procs, RenameHead(p) PROVE PromisedSurvives'
    <3>1. /\ op[p].parent \in Transactions /\ op[p].input \in Inputs
          /\ Target(p) = Append(op[p].parent, op[p].input)
      BY TargetType DEF TypeInv, Target
    <3>2. op[p].parent \in head.disk
      BY <2>3 DEF RenameHead, HolderInv, HeadKnown, Building, TypeInv, TypeOK, CellOf
    <3>3. \A t \in promised : t \in Transactions /\ IsPrefix(t, op[p].parent)
      BY <3>2 DEF PromisedSurvives, TypeInv, TypeOK
    <3>4. \A t \in promised : IsPrefix(t, Target(p))
      BY <3>1, <3>3, PrefixExtends
    <3>5. head'.disk = head.disk \cup {Target(p)}
      BY <2>3 DEF RenameHead, Replace
    <3> QED
      BY <1>2, <3>4, <3>5 DEF PromisedSurvives
  <2> QED
    BY <2>1, <2>2, <2>3, HeadMoves
<1> QED
  BY <1>1, <1>2, PromisesAre

\* ... is kept by every step of genesis, commit, reads, recovery and faults ...
LEMMA InvStep == Inv /\ [Next]_vars => Inv'
<1> SUFFICES ASSUME Inv, [Next]_vars PROVE Inv'
  OBVIOUS
<1>1. TypeInv'
  BY TypeStep DEF Inv
<1>2. LockHeld'
  BY LockStep DEF Inv, TypeInv
<1>3. \A p \in Procs : HolderInv(p)'
  BY <1>1, HolderStep DEF Inv
<1> QED
  BY <1>1, <1>2, <1>3, HeadClosedStep, PromisedStep DEF Inv

\* ... and so holds for ever.
LEMMA Invariance == Spec => []Inv
  BY InitInv, InvStep, PTL DEF Spec

\* Whatever head a power loss may leave, its ancestry and its objects are on
\* disk: recovery and reads never find a head that does not load.
THEOREM HeadClosedInvariant == Spec => []HeadClosed
<1>1. Inv => HeadClosed
  BY DEF Inv
<1> QED
  BY <1>1, Invariance, PTL

\* What commit, genesis or recover reported as accepted is never lost.
THEOREM PromisedSurvivesInvariant == Spec => []PromisedSurvives
<1>1. Inv => PromisedSurvives
  BY DEF Inv
<1> QED
  BY <1>1, Invariance, PTL

\* The comparison in cas_head never finds another head than the one that
\* was validated.
THEOREM CasNeverStaleInvariant == Spec => []CasNeverStale
<1>1. Inv => CasNeverStale
  BY DEF Inv, HolderInv, HeadKnown, Building, CasNeverStale
<1> QED
  BY <1>1, Invariance, PTL

\* Recovery never removes a stage file that a running commit still needs.
THEOREM StagesIntactInvariant == Spec => []StagesIntact
<1>1. Inv => StagesIntact
  BY DEF Inv, HolderInv, StageKept, StagesIntact
<1> QED
  BY <1>1, Invariance, PTL

\* A recovery that reports has left no stage file behind and a head that is
\* certain to survive.
THEOREM RecoveryIsFinalInvariant == Spec => []RecoveryIsFinal
<1>1. Inv => RecoveryIsFinal
  <2> SUFFICES ASSUME Inv, NEW p \in Procs, pc[p] = "report"
               PROVE  /\ stages = {} /\ limbo = {}
                      /\ objects.safe = objects.seen /\ receipts.safe = receipts.seen
                      /\ head.disk = {head.seen}
    BY DEF RecoveryIsFinal
  <2>1. \A x \in stages \cup limbo : x[1] \notin StageKinds /\ x[1] \in StageKinds
    BY DEF Inv, HolderInv, Swept, SweptKinds, TypeInv, TypeOK
  <2> QED
    BY <2>1 DEF Inv, HolderInv, HeadSynced, Swept
<1> QED
  BY <1>1, Invariance, PTL
-----------------------------------------------------------------------------
(* Refinement.                                                             *)

\* Every behaviour of the repository is one of the abstract history: a
\* rename accepts one transaction on the current one, a sync of the head's
\* directory settles it, a report promises it, and nothing else is visible.
THEOREM Refinement == Spec => RefinesHistory
<1>1. Init => History!Init
  BY DEF Init, History!Init, Settled
<1>2. Inv /\ [Next]_vars => [History!Next]_(History!absvars)
  <2> SUFFICES ASSUME Inv, [Next]_vars PROVE [History!Next]_(History!absvars)
    OBVIOUS
  <2> USE DEF Inv
  <2>1. ASSUME NEW p \in Procs, RenameHead(p) PROVE History!Next
    <3>1. op[p].input \in Inputs /\ head.seen = op[p].parent
      BY <2>1, TargetType DEF RenameHead, HolderInv, HeadKnown, Building, TypeInv
    <3>2. History!Accept(op[p].input)
      BY <2>1, <3>1 DEF RenameHead, Replace, Target, History!Accept
    <3> QED
      BY <3>1, <3>2 DEF History!Next
  <2>2. CASE head' = SyncCell(head) /\ promised' = promised
    BY <2>2 DEF SyncCell, Settled, History!Settle, History!Next
  <2>3. CASE PowerLoss
    BY <2>3 DEF PowerLoss, AfterPowerLoss, Settled, History!PowerLoss, History!Next
  <2>4. CASE head' = head
    <3>1. CASE promised' = promised
      BY <2>4, <3>1 DEF History!absvars
    <3>2. ASSUME NEW p \in Procs, Confirm(p) \/ Report(p)
          PROVE  [History!Next]_(History!absvars)
      <4>1. head.disk = {head.seen}
        BY <3>2 DEF Confirm, Report, HolderInv, HeadSynced
      <4>2. promised' = promised \/ promised' = promised \cup {head.seen}
        BY <3>2 DEF Confirm, Report
      <4> QED
        BY <2>4, <4>1, <4>2 DEF History!Promise, History!Next, History!absvars
    <3> QED
      BY <3>1, <3>2, PromisesAre
  <2> QED
    BY <2>1, <2>2, <2>3, <2>4, HeadMoves
<1> QED
  BY <1>1, <1>2, Invariance, PTL DEF Spec, RefinesHistory, History!Spec
=============================================================================
