-------------------------- MODULE BranchRefs_proofs --------------------------
(***************************************************************************)
(* Proofs about BranchRefs, for any number of processes and branch names,  *)
(* any set of transactions that has the parents of its members, and any    *)
(* limits.                                                                 *)
(***************************************************************************)
EXTENDS BranchRefs, SequenceTheorems, TLAPS
-----------------------------------------------------------------------------
(* Transactions and their ancestry.                                        *)

\* A transaction is a non-empty sequence of inputs, and never "no target".
LEMMA TransactionType ==
  ASSUME NEW t \in Transactions
  PROVE  t \in Seq(Inputs) /\ Len(t) \in Nat \ {0} /\ t # Absent
  BY BranchAssumption DEF Absent

\* The prefixes of a sequence, element by element.
LEMMA PrefixPointwise ==
  ASSUME NEW s \in Transactions, NEW t \in Transactions
  PROVE  IsPrefix(s, t) <=> Len(s) <= Len(t) /\ \A k \in 1 .. Len(s) : s[k] = t[k]
<1>0. s \in Seq(Inputs) /\ t \in Seq(Inputs) /\ Len(s) \in Nat /\ Len(t) \in Nat
  BY TransactionType
<1>1. /\ SubSeq(s, 1, Len(s)) \in Seq(Inputs) /\ Len(SubSeq(s, 1, Len(s))) = Len(s)
      /\ \A k \in 1 .. Len(s) : SubSeq(s, 1, Len(s))[k] = s[k]
  BY <1>0, SubSeqProperties, SMT
<1>2. ASSUME Len(s) <= Len(t)
      PROVE  /\ SubSeq(t, 1, Len(s)) \in Seq(Inputs) /\ Len(SubSeq(t, 1, Len(s))) = Len(s)
             /\ \A k \in 1 .. Len(s) : SubSeq(t, 1, Len(s))[k] = t[k]
  BY <1>0, <1>2, SubSeqProperties, SMT
<1>3. ASSUME Len(s) <= Len(t), \A k \in 1 .. Len(s) : s[k] = t[k]
      PROVE  SubSeq(s, 1, Len(s)) = SubSeq(t, 1, Len(s))
  BY <1>0, <1>1, <1>2, <1>3, SeqEqual, SMT
<1>4. ASSUME Len(s) <= Len(t), SubSeq(s, 1, Len(s)) = SubSeq(t, 1, Len(s))
      PROVE  \A k \in 1 .. Len(s) : s[k] = t[k]
  BY <1>0, <1>1, <1>2, <1>4, SMT
<1> QED
  BY <1>3, <1>4 DEF IsPrefix

\* Every history extends itself.
LEMMA PrefixReflexive == \A t \in Transactions : IsPrefix(t, t)
  BY PrefixPointwise, TransactionType, SMT

\* Two histories that one history extends lie on one line.
LEMMA PrefixesCompare ==
  ASSUME NEW s \in Transactions, NEW t \in Transactions, NEW u \in Transactions,
         IsPrefix(s, u), IsPrefix(t, u)
  PROVE  IsPrefix(s, t) \/ IsPrefix(t, s)
  BY PrefixPointwise, TransactionType, SMT

\* The direct parent.
LEMMA FrontOf ==
  ASSUME NEW t \in Transactions, Len(t) > 1
  PROVE  /\ Front(t) \in Transactions /\ Len(Front(t)) = Len(t) - 1
         /\ \A k \in 1 .. Len(t) - 1 : Front(t)[k] = t[k]
<1>1. Front(t) \in Transactions
  BY BranchAssumption
<1>2. /\ Len(SubSeq(t, 1, Len(t) - 1)) = Len(t) - 1
      /\ \A k \in 1 .. Len(t) - 1 : SubSeq(t, 1, Len(t) - 1)[k] = t[k]
  BY TransactionType, SubSeqProperties, SMT
<1> QED
  BY <1>1, <1>2 DEF Front

\* What the parent extends its child extends, and what is in the ancestry of
\* the parent is in that of its child.
LEMMA ChildExtends ==
  ASSUME NEW s \in Transactions, NEW t \in Transactions, Len(t) > 1, IsPrefix(s, Front(t))
  PROVE  IsPrefix(s, t)
<1>1. /\ Front(t) \in Transactions /\ Len(Front(t)) = Len(t) - 1
      /\ \A k \in 1 .. Len(t) - 1 : Front(t)[k] = t[k]
      /\ Len(s) \in Nat /\ Len(t) \in Nat
  BY FrontOf, TransactionType
<1>2. Len(s) <= Len(t) - 1 /\ \A k \in 1 .. Len(s) : s[k] = Front(t)[k]
  BY <1>1, PrefixPointwise
<1>3. Len(s) <= Len(t) /\ \A k \in 1 .. Len(s) : s[k] = t[k]
  BY <1>1, <1>2
<1> QED
  BY <1>3, PrefixPointwise

\* The ancestors of the parent are ancestors of the child.
LEMMA ChildAncestry ==
  ASSUME NEW t \in Transactions, Len(t) > 1, NEW a \in Ancestry(Front(t))
  PROVE  a \in Ancestry(t)
<1>0. /\ Front(t) \in Seq(Inputs) /\ t \in Seq(Inputs) /\ Len(t) \in Nat
      /\ Len(Front(t)) = Len(t) - 1 /\ \A k \in 1 .. Len(t) - 1 : Front(t)[k] = t[k]
  BY FrontOf, TransactionType
<1>1. PICK i \in 1 .. Len(Front(t)) : a = SubSeq(Front(t), 1, i)
  BY DEF Ancestry
<1>2. /\ SubSeq(t, 1, i) \in Seq(Inputs) /\ Len(SubSeq(t, 1, i)) = i
      /\ \A k \in 1 .. i : SubSeq(t, 1, i)[k] = t[k]
  BY <1>0, SubSeqProperties, SMT
<1>3. /\ SubSeq(Front(t), 1, i) \in Seq(Inputs) /\ Len(SubSeq(Front(t), 1, i)) = i
      /\ \A k \in 1 .. i : SubSeq(Front(t), 1, i)[k] = Front(t)[k]
  BY <1>0, SubSeqProperties, SMT
<1>4. SubSeq(Front(t), 1, i) = SubSeq(t, 1, i)
  BY <1>0, <1>2, <1>3, SeqEqual, SMT
<1>5. i \in 1 .. Len(t)
  BY <1>0
<1> QED
  BY <1>1, <1>4, <1>5 DEF Ancestry

\* Every transaction is in its own ancestry.
LEMMA SelfAncestor == \A t \in Transactions : t \in Ancestry(t)
<1> TAKE t \in Transactions
<1>1. SubSeq(t, 1, Len(t)) = t /\ Len(t) \in 1 .. Len(t)
  BY TransactionType, SubSeqFull
<1> QED
  BY <1>1 DEF Ancestry
-----------------------------------------------------------------------------
(* The inductive invariant.                                                *)

\* The labels between taking the refs lock and releasing it.
Locked == Labels \ {"idle", "maintenance", "lock"}

\* One branch: a ref that may be found has its origin, certain to be found
\* too, and no ref that may be found is ahead of the one that is seen.
NameInv(n) ==
  \A r \in ref[n].disk \ {Absent} :
    /\ origin[n].disk = {OriginOf(r)} /\ OriginOf(r) \in Ancestry(HeadOf(r))
    /\ ref[n].seen # Absent /\ IsPrefix(HeadOf(r), HeadOf(ref[n].seen))

\* One branch state that a caller was told of.
ToldInv(b) ==
  /\ origin[b.name].disk = {b.origin}
  /\ \A r \in ref[b.name].disk : r # Absent /\ IsPrefix(b.head, HeadOf(r))

\* What a create knows of its branch between its check and its link ...
Creating(p) ==
  /\ pc[p] \in {"linkOrigin", "syncOrigin", "unlinkOrigin"} => op[p].kind = "create"
  /\ pc[p] = "linkOrigin" => origin[op[p].name].seen = Absent
  /\ pc[p] = "syncOrigin" => origin[op[p].name].seen = op[p].target
  /\ pc[p] \in {"unlinkOrigin", "stageRef", "placeRef"} /\ op[p].kind = "create" =>
       origin[op[p].name].disk = {op[p].target}
  /\ pc[p] \in {"linkOrigin", "syncOrigin", "unlinkOrigin", "stageRef", "placeRef"}
       /\ op[p].kind = "create" => ref[op[p].name].seen = Absent

\* ... and an advance between its check and its rename ...
Advancing(p) ==
  pc[p] \in {"stageRef", "placeRef"} /\ op[p].kind = "advance" =>
    /\ ref[op[p].name].seen # Absent /\ HeadOf(ref[op[p].name].seen) = op[p].expected
    /\ Len(op[p].target) > 1 /\ Front(op[p].target) = op[p].expected

\* ... and either before it tells its caller.
Telling(p) ==
  /\ pc[p] = "redurabilizeRef" =>
       /\ ref[op[p].name].seen # Absent /\ HeadOf(ref[op[p].name].seen) = op[p].target
       /\ origin[op[p].name].disk = {origin[op[p].name].seen}
  /\ pc[p] = "resolve" => ref[op[p].name].disk = {ref[op[p].name].seen}

\* Recovery is done with the origins, and then with the refs.
Sweeping(p) ==
  /\ pc[p] \in {"sweepRef", "report"} =>
       /\ \A s \in stages \cup limbo : s[1] # "branch"
       /\ \A n \in Names : origin[n].disk = {origin[n].seen}
  /\ pc[p] = "report" =>
       /\ \A s \in stages \cup limbo : s[1] # "ref"
       /\ \A n \in Names : ref[n].disk = {ref[n].seen}

HolderInv(p) == Creating(p) /\ Advancing(p) /\ Telling(p) /\ Sweeping(p)

\* Only creates and advances write, and they name a transaction.
OpInv(p) ==
  /\ op[p].kind \in {"create", "advance"} => op[p].target \in Transactions
  /\ pc[p] \in {"stageRef", "placeRef", "syncRef", "resolve", "redurabilizeRef"} =>
       op[p].kind \in {"create", "advance"}

Inv ==
  /\ TypeOK
  /\ \A n \in Names : NameInv(n)
  /\ \A b \in told : ToldInv(b)
  /\ \A p \in Procs : OpInv(p) /\ HolderInv(p)

\* The operation that an idle process is left with.
LEMMA NoOperationType == NoOperation \in Operations /\ NoOperation.kind = "read"
<1>1. (CHOOSE n \in Names : TRUE) \in Names
  BY BranchAssumption
<1> QED
  BY <1>1 DEF NoOperation, Operations, Targets

\* A repository without branches.
LEMMA InitInv == Init => Inv
<1> SUFFICES ASSUME Init PROVE Inv
  OBVIOUS
<1>1. Settled(Absent) \in CellOf(Targets) /\ Settled(Absent) \in CellOf(Refs)
  BY DEF Settled, CellOf, Targets, Refs
<1>2. TypeOK
  <2>1. origin \in [Names -> CellOf(Targets)] /\ ref \in [Names -> CellOf(Refs)]
    BY <1>1 DEF Init
  <2>2. receipts \in [seen : SUBSET Transactions, safe : SUBSET Transactions]
          /\ receipts.safe \subseteq receipts.seen
    BY DEF Init, EmptyShelf
  <2> QED
    BY <2>1, <2>2, NoOperationType DEF Init, TypeOK, Labels
<1>3. \A n \in Names : ref[n].disk \ {Absent} = {}
  BY DEF Init, Settled
<1>4. \A p \in Procs : pc[p] = "idle" /\ op[p].kind = "read"
  BY NoOperationType DEF Init
<1> QED
  BY <1>2, <1>3, <1>4 DEF Init, Inv, NameInv, OpInv, HolderInv, Creating, Advancing, Telling, Sweeping
-----------------------------------------------------------------------------
(* The records.                                                            *)

\* The parts of a ref record.
LEMMA RefParts ==
  ASSUME NEW r \in Refs, r # Absent
  PROVE  OriginOf(r) \in Transactions /\ HeadOf(r) \in Transactions
  BY DEF Refs, OriginOf, HeadOf

\* The two records of a name are cells, and what they hold fits together.
LEMMA RecordType ==
  ASSUME Inv, NEW n \in Names
  PROVE  /\ origin[n].seen \in Targets /\ origin[n].disk \subseteq Targets
         /\ origin[n].seen \in origin[n].disk
         /\ ref[n].seen \in Refs /\ ref[n].disk \subseteq Refs /\ ref[n].seen \in ref[n].disk
         /\ origin[n] \in CellOf(Targets) /\ ref[n] \in CellOf(Refs) /\ NameInv(n)
  BY DEF Inv, TypeOK, CellOf

\* Syncing a record takes away what else might have been found.
LEMMA SyncedRecord ==
  ASSUME NEW V, NEW c \in CellOf(V)
  PROVE  /\ SyncCell(c) \in CellOf(V) /\ SyncCell(c).seen = c.seen
         /\ SyncCell(c).disk = {c.seen} /\ SyncCell(c).disk \subseteq c.disk
  BY DEF SyncCell, Settled, CellOf

\* What a step that changes no record, or only syncs records, keeps.
LEMMA SyncKeepsName ==
  ASSUME Inv, NEW n \in Names,
         origin'[n] = origin[n] \/ origin'[n] = SyncCell(origin[n]),
         ref'[n] = ref[n] \/ ref'[n] = SyncCell(ref[n])
  PROVE  /\ origin'[n] \in CellOf(Targets) /\ ref'[n] \in CellOf(Refs)
         /\ NameInv(n)'
         /\ \A b \in told : b.name = n => ToldInv(b)'
<1>1. /\ origin'[n] \in CellOf(Targets) /\ origin'[n].seen = origin[n].seen
      /\ origin'[n].disk \subseteq origin[n].disk /\ origin'[n].seen \in origin'[n].disk
  BY RecordType, SyncedRecord DEF CellOf
<1>2. /\ ref'[n] \in CellOf(Refs) /\ ref'[n].seen = ref[n].seen
      /\ ref'[n].disk \subseteq ref[n].disk
  BY RecordType, SyncedRecord
<1>3. \A v : origin[n].disk = {v} => origin'[n].disk = {v}
  BY <1>1
<1>4. NameInv(n)'
  BY <1>2, <1>3, RecordType DEF NameInv
<1>5. \A b \in told : b.name = n => ToldInv(b)'
  BY <1>2, <1>3 DEF Inv, ToldInv
<1> QED
  BY <1>1, <1>2, <1>4, <1>5

\* What the steps leave of the records, and of what callers were told.
Kept ==
  /\ origin' \in [Names -> CellOf(Targets)] /\ ref' \in [Names -> CellOf(Refs)]
  /\ \A n \in Names : NameInv(n)'
  /\ \A b \in told : ToldInv(b)'

\* Syncing records loses no answer that was given.
LEMMA SyncKeeps ==
  ASSUME Inv, origin' = [n \in Names |-> origin'[n]], ref' = [n \in Names |-> ref'[n]],
         \A n \in Names : /\ origin'[n] = origin[n] \/ origin'[n] = SyncCell(origin[n])
                          /\ ref'[n] = ref[n] \/ ref'[n] = SyncCell(ref[n])
  PROVE  Kept
<1>1. \A b \in told : b.name \in Names
  BY DEF Inv, TypeOK
<1> QED
  BY <1>1, SyncKeepsName DEF Kept

\* A step that changes one record of one branch.
LEMMA OneNameKeeps ==
  ASSUME Inv, NEW n \in Names,
         origin' \in [Names -> CellOf(Targets)], ref' \in [Names -> CellOf(Refs)],
         \A m \in Names \ {n} : origin'[m] = origin[m] /\ ref'[m] = ref[m],
         NameInv(n)', \A b \in told : b.name = n => ToldInv(b)'
  PROVE  Kept
<1>1. \A b \in told : b.name \in Names
  BY DEF Inv, TypeOK
<1> QED
  BY <1>1, SyncKeepsName DEF Kept

\* The origin of a branch that has no ref.
LEMMA LinkOriginKeeps ==
  ASSUME Inv, NEW p \in Procs, LinkOrigin(p)
  PROVE  Kept
<1>0. PICK n \in Names : n = op[p].name
  BY DEF Inv, TypeOK, Operations
<1>1. /\ n \in Names /\ op[p].target \in Transactions /\ ref[n].seen = Absent
  BY <1>0 DEF LinkOrigin, Inv, TypeOK, Operations, OpInv, HolderInv, Creating
<1>2. origin' = [origin EXCEPT ![n] = Replace(@, op[p].target)] /\ ref' = ref /\ pc[p] = "linkOrigin"
  BY <1>0 DEF LinkOrigin
<1>3. Replace(origin[n], op[p].target) \in CellOf(Targets)
  BY <1>1, RecordType DEF Replace, CellOf, Targets
<1>4. /\ origin' \in [Names -> CellOf(Targets)] /\ ref' \in [Names -> CellOf(Refs)]
      /\ \A m \in Names \ {n} : origin'[m] = origin[m] /\ ref'[m] = ref[m]
  BY <1>1, <1>2, <1>3 DEF Inv, TypeOK
<1>5. ref[n].disk = {Absent}
  BY <1>1, RecordType DEF NameInv
<1>6. NameInv(n)'
  BY <1>2, <1>5 DEF NameInv
<1>7. \A b \in told : b.name # n
  BY <1>5 DEF Inv, ToldInv
<1> QED
  BY <1>1, <1>4, <1>6, <1>7, OneNameKeeps

\* The ref of a new branch, whose origin is durable.
LEMMA LinkRefKeeps ==
  ASSUME Inv, NEW p \in Procs, LinkRef(p)
  PROVE  Kept
<1>0. PICK n \in Names : n = op[p].name
  BY DEF Inv, TypeOK, Operations
<1> DEFINE t == op[p].target
<1>1. /\ n \in Names /\ t \in Transactions /\ ref[n].seen = Absent /\ origin[n].disk = {t}
  BY <1>0 DEF LinkRef, Inv, TypeOK, Operations, OpInv, HolderInv, Creating
<1>2. ref' = [ref EXCEPT ![n] = Replace(@, <<t, t>>)] /\ origin' = origin
  BY <1>0 DEF LinkRef
<1>3. ref[n].disk = {Absent}
  BY <1>1, RecordType DEF NameInv
<1>4. Replace(ref[n], <<t, t>>) \in CellOf(Refs)
  BY <1>1, RecordType DEF Replace, CellOf, Refs
<1>5. /\ origin' \in [Names -> CellOf(Targets)] /\ ref' \in [Names -> CellOf(Refs)]
      /\ \A m \in Names \ {n} : origin'[m] = origin[m] /\ ref'[m] = ref[m]
  BY <1>1, <1>2, <1>4 DEF Inv, TypeOK
<1>6. ref'[n].seen = <<t, t>> /\ ref'[n].disk = {Absent, <<t, t>>}
  BY <1>1, <1>2, <1>3 DEF Replace, Inv, TypeOK
<1>7. <<t, t>> # Absent /\ OriginOf(<<t, t>>) = t /\ HeadOf(<<t, t>>) = t
  BY DEF Absent, OriginOf, HeadOf
<1>8. NameInv(n)'
  BY <1>1, <1>2, <1>6, <1>7, SelfAncestor, PrefixReflexive DEF NameInv
<1>9. \A b \in told : b.name # n
  BY <1>3 DEF Inv, ToldInv
<1> QED
  BY <1>1, <1>5, <1>8, <1>9, OneNameKeeps

\* The ref of a branch that moves to a child of its head.
LEMMA RenameRefKeeps ==
  ASSUME Inv, NEW p \in Procs, RenameRef(p)
  PROVE  Kept
<1>0. PICK n \in Names : n = op[p].name
  BY DEF Inv, TypeOK, Operations
<1> DEFINE t == op[p].target
           old == ref[n].seen
           new == <<OriginOf(old), t>>
<1>1. /\ n \in Names /\ t \in Transactions /\ old # Absent
      /\ Len(t) > 1 /\ Front(t) = HeadOf(old)
  BY <1>0 DEF RenameRef, Inv, TypeOK, Operations, OpInv, HolderInv, Advancing
<1>2. ref' = [ref EXCEPT ![n] = Replace(@, new)] /\ origin' = origin
  BY <1>0 DEF RenameRef
<1>3. old \in Refs /\ old \in ref[n].disk /\ ref[n].disk \subseteq Refs
  BY <1>1, RecordType
<1>4. OriginOf(old) \in Transactions /\ new \in Refs /\ new # Absent
  BY <1>1, <1>3, RefParts DEF Refs, Absent
<1>5. OriginOf(new) = OriginOf(old) /\ HeadOf(new) = t
  BY DEF OriginOf, HeadOf
<1> HIDE DEF t, old, new
<1>6. Replace(ref[n], new) \in CellOf(Refs)
  BY <1>1, <1>4, RecordType DEF Replace, CellOf
<1>7. /\ origin' \in [Names -> CellOf(Targets)] /\ ref' \in [Names -> CellOf(Refs)]
      /\ \A m \in Names \ {n} : origin'[m] = origin[m] /\ ref'[m] = ref[m]
  BY <1>1, <1>2, <1>6 DEF Inv, TypeOK
<1>8. ref'[n].seen = new /\ ref'[n].disk = ref[n].disk \cup {new}
  BY <1>1, <1>2 DEF Replace, Inv, TypeOK
<1>9. origin[n].disk = {OriginOf(old)} /\ OriginOf(old) \in Ancestry(HeadOf(old))
  BY <1>1, <1>3, RecordType DEF NameInv
<1>10. \A r \in ref[n].disk \ {Absent} : IsPrefix(HeadOf(r), t)
  <2> TAKE r \in ref[n].disk \ {Absent}
  <2>1. IsPrefix(HeadOf(r), HeadOf(old)) /\ HeadOf(r) \in Transactions
    BY <1>1, <1>3, RecordType, RefParts DEF NameInv, old
  <2> QED
    BY <1>1, <2>1, ChildExtends
<1>11. NameInv(n)'
  <2> SUFFICES ASSUME NEW r \in ref'[n].disk \ {Absent}
               PROVE  /\ origin[n].disk = {OriginOf(r)} /\ OriginOf(r) \in Ancestry(HeadOf(r))
                      /\ IsPrefix(HeadOf(r), HeadOf(new))
    BY <1>2, <1>4, <1>8 DEF NameInv
  <2>1. CASE r = new
    BY <1>1, <1>5, <1>9, <2>1, ChildAncestry, PrefixReflexive
  <2>2. CASE r \in ref[n].disk
    BY <1>1, <1>5, <1>10, <2>2, RecordType DEF NameInv
  <2> QED
    BY <1>8, <2>1, <2>2
<1>12. \A b \in told : b.name = n => ToldInv(b)'
  <2> SUFFICES ASSUME NEW b \in told, b.name = n PROVE ToldInv(b)'
    OBVIOUS
  <2>1. /\ origin[n].disk = {b.origin} /\ IsPrefix(b.head, HeadOf(old)) /\ b.head \in Targets
        /\ \A r \in ref[n].disk : r # Absent /\ IsPrefix(b.head, HeadOf(r))
    BY <1>1, <1>3 DEF Inv, ToldInv, TypeOK
  <2>2. IsPrefix(b.head, t)
    <3>1. CASE b.head \in Transactions
      BY <1>1, <2>1, <3>1, ChildExtends
    <3>2. CASE b.head = Absent
      <4>1. t \in Seq(Inputs) /\ Len(t) \in Nat /\ Len(Absent) = 0
        BY <1>1, TransactionType DEF Absent
      <4>2. SubSeq(Absent, 1, 0) = << >> /\ SubSeq(t, 1, 0) = << >>
        BY SubSeqEmpty
      <4> QED
        BY <3>2, <4>1, <4>2 DEF IsPrefix
    <3> QED
      BY <2>1, <3>1, <3>2 DEF Targets
  <2> QED
    BY <1>2, <1>4, <1>5, <1>8, <2>1, <2>2 DEF ToldInv
<1> QED
  BY <1>1, <1>7, <1>11, <1>12, OneNameKeeps

\* What a power loss leaves of the records.
LEMMA PowerLossKeeps ==
  ASSUME Inv, PowerLoss
  PROVE  Kept
<1>1. ASSUME NEW records, NEW V, records \in [Names -> CellOf(V)],
             NEW left \in RecordsAfterPowerLoss(records)
      PROVE  /\ left \in [Names -> CellOf(V)]
             /\ \A n \in Names : \E v \in records[n].disk : left[n] = Settled(v)
  <2>1. PICK c : /\ left = [n \in Names |-> Settled(c[n])]
                 /\ \A n \in Names : c[n] \in records[n].disk
    BY <1>1 DEF RecordsAfterPowerLoss
  <2>2. \A n \in Names : c[n] \in V
    BY <1>1, <2>1 DEF CellOf
  <2>3. \A v \in V : Settled(v) \in CellOf(V)
    BY DEF Settled, CellOf
  <2> QED
    BY <2>1, <2>2, <2>3
<1>2. /\ origin' \in [Names -> CellOf(Targets)]
      /\ \A n \in Names : \E v \in origin[n].disk : origin'[n] = Settled(v)
  BY <1>1 DEF PowerLoss, Inv, TypeOK
<1>3. /\ ref' \in [Names -> CellOf(Refs)]
      /\ \A n \in Names : \E v \in ref[n].disk : ref'[n] = Settled(v)
  BY <1>1 DEF PowerLoss, Inv, TypeOK
<1>4. ASSUME NEW n \in Names
      PROVE  /\ ref'[n].disk = {ref'[n].seen} /\ ref'[n].seen \in ref[n].disk
             /\ \A v : origin[n].disk = {v} => origin'[n].disk = {v}
  BY <1>2, <1>3 DEF Settled
<1>5. ASSUME NEW n \in Names PROVE NameInv(n)'
  <2> SUFFICES ASSUME NEW r \in ref'[n].disk \ {Absent}
               PROVE  /\ origin'[n].disk = {OriginOf(r)} /\ OriginOf(r) \in Ancestry(HeadOf(r))
                      /\ ref'[n].seen # Absent /\ IsPrefix(HeadOf(r), HeadOf(ref'[n].seen))
    BY DEF NameInv
  <2>1. r = ref'[n].seen /\ r \in ref[n].disk /\ r \in Refs
    BY <1>4, RecordType
  <2>2. origin'[n].disk = {OriginOf(r)} /\ OriginOf(r) \in Ancestry(HeadOf(r))
    BY <1>4, <2>1, RecordType DEF NameInv
  <2> QED
    BY <2>1, <2>2, RefParts, PrefixReflexive
<1>6. ASSUME NEW b \in told PROVE ToldInv(b)'
  <2>1. b.name \in Names /\ ToldInv(b)
    BY DEF Inv, TypeOK
  <2> QED
    BY <1>4, <2>1 DEF ToldInv
<1> QED
  BY <1>2, <1>3, <1>5, <1>6 DEF Kept
-----------------------------------------------------------------------------
(* The refs lock.                                                          *)

\* A step that is taken under the lock.
LockedStep(p) ==
  \/ EndCheck(p) \/ CreateFresh(p) \/ LinkOrigin(p) \/ SyncOrigin(p) \/ UnlinkOriginStage(p)
  \/ FinishOrphan(p) \/ Redurabilize(p) \/ RedurabilizeRef(p) \/ CheckAdvance(p)
  \/ StageRef(p) \/ LinkRef(p) \/ RenameRef(p) \/ SyncRef(p) \/ ReturnBranch(p)
  \/ PlanRecovery(p) \/ RefuseRecovery(p) \/ (\E s \in stages : RemoveStage(p, s))
  \/ SyncOrigins(p) \/ SyncRefs(p) \/ Report(p)

\* Such a step keeps the lock or gives it back, and leaves the others alone.
LEMMA LockedStepLocal ==
  ASSUME TypeOK, NEW p \in Procs, LockedStep(p)
  PROVE  /\ pc[p] \in Locked /\ lock = p
         /\ \A q \in Procs \ {p} : pc'[q] = pc[q] /\ op'[q] = op[q]
         /\ \/ Release(p)
            \/ /\ pc'[p] \in Locked /\ pc' \in [Procs -> Labels]
               /\ lock' = lock /\ op' = op /\ maintenance' = maintenance
<1>1. CASE EndCheck(p) \/ RedurabilizeRef(p) \/ ReturnBranch(p) \/ RefuseRecovery(p) \/ Report(p)
  <2>1. pc[p] \in Locked /\ Release(p)
    BY <1>1 DEF EndCheck, RedurabilizeRef, ReturnBranch, RefuseRecovery, Report, Tell, Locked, Labels
  <2>2. \A q \in Procs \ {p} : pc'[q] = pc[q] /\ op'[q] = op[q]
    BY <2>1 DEF Release, Goto, TypeOK
  <2> QED
    BY <2>1, <2>2 DEF TypeOK, Locked
<1>2. ASSUME NEW s \in stages, RemoveStage(p, s)
      PROVE  pc[p] \in Locked /\ pc' = pc /\ lock' = lock /\ op' = op /\ maintenance' = maintenance
  BY <1>2 DEF RemoveStage, SweepLabel, Locked, Labels
<1>3. CASE \/ CreateFresh(p) \/ LinkOrigin(p) \/ SyncOrigin(p) \/ UnlinkOriginStage(p)
           \/ FinishOrphan(p) \/ Redurabilize(p) \/ CheckAdvance(p)
           \/ StageRef(p) \/ LinkRef(p) \/ RenameRef(p) \/ SyncRef(p)
           \/ PlanRecovery(p) \/ SyncOrigins(p) \/ SyncRefs(p)
  <2>1. /\ pc[p] \in Locked /\ lock' = lock /\ op' = op /\ maintenance' = maintenance
        /\ \E l \in Locked : Goto(p, l)
    BY <1>3 DEF CreateFresh, LinkOrigin, SyncOrigin, UnlinkOriginStage, FinishOrphan, Redurabilize,
      CheckAdvance, StageRef, LinkRef, RenameRef, SyncRef, PlanRecovery, SyncOrigins, SyncRefs,
      Locked, Labels
  <2> QED
    BY <2>1 DEF Goto, TypeOK, Locked
<1> QED
  BY <1>1, <1>2, <1>3 DEF LockedStep, TypeOK, Locked

\* The records after such a step.
LEMMA RecordsStep ==
  ASSUME Inv, NEW p \in Procs, LockedStep(p)
  PROVE  Kept
<1>0. origin \in [Names -> CellOf(Targets)] /\ ref \in [Names -> CellOf(Refs)] /\ op[p].name \in Names
  BY DEF Inv, TypeOK, Operations
<1>1. CASE UNCHANGED <<origin, ref>>
  BY <1>0, <1>1, SyncKeeps
<1>2. CASE SyncOrigin(p) \/ FinishOrphan(p) \/ Redurabilize(p)
  <2>1. ref' = ref /\ origin' = [origin EXCEPT ![op[p].name] = SyncCell(@)]
    BY <1>2 DEF SyncOrigin, FinishOrphan, Redurabilize
  <2> QED
    BY <1>0, <2>1, SyncKeeps
<1>3. CASE RedurabilizeRef(p) \/ SyncRef(p)
  <2>1. origin' = origin /\ ref' = [ref EXCEPT ![op[p].name] = SyncCell(@)]
    BY <1>3 DEF RedurabilizeRef, SyncRef
  <2> QED
    BY <1>0, <2>1, SyncKeeps
<1>4. CASE SyncOrigins(p) \/ SyncRefs(p)
  <2>1. \/ ref' = ref /\ origin' = [n \in Names |-> SyncCell(origin[n])]
        \/ origin' = origin /\ ref' = [n \in Names |-> SyncCell(ref[n])]
    BY <1>4 DEF SyncOrigins, SyncRefs
  <2> QED
    BY <1>0, <2>1, SyncKeeps
<1> QED
  BY <1>1, <1>2, <1>3, <1>4, LinkOriginKeeps, LinkRefKeeps, RenameRefKeeps
  DEF LockedStep, EndCheck, CreateFresh, UnlinkOriginStage, CheckAdvance, StageRef, ReturnBranch,
    PlanRecovery, RefuseRecovery, RemoveStage, Report, disk

\* What a caller is told is durable when it is told.
LEMMA ToldStep ==
  ASSUME Inv, NEW p \in Procs, LockedStep(p)
  PROVE  /\ told' \subseteq [name : Names, origin : Targets, head : Targets]
         /\ \A b \in told' : ToldInv(b)'
<1>0. /\ told \subseteq [name : Names, origin : Targets, head : Targets]
      /\ \A b \in told : ToldInv(b)'
  BY RecordsStep DEF Kept, Inv, TypeOK
<1>1. CASE told' = told
  BY <1>0, <1>1
<1>2. CASE RedurabilizeRef(p) \/ ReturnBranch(p)
  <2>0. PICK n \in Names, t \in Transactions : n = op[p].name /\ t = op[p].target
    BY <1>2 DEF RedurabilizeRef, ReturnBranch, Inv, TypeOK, OpInv, Operations
  <2> DEFINE new == [name |-> n, origin |-> origin[n].seen, head |-> t]
  <2>1. told' = told \cup {new} /\ origin' = origin
    BY <1>2, <2>0 DEF RedurabilizeRef, ReturnBranch, Tell
  <2>2. /\ ref[n].seen # Absent /\ HeadOf(ref[n].seen) = t /\ ref'[n].disk = {ref[n].seen}
    <3>1. CASE RedurabilizeRef(p)
      BY <2>0, <3>1, RecordType, SyncedRecord
      DEF RedurabilizeRef, Inv, TypeOK, HolderInv, Telling
    <3>2. CASE ReturnBranch(p)
      BY <2>0, <3>2 DEF ReturnBranch, Resolves, Inv, HolderInv, Telling
    <3> QED
      BY <1>2, <3>1, <3>2
  <2>3. origin[n].disk = {origin[n].seen}
    BY <2>2, RecordType DEF NameInv
  <2>4. origin[n].seen \in Targets /\ t \in Targets /\ IsPrefix(t, t)
    BY RecordType, PrefixReflexive DEF Targets
  <2>5. PICK b : b = new
    OBVIOUS
  <2>6. ToldInv(b)' /\ b \in [name : Names, origin : Targets, head : Targets]
    BY <2>1, <2>2, <2>3, <2>4, <2>5 DEF ToldInv
  <2> QED
    BY <1>0, <2>1, <2>5, <2>6
<1> QED
  BY <1>1, <1>2
  DEF LockedStep, EndCheck, CreateFresh, LinkOrigin, SyncOrigin, UnlinkOriginStage, FinishOrphan,
    Redurabilize, CheckAdvance, StageRef, LinkRef, RenameRef, SyncRef, PlanRecovery,
    RefuseRecovery, RemoveStage, SyncOrigins, SyncRefs, Report
-----------------------------------------------------------------------------
(* What the holder of the lock knows.                                      *)

\* Nothing is known, and nothing needed, outside the lock.
LEMMA HolderInvOutside ==
  ASSUME NEW p \in Procs, pc[p] \in {"idle", "maintenance", "lock"}
  PROVE  HolderInv(p)
  BY DEF HolderInv, Creating, Advancing, Telling, Sweeping

\* A create and an advance, step by step.
LEMMA HolderWrites ==
  ASSUME Inv, NEW p \in Procs,
         \/ CreateFresh(p) \/ LinkOrigin(p) \/ SyncOrigin(p) \/ UnlinkOriginStage(p)
         \/ FinishOrphan(p) \/ Redurabilize(p) \/ CheckAdvance(p)
         \/ StageRef(p) \/ LinkRef(p) \/ RenameRef(p) \/ SyncRef(p)
  PROVE  HolderInv(p)' /\ OpInv(p)'
<1> DEFINE n == op[p].name
           t == op[p].target
<1>0. /\ n \in Names /\ op' = op /\ OpInv(p) /\ HolderInv(p)
      /\ origin \in [Names -> CellOf(Targets)] /\ ref \in [Names -> CellOf(Refs)]
      /\ pc \in [Procs -> Labels]
      /\ SyncCell(origin[n]).seen = origin[n].seen /\ SyncCell(origin[n]).disk = {origin[n].seen}
      /\ SyncCell(ref[n]).seen = ref[n].seen /\ SyncCell(ref[n]).disk = {ref[n].seen}
  BY SyncedRecord DEF Inv, TypeOK, Operations, CreateFresh, LinkOrigin, SyncOrigin, UnlinkOriginStage,
    FinishOrphan, Redurabilize, CheckAdvance, StageRef, LinkRef, RenameRef, SyncRef
<1>1. OpInv(p)'
  BY <1>0 DEF OpInv, HolderInv, Creating, CreateFresh, LinkOrigin, SyncOrigin, UnlinkOriginStage,
    FinishOrphan, Redurabilize, CheckAdvance, StageRef, LinkRef, RenameRef, SyncRef, Goto,
    IsOrphan, IsPresent, IsAdvance
<1>2. Sweeping(p)'
  BY <1>0 DEF Sweeping, CreateFresh, LinkOrigin, SyncOrigin, UnlinkOriginStage,
    FinishOrphan, Redurabilize, CheckAdvance, StageRef, LinkRef, RenameRef, SyncRef, Goto
<1>3. ASSUME CreateFresh(p) \/ LinkOrigin(p) \/ SyncOrigin(p) \/ UnlinkOriginStage(p)
      PROVE  Creating(p)' /\ Advancing(p)' /\ Telling(p)'
  <2>1. CASE CreateFresh(p)
    BY <1>0, <2>1 DEF CreateFresh, IsFresh, Goto, Creating, Advancing, Telling
  <2>2. CASE LinkOrigin(p)
    BY <1>0, <2>2 DEF LinkOrigin, Replace, Goto, HolderInv, Creating, Advancing, Telling
  <2>3. CASE SyncOrigin(p)
    BY <1>0, <2>3 DEF SyncOrigin, Goto, HolderInv, Creating, Advancing, Telling
  <2>4. CASE UnlinkOriginStage(p)
    BY <1>0, <2>4 DEF UnlinkOriginStage, Goto, HolderInv, Creating, Advancing, Telling
  <2> QED
    BY <1>3, <2>1, <2>2, <2>3, <2>4
<1>4. ASSUME FinishOrphan(p) PROVE Creating(p)' /\ Advancing(p)' /\ Telling(p)'
  BY <1>0, <1>4 DEF FinishOrphan, IsOrphan, Goto, Creating, Advancing, Telling
<1>5. ASSUME Redurabilize(p) PROVE Creating(p)' /\ Advancing(p)' /\ Telling(p)'
  BY <1>0, <1>5 DEF Redurabilize, IsPresent, Resolves, Goto, Creating, Advancing, Telling
<1>6. ASSUME CheckAdvance(p) PROVE Creating(p)' /\ Advancing(p)' /\ Telling(p)'
  BY <1>0, <1>6 DEF CheckAdvance, IsAdvance, Resolves, Goto, disk, Creating, Advancing, Telling
<1>7. ASSUME StageRef(p) PROVE Creating(p)' /\ Advancing(p)' /\ Telling(p)'
  BY <1>0, <1>7 DEF StageRef, Goto, HolderInv, Creating, Advancing, Telling
<1>8. ASSUME LinkRef(p) \/ RenameRef(p) PROVE Creating(p)' /\ Advancing(p)' /\ Telling(p)'
  BY <1>0, <1>8 DEF LinkRef, RenameRef, Goto, Creating, Advancing, Telling
<1>9. ASSUME SyncRef(p) PROVE Creating(p)' /\ Advancing(p)' /\ Telling(p)'
  BY <1>0, <1>9 DEF SyncRef, Goto, Creating, Advancing, Telling
<1> QED
  BY <1>1, <1>2, <1>3, <1>4, <1>5, <1>6, <1>7, <1>8, <1>9 DEF HolderInv

\* Recovery, step by step.
LEMMA HolderRecovers ==
  ASSUME Inv, NEW p \in Procs,
         PlanRecovery(p) \/ (\E s \in stages : RemoveStage(p, s)) \/ SyncOrigins(p) \/ SyncRefs(p)
  PROVE  HolderInv(p)' /\ OpInv(p)'
<1>0. /\ op' = op /\ pc \in [Procs -> Labels] /\ OpInv(p) /\ HolderInv(p)
      /\ \A n \in Names : SyncCell(origin[n]).seen = origin[n].seen
                          /\ SyncCell(origin[n]).disk = {origin[n].seen}
      /\ \A n \in Names : SyncCell(ref[n]).seen = ref[n].seen
                          /\ SyncCell(ref[n]).disk = {ref[n].seen}
  BY SyncedRecord DEF Inv, TypeOK, PlanRecovery, RemoveStage, SyncOrigins, SyncRefs
<1>1. pc'[p] \in {"sweepBranch", "sweepRef", "report"}
  BY <1>0 DEF PlanRecovery, RemoveStage, SweepLabel, SyncOrigins, SyncRefs, Goto
<1>2. OpInv(p)' /\ Creating(p)' /\ Advancing(p)' /\ Telling(p)'
  BY <1>0, <1>1 DEF OpInv, Creating, Advancing, Telling
<1>3. ASSUME PlanRecovery(p) PROVE Sweeping(p)'
  BY <1>0, <1>3 DEF PlanRecovery, Goto, Sweeping
<1>4. ASSUME NEW s \in stages, RemoveStage(p, s) PROVE Sweeping(p)'
  <2>1. stages' \cup limbo' = stages \cup limbo
    BY <1>4 DEF RemoveStage
  <2>2. pc' = pc /\ origin' = origin /\ ref' = ref
    BY <1>4 DEF RemoveStage
  <2> QED
    BY <1>0, <2>1, <2>2 DEF HolderInv, Sweeping
<1>5. ASSUME SyncOrigins(p) PROVE Sweeping(p)'
  <2>1. pc'[p] = "sweepRef" /\ \A s \in stages' \cup limbo' : s[1] # "branch"
    BY <1>0, <1>5 DEF SyncOrigins, Goto
  <2>2. \A n \in Names : origin'[n].disk = {origin'[n].seen}
    BY <1>0, <1>5 DEF SyncOrigins
  <2> QED
    BY <2>1, <2>2 DEF Sweeping
<1>6. ASSUME SyncRefs(p) PROVE Sweeping(p)'
  <2>1. /\ pc'[p] = "report" /\ \A s \in stages' \cup limbo' : s[1] # "ref" /\ s \in stages \cup limbo
        /\ pc[p] = "sweepRef" /\ origin' = origin
    BY <1>0, <1>6 DEF SyncRefs, Goto
  <2>2. \A n \in Names : ref'[n].disk = {ref'[n].seen}
    BY <1>0, <1>6 DEF SyncRefs
  <2> QED
    BY <1>0, <2>1, <2>2 DEF HolderInv, Sweeping
<1> QED
  BY <1>2, <1>3, <1>4, <1>5, <1>6 DEF HolderInv

\* The end of an operation.
LEMMA ReleaseKeeps ==
  ASSUME Inv, NEW p \in Procs, Release(p)
  PROVE  /\ pc' \in [Procs -> Labels] /\ op' \in [Procs -> Operations]
         /\ lock' \in Procs \cup {NoProc}
         /\ maintenance' \in [shared : SUBSET Procs, exclusive : Procs \cup {NoProc}]
         /\ pc'[p] = "idle" /\ HolderInv(p)' /\ OpInv(p)'
<1>1. /\ pc' \in [Procs -> Labels] /\ pc'[p] = "idle"
      /\ op' \in [Procs -> Operations] /\ op'[p] = NoOperation
  BY NoOperationType DEF Release, Goto, Inv, TypeOK, Labels
<1>2. OpInv(p)' /\ HolderInv(p)'
  BY <1>1, NoOperationType DEF OpInv, HolderInv, Creating, Advancing, Telling, Sweeping
<1>3. /\ lock' \in Procs \cup {NoProc}
      /\ maintenance' \in [shared : SUBSET Procs, exclusive : Procs \cup {NoProc}]
  BY DEF Release, Inv, TypeOK
<1> QED
  BY <1>1, <1>2, <1>3

\* The stage files after a step under the lock.
LEMMA StagesStep ==
  ASSUME Inv, NEW p \in Procs, LockedStep(p)
  PROVE  /\ stages' \subseteq StageKinds \X (Procs \cup {NoProc})
         /\ limbo' \subseteq StageKinds \X (Procs \cup {NoProc})
         /\ receipts' = receipts
  BY DEF Inv, TypeOK, StageKinds, LockedStep, EndCheck, CreateFresh, LinkOrigin, SyncOrigin,
    UnlinkOriginStage, FinishOrphan, Redurabilize, RedurabilizeRef, CheckAdvance, StageRef, LinkRef,
    RenameRef, SyncRef, ReturnBranch, PlanRecovery, RefuseRecovery, RemoveStage, SyncOrigins,
    SyncRefs, Report, disk

\* Steps under the refs lock.
LEMMA LockedStepKeepsInv ==
  ASSUME Inv, NEW p \in Procs, LockedStep(p)
  PROVE  Inv'
<1>0. TypeOK
  BY DEF Inv
<1>1. /\ pc[p] \in Locked /\ lock = p
      /\ \A q \in Procs \ {p} : pc'[q] = pc[q] /\ op'[q] = op[q]
      /\ \/ Release(p)
         \/ /\ pc'[p] \in Locked /\ pc' \in [Procs -> Labels]
            /\ lock' = lock /\ op' = op /\ maintenance' = maintenance
  BY <1>0, LockedStepLocal
<1>2. \A q \in Procs \ {p} : pc[q] \in {"idle", "maintenance", "lock"}
  BY <1>0, <1>1 DEF TypeOK
<1>3. HolderInv(p)' /\ OpInv(p)'
  <2>1. CASE Release(p)
    BY <2>1, ReleaseKeeps
  <2>2. CASE ~Release(p)
    BY <2>2, HolderWrites, HolderRecovers
    DEF LockedStep, EndCheck, RedurabilizeRef, ReturnBranch, RefuseRecovery, Report, Tell
  <2> QED
    BY <2>1, <2>2
<1>4. \A q \in Procs \ {p} : HolderInv(q)' /\ OpInv(q)'
  <2> TAKE q \in Procs \ {p}
  <2>1. pc'[q] \in {"idle", "maintenance", "lock"} /\ op'[q] = op[q]
    BY <1>1, <1>2
  <2> QED
    BY <2>1 DEF Inv, OpInv, HolderInv, Creating, Advancing, Telling, Sweeping
<1>5. TypeOK'
  <2>1. /\ pc' \in [Procs -> Labels] /\ op' \in [Procs -> Operations]
        /\ lock' \in Procs \cup {NoProc}
        /\ maintenance' \in [shared : SUBSET Procs, exclusive : Procs \cup {NoProc}]
        /\ pc'[p] \notin {"idle", "maintenance", "lock"} => lock' = p
    BY <1>0, <1>1, ReleaseKeeps DEF TypeOK
  <2>2. \A q \in Procs : pc'[q] \notin {"idle", "maintenance", "lock"} => lock' = q
    BY <1>1, <1>2, <2>1
  <2> QED
    BY <1>0, <2>1, <2>2, RecordsStep, ToldStep, StagesStep DEF TypeOK, Kept
<1> QED
  BY <1>3, <1>4, <1>5, RecordsStep, ToldStep DEF Inv, Kept
-----------------------------------------------------------------------------
(* The steps outside the lock.                                             *)

\* A step that touches no record: every process either is where nothing is
\* known or stands where it stood.
LEMMA OutsideKeeps ==
  ASSUME Inv, TypeOK', UNCHANGED <<origin, ref, told>>,
         \A y \in stages' \cup limbo' : \E x \in stages \cup limbo : x[1] = y[1],
         \A q \in Procs :
           \/ pc'[q] = pc[q] /\ op'[q] = op[q]
           \/ /\ pc'[q] \in {"idle", "maintenance", "lock", "check", "plan"}
              /\ op'[q].kind \in {"create", "advance"} => op'[q].target \in Transactions
  PROVE  Inv'
<1>1. \A n \in Names : NameInv(n)'
  BY DEF Inv, NameInv
<1>2. \A b \in told' : ToldInv(b)'
  BY DEF Inv, ToldInv
<1>3. ASSUME NEW q \in Procs PROVE OpInv(q)' /\ HolderInv(q)'
  <2>1. CASE pc'[q] = pc[q] /\ op'[q] = op[q]
    BY <2>1 DEF Inv, OpInv, HolderInv, Creating, Advancing, Telling, Sweeping
  <2>2. CASE /\ pc'[q] \in {"idle", "maintenance", "lock", "check", "plan"}
             /\ op'[q].kind \in {"create", "advance"} => op'[q].target \in Transactions
    BY <2>2 DEF OpInv, HolderInv, Creating, Advancing, Telling, Sweeping
  <2> QED
    BY <2>1, <2>2
<1> QED
  BY <1>1, <1>2, <1>3 DEF Inv

\* A caller starts an operation.
LEMMA CallKeepsInv ==
  ASSUME Inv, NEW p \in Procs, Call(p)
  PROVE  Inv'
<1>0. /\ pc \in [Procs -> Labels] /\ op \in [Procs -> Operations]
      /\ \A q \in Procs : pc[q] \notin {"idle", "maintenance", "lock"} => lock = q
  BY DEF Inv, TypeOK
<1>1. PICK o \in Operations : /\ Begin(p, o)
                              /\ o.kind \in {"create", "advance"} => o.target \in Transactions
  <2>1. ASSUME NEW n \in Names, NEW t \in Transactions, BeginCreate(p, n, t)
        PROVE  \E o \in Operations : /\ Begin(p, o)
                                     /\ o.kind \in {"create", "advance"} => o.target \in Transactions
    <3>1. [kind |-> "create", name |-> n, expected |-> Absent, target |-> t] \in Operations
      BY DEF Operations, Targets
    <3> QED
      BY <2>1, <3>1 DEF BeginCreate
  <2>2. ASSUME NEW n \in Names, NEW e \in Transactions, NEW t \in Transactions,
               BeginAdvance(p, n, e, t)
        PROVE  \E o \in Operations : /\ Begin(p, o)
                                     /\ o.kind \in {"create", "advance"} => o.target \in Transactions
    <3>1. [kind |-> "advance", name |-> n, expected |-> e, target |-> t] \in Operations
      BY DEF Operations, Targets
    <3> QED
      BY <2>2, <3>1 DEF BeginAdvance
  <2>3. ASSUME NEW n \in Names, BeginRead(p, n)
        PROVE  \E o \in Operations : /\ Begin(p, o)
                                     /\ o.kind \in {"create", "advance"} => o.target \in Transactions
    <3>1. [kind |-> "read", name |-> n, expected |-> Absent, target |-> Absent] \in Operations
      BY DEF Operations, Targets
    <3> QED
      BY <2>3, <3>1 DEF BeginRead
  <2>4. ASSUME BeginRecover(p)
        PROVE  \E o \in Operations : /\ Begin(p, o)
                                     /\ o.kind \in {"create", "advance"} => o.target \in Transactions
    <3>1. /\ [NoOperation EXCEPT !.kind = "recover"] \in Operations
          /\ [NoOperation EXCEPT !.kind = "recover"].kind = "recover"
      BY NoOperationType DEF Operations
    <3> QED
      BY <2>4, <3>1 DEF BeginRecover
  <2> QED
    BY <2>1, <2>2, <2>3, <2>4 DEF Call
<1>2. /\ UNCHANGED <<receipts, origin, ref, stages, limbo, maintenance, lock, told>>
      /\ pc' = [pc EXCEPT ![p] = "maintenance"] /\ op' = [op EXCEPT ![p] = o]
  BY <1>1 DEF Begin, Goto, disk
<1>3. pc' \in [Procs -> Labels] /\ op' \in [Procs -> Operations]
  BY <1>0, <1>2 DEF Labels
<1>4. TypeOK'
  BY <1>0, <1>2, <1>3 DEF Inv, TypeOK
<1> QED
  BY <1>0, <1>1, <1>2, <1>4, OutsideKeeps

\* The locks are taken in their order.
LEMMA AcquireKeepsInv ==
  ASSUME Inv, NEW p \in Procs, AcquireShared(p) \/ AcquireExclusive(p) \/ AcquireRefsLock(p)
  PROVE  Inv'
<1>0. /\ pc \in [Procs -> Labels] /\ TypeOK /\ OpInv(p)
      /\ \A q \in Procs : pc[q] \notin {"idle", "maintenance", "lock"} => lock = q
  BY DEF Inv, TypeOK
<1>1. /\ UNCHANGED <<receipts, origin, ref, stages, limbo, op, told>>
      /\ \A q \in Procs \ {p} : pc'[q] = pc[q]
      /\ pc' \in [Procs -> Labels] /\ pc'[p] \in {"lock", "check", "plan"}
  BY <1>0 DEF AcquireShared, AcquireExclusive, AcquireRefsLock, Goto, disk, Labels
<1>2. /\ maintenance' \in [shared : SUBSET Procs, exclusive : Procs \cup {NoProc}]
      /\ lock' \in Procs \cup {NoProc}
  BY <1>0 DEF AcquireShared, AcquireExclusive, AcquireRefsLock, TypeOK
<1>3. \A q \in Procs : pc'[q] \notin {"idle", "maintenance", "lock"} => lock' = q
  <2>1. CASE AcquireRefsLock(p)
    <3>1. lock = NoProc /\ lock' = p
      BY <2>1 DEF AcquireRefsLock
    <3> QED
      BY <1>0, <1>1, <3>1, BranchAssumption
  <2>2. CASE AcquireShared(p) \/ AcquireExclusive(p)
    <3>1. lock' = lock /\ pc'[p] = "lock"
      BY <1>0, <2>2 DEF AcquireShared, AcquireExclusive, Goto
    <3> QED
      BY <1>0, <1>1, <3>1
  <2> QED
    BY <2>1, <2>2
<1>4. TypeOK'
  BY <1>0, <1>1, <1>2, <1>3 DEF TypeOK
<1> QED
  BY <1>0, <1>1, <1>4, OutsideKeeps DEF OpInv

\* An operation fails or its process dies: its files stay without an owner.
LEMMA AbandonKeepsInv ==
  ASSUME Inv, NEW p \in Procs, Abandon(p)
  PROVE  Inv'
<1>0. /\ TypeOK /\ Release(p) /\ UNCHANGED <<receipts, origin, ref, told>>
      /\ stages' = Disowned(p, stages) /\ limbo' = Disowned(p, limbo)
  BY DEF Inv, Abandon
<1>1. ASSUME NEW files, files \subseteq StageKinds \X (Procs \cup {NoProc})
      PROVE  /\ Disowned(p, files) \subseteq StageKinds \X (Procs \cup {NoProc})
             /\ \A y \in Disowned(p, files) : \E x \in files : x[1] = y[1]
  <2> SUFFICES ASSUME NEW x \in files
               PROVE  LET y == IF x[2] = p THEN <<x[1], NoProc>> ELSE x
                      IN  y \in StageKinds \X (Procs \cup {NoProc}) /\ x[1] = y[1]
    BY DEF Disowned
  <2> QED
    BY <1>1
<1>2. /\ stages' \subseteq StageKinds \X (Procs \cup {NoProc})
      /\ limbo' \subseteq StageKinds \X (Procs \cup {NoProc})
      /\ \A y \in stages' \cup limbo' : \E x \in stages \cup limbo : x[1] = y[1]
  BY <1>0, <1>1 DEF TypeOK
<1>3. /\ \A q \in Procs \ {p} : pc'[q] = pc[q] /\ op'[q] = op[q] /\ (lock = q => lock' = q)
      /\ op'[p] = NoOperation
  BY <1>0 DEF Release, Goto, TypeOK
<1>4. TypeOK'
  <2>1. /\ pc' \in [Procs -> Labels] /\ op' \in [Procs -> Operations] /\ pc'[p] = "idle"
        /\ lock' \in Procs \cup {NoProc}
        /\ maintenance' \in [shared : SUBSET Procs, exclusive : Procs \cup {NoProc}]
    BY <1>0, ReleaseKeeps
  <2>2. \A q \in Procs : pc'[q] \notin {"idle", "maintenance", "lock"} => lock' = q
    BY <1>0, <1>3, <2>1 DEF TypeOK
  <2> QED
    BY <1>0, <1>2, <2>1, <2>2 DEF TypeOK
<1>5. pc'[p] = "idle"
  BY <1>0, ReleaseKeeps
<1> QED
  BY <1>0, <1>2, <1>3, <1>4, <1>5, OutsideKeeps, NoOperationType

\* Another component adds a receipt.
LEMMA ReceiptKeepsInv ==
  ASSUME Inv, NEW t \in Transactions, DurableReceipt(t) \/ InterruptedReceipt(t)
  PROVE  Inv'
<1>1. UNCHANGED <<origin, ref, stages, limbo, maintenance, lock, pc, op, told>>
  BY DEF DurableReceipt, InterruptedReceipt, disk
<1>2. /\ receipts' \in [seen : SUBSET Transactions, safe : SUBSET Transactions]
      /\ receipts'.safe \subseteq receipts'.seen
  <2>1. PICK S \in SUBSET Transactions, T \in SUBSET Transactions :
          receipts = [seen |-> S, safe |-> T] /\ T \subseteq S
    BY DEF Inv, TypeOK
  <2>2. /\ Link(receipts, t) = [seen |-> S \cup {t}, safe |-> T]
        /\ SyncName([seen |-> S \cup {t}, safe |-> T], t)
             = [seen |-> S \cup {t}, safe |-> T \cup {t}]
    BY <2>1 DEF Link, SyncName
  <2>3. \/ receipts' = [seen |-> S \cup {t}, safe |-> T]
        \/ receipts' = [seen |-> S \cup {t}, safe |-> T \cup {t}]
    BY <2>2 DEF DurableReceipt, InterruptedReceipt
  <2> QED
    BY <2>1, <2>3
<1>3. TypeOK'
  BY <1>1, <1>2 DEF Inv, TypeOK
<1> QED
  BY <1>1, <1>3, OutsideKeeps

\* A power loss leaves of each record a value that was possible.
LEMMA PowerLossKeepsInv ==
  ASSUME Inv, PowerLoss
  PROVE  Inv'
<1>1. /\ receipts' \in [seen : SUBSET Transactions, safe : SUBSET Transactions]
      /\ receipts'.safe \subseteq receipts'.seen
  BY DEF PowerLoss, ShelfAfterPowerLoss, Inv, TypeOK
<1>2. stages' \subseteq StageKinds \X (Procs \cup {NoProc})
  BY DEF PowerLoss, Inv, TypeOK
<1>3. /\ pc' = [p \in Procs |-> "idle"] /\ op' = [p \in Procs |-> NoOperation] /\ limbo' = {}
      /\ maintenance' = [shared |-> {}, exclusive |-> NoProc] /\ lock' = NoProc /\ told' = told
  BY DEF PowerLoss
<1>4. /\ pc' \in [Procs -> Labels] /\ op' \in [Procs -> Operations]
      /\ maintenance' \in [shared : SUBSET Procs, exclusive : Procs \cup {NoProc}]
      /\ \A p \in Procs : pc'[p] = "idle" /\ op'[p].kind = "read"
  BY <1>3, NoOperationType DEF Labels
<1>5. TypeOK'
  BY <1>1, <1>2, <1>3, <1>4, PowerLossKeeps DEF TypeOK, Kept, Inv
<1>6. \A p \in Procs : OpInv(p)' /\ HolderInv(p)'
  BY <1>4 DEF OpInv, HolderInv, Creating, Advancing, Telling, Sweeping
<1> QED
  BY <1>3, <1>5, <1>6, PowerLossKeeps DEF Inv, Kept
-----------------------------------------------------------------------------
(* The theorems.                                                           *)

\* Every step keeps the inductive invariant.
LEMMA StepInv == Inv /\ [Next]_vars => Inv'
<1> SUFFICES ASSUME Inv, [Next]_vars PROVE Inv'
  OBVIOUS
<1>1. CASE UNCHANGED vars
  BY <1>1 DEF vars, disk, Inv, TypeOK, NameInv, ToldInv, OpInv, HolderInv, Creating, Advancing,
    Telling, Sweeping
<1>2. CASE Next
  BY <1>2, LockedStepKeepsInv, CallKeepsInv, AcquireKeepsInv, AbandonKeepsInv, ReceiptKeepsInv,
    PowerLossKeepsInv DEF Next, Step, LockedStep
<1> QED
  BY <1>1, <1>2

\* It holds in every reachable state.
LEMMA Invariance == Spec => []Inv
  BY InitInv, StepInv, PTL DEF Spec

\* Records, locks and processes keep their types; whoever is between
\* acquiring the refs lock and the end of its operation holds it.
THEOREM TypeCorrect == Spec => []TypeOK
<1>1. Inv => TypeOK
  BY DEF Inv
<1> QED
  BY <1>1, Invariance, PTL

\* A ref that may survive a power loss names an origin record that is certain
\* to survive and lies in the ancestry of its head.
THEOREM RefHasOriginInvariant == Spec => []RefHasOrigin
<1>1. Inv => RefHasOrigin
  BY DEF Inv, NameInv, RefHasOrigin
<1> QED
  BY <1>1, Invariance, PTL

\* No crash moves a branch sideways: the heads it may be found at lie on one
\* line.
THEOREM BranchIsLinearInvariant == Spec => []BranchIsLinear
<1>1. Inv => BranchIsLinear
  <2> SUFFICES ASSUME Inv, NEW n \in Names,
                      NEW r \in ref[n].disk \ {Absent}, NEW s \in ref[n].disk \ {Absent}
               PROVE  IsPrefix(HeadOf(r), HeadOf(s)) \/ IsPrefix(HeadOf(s), HeadOf(r))
    BY DEF BranchIsLinear
  <2>1. /\ ref[n].seen # Absent /\ IsPrefix(HeadOf(r), HeadOf(ref[n].seen))
        /\ IsPrefix(HeadOf(s), HeadOf(ref[n].seen))
    BY RecordType DEF NameInv
  <2>2. /\ HeadOf(r) \in Transactions /\ HeadOf(s) \in Transactions
        /\ HeadOf(ref[n].seen) \in Transactions
    BY <2>1, RecordType, RefParts
  <2> QED
    BY <2>1, <2>2, PrefixesCompare
<1> QED
  BY <1>1, Invariance, PTL

\* A branch that a caller was told of is found ever after with the same
\* origin, at that head or a descendant, through crashes and recoveries.
THEOREM ToldSurvivesInvariant == Spec => []ToldSurvives
<1>1. Inv => ToldSurvives
  BY DEF Inv, ToldInv, ToldSurvives
<1> QED
  BY <1>1, Invariance, PTL

\* When recover_refs reports, no stage can come back, and every branch and
\* every orphan origin is certain.
THEOREM RefRecoverySettlesInvariant == Spec => []RefRecoverySettles
<1>1. Inv => RefRecoverySettles
  <2> SUFFICES ASSUME Inv, NEW p \in Procs, pc[p] = "report"
               PROVE  /\ stages = {} /\ limbo = {}
                      /\ \A n \in Names : /\ ref[n].disk = {ref[n].seen}
                                          /\ origin[n].disk = {origin[n].seen}
    BY DEF RefRecoverySettles
  <2>1. /\ \A s \in stages \cup limbo : s[1] # "branch" /\ s[1] # "ref"
        /\ \A n \in Names : ref[n].disk = {ref[n].seen} /\ origin[n].disk = {origin[n].seen}
    BY DEF Inv, HolderInv, Sweeping
  <2>2. \A s \in stages \cup limbo : s[1] \in StageKinds
    BY DEF Inv, TypeOK
  <2> QED
    BY <2>1, <2>2 DEF StageKinds
<1> QED
  BY <1>1, Invariance, PTL
=============================================================================
