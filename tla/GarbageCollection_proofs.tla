---------------------- MODULE GarbageCollection_proofs ----------------------
(***************************************************************************)
(* Proofs about GarbageCollection, for any objects and references, any     *)
(* histories, and any number of processes.  What the retention snapshot    *)
(* spares is proved for a repository with one server, which is what the    *)
(* snapshot is taken for: two servers race (run collection_race).          *)
(***************************************************************************)
EXTENDS GarbageCollection, FiniteSetTheorems, NaturalsInduction, WellFoundedInduction, TLAPS
-----------------------------------------------------------------------------
(* The closure of a set of objects.                                        *)

\* A set of naturals has a least element, which serves as induction: the
\* least counterexample of a claim is not zero and does not follow from its
\* predecessor.
LEMMA LeastNatural ==
  ASSUME NEW T \in SUBSET Nat, T # {}
  PROVE  \E x \in T : \A y \in T : x <= y
<1>1. IsWellFoundedOn(OpToRel(<, Nat), Nat)
  BY NatLessThanWellFounded
<1>2. PICK x \in T : \A y \in T : ~(<<y, x>> \in OpToRel(<, Nat))
  BY <1>1, WFMin
<1>3. \A y \in T : ~(y < x)
  BY <1>2 DEF OpToRel
<1> QED
  BY <1>3

\* Facts about the steps of the closure: f[n] is what n rounds reach from S.
Round(S, f, n) ==
  IF n = 0 THEN S ELSE f[n - 1] \cup UNION {References[o] : o \in f[n - 1]}

Rounds(S, f) == f = [n \in 0..Cardinality(Objects) |-> Round(S, f, n)]

\* The objects can be counted, so the rounds of the closure are.
LEMMA ObjectCount == Cardinality(Objects) \in Nat
  BY CollectionAssumption, FS_CardinalityType

\* The closure is the last round of its recursive function.
LEMMA ClosureUnfolds ==
  ASSUME NEW S
  PROVE  Closure(S) = (CHOOSE f : Rounds(S, f))[Cardinality(Objects)]
  BY Zenon DEF Closure, Rounds, Round

\* The recursive function of the closure exists.
LEMMA RoundsExist ==
  ASSUME NEW S
  PROVE  \E f : Rounds(S, f)
<1> DEFINE N == Cardinality(Objects)
           Upto(n) == \E f : /\ f = [i \in 0..n |-> f[i]]
                             /\ \A i \in 0..n : f[i] = Round(S, f, i)
           Bad == {n \in Nat : ~Upto(n)}
<1>1. Upto(0)
  <2> DEFINE f == [i \in 0..0 |-> S]
  <2>1. f = [i \in 0..0 |-> f[i]]
    OBVIOUS
  <2>2. \A i \in 0..0 : f[i] = Round(S, f, i)
    BY DEF Round
  <2> QED
    BY <2>1, <2>2
<1>2. ASSUME NEW n \in Nat, n # 0, Upto(n - 1)
      PROVE  Upto(n)
  <2>1. PICK f : /\ f = [i \in 0..(n - 1) |-> f[i]]
                 /\ \A i \in 0..(n - 1) : f[i] = Round(S, f, i)
    BY <1>2
  <2> DEFINE g == [i \in 0..n |-> IF i = n THEN Round(S, f, n) ELSE f[i]]
  <2>2. \A i \in 0..(n - 1) : g[i] = f[i]
    OBVIOUS
  <2>3. \A i \in 0..n : Round(S, g, i) = Round(S, f, i)
    <3> SUFFICES ASSUME NEW i \in 0..n
                 PROVE  Round(S, g, i) = Round(S, f, i)
      OBVIOUS
    <3>1. CASE i = 0
      BY <3>1 DEF Round
    <3>2. CASE i # 0
      <4>1. g[i - 1] = f[i - 1]
        BY <2>2, <3>2
      <4> HIDE DEF g
      <4> QED
        BY <3>2, <4>1 DEF Round
    <3> QED
      BY <3>1, <3>2
  <2>4. \A i \in 0..n : g[i] = IF i = n THEN Round(S, f, n) ELSE f[i]
    OBVIOUS
  <2>5. g = [i \in 0..n |-> g[i]]
    OBVIOUS
  <2>6. \A i \in 0..n : g[i] = Round(S, g, i)
    <3> HIDE DEF g
    <3> SUFFICES ASSUME NEW i \in 0..n
                 PROVE  g[i] = Round(S, g, i)
      OBVIOUS
    <3>1. CASE i = n
      BY <2>3, <2>4, <3>1
    <3>2. CASE i # n
      <4>1. i \in 0..(n - 1)
        BY <3>2
      <4>2. g[i] = f[i] /\ f[i] = Round(S, f, i) /\ Round(S, g, i) = Round(S, f, i)
        BY <2>1, <2>3, <2>4, <3>2, <4>1
      <4> QED
        BY <4>2
    <3> QED
      BY <3>1, <3>2
  <2> HIDE DEF g
  <2> QED
    BY <2>5, <2>6
<1>3. Bad = {}
  <2> SUFFICES ASSUME Bad # {}
               PROVE  FALSE
    OBVIOUS
  <2>1. PICK n \in Bad : \A m \in Bad : n <= m
    BY LeastNatural
  <2> HIDE DEF Upto
  <2>2. n \in Nat /\ ~Upto(n) /\ n # 0
    BY <1>1
  <2>3. n - 1 \in Nat /\ n - 1 \notin Bad
    BY <2>1, <2>2
  <2> QED
    BY <1>2, <2>2, <2>3
<1>4. Upto(N)
  <2> HIDE DEF Upto
  <2> QED
    BY <1>3, ObjectCount
<1>5. PICK f : /\ f = [i \in 0..N |-> f[i]]
               /\ \A i \in 0..N : f[i] = Round(S, f, i)
  BY <1>4
<1>6. f = [i \in 0..N |-> Round(S, f, i)]
  BY <1>5, Zenon
<1> QED
  BY <1>6 DEF Rounds

\* The rounds from S and those from a larger set.
LEMMA ClosureMonotone ==
  ASSUME NEW S, NEW T, S \subseteq T
  PROVE  Closure(S) \subseteq Closure(T)
<1>1. PICK f : Rounds(S, f) /\ Closure(S) = f[Cardinality(Objects)]
  BY ClosureUnfolds, RoundsExist, Zenon
<1>2. PICK g : Rounds(T, g) /\ Closure(T) = g[Cardinality(Objects)]
  BY ClosureUnfolds, RoundsExist, Zenon
<1> DEFINE N == Cardinality(Objects)
           Bad == {n \in 0..N : ~(f[n] \subseteq g[n])}
<1>3. N \in Nat
  BY ObjectCount
<1>4. \A n \in 0..N : f[n] = Round(S, f, n) /\ g[n] = Round(T, g, n)
  <2>1. f = [n \in 0..N |-> Round(S, f, n)] /\ g = [n \in 0..N |-> Round(T, g, n)]
    BY <1>1, <1>2, Zenon DEF Rounds
  <2> QED
    BY <2>1, Zenon
<1> HIDE DEF N
<1>5. Bad = {}
  <2> SUFFICES ASSUME Bad # {}
               PROVE  FALSE
    OBVIOUS
  <2>0. Bad \in SUBSET Nat
    BY <1>3
  <2>1. PICK n \in Bad : \A m \in Bad : n <= m
    BY <2>0, LeastNatural
  <2>2. n \in 0..N /\ ~(f[n] \subseteq g[n])
    OBVIOUS
  <2>3. CASE n = 0
    BY <1>4, <2>2, <2>3 DEF Round
  <2>4. CASE n # 0
    <3>1. n - 1 \in 0..N /\ n - 1 \notin Bad
      BY <1>3, <2>1, <2>2, <2>4
    <3>2. f[n - 1] \subseteq g[n - 1]
      BY <3>1
    <3>3. /\ f[n] = f[n - 1] \cup UNION {References[o] : o \in f[n - 1]}
          /\ g[n] = g[n - 1] \cup UNION {References[o] : o \in g[n - 1]}
      BY <1>4, <2>2, <2>4 DEF Round
    <3> QED
      BY <2>2, <3>2, <3>3
  <2> QED
    BY <2>3, <2>4
<1>6. N \in 0..N
  BY <1>3
<1>7. f[N] \subseteq g[N]
  BY <1>5, <1>6
<1> QED
  BY <1>1, <1>2, <1>7 DEF N

\* References lead from objects to objects.
LEMMA ClosureInside ==
  ASSUME NEW S \in SUBSET Objects
  PROVE  Closure(S) \subseteq Objects
<1>1. PICK f : Rounds(S, f) /\ Closure(S) = f[Cardinality(Objects)]
  BY ClosureUnfolds, RoundsExist, Zenon
<1> DEFINE N == Cardinality(Objects)
           Bad == {n \in 0..N : ~(f[n] \subseteq Objects)}
<1>2. N \in Nat
  BY ObjectCount
<1>3. \A n \in 0..N : f[n] = Round(S, f, n)
  <2>1. f = [n \in 0..N |-> Round(S, f, n)]
    BY <1>1, Zenon DEF Rounds
  <2> QED
    BY <2>1, Zenon
<1> HIDE DEF N
<1>4. Bad = {}
  <2> SUFFICES ASSUME Bad # {}
               PROVE  FALSE
    OBVIOUS
  <2>0. Bad \in SUBSET Nat
    BY <1>2
  <2>1. PICK n \in Bad : \A m \in Bad : n <= m
    BY <2>0, LeastNatural
  <2>2. n \in 0..N /\ ~(f[n] \subseteq Objects)
    OBVIOUS
  <2>3. CASE n = 0
    BY <1>3, <2>2, <2>3 DEF Round
  <2>4. CASE n # 0
    <3>1. n - 1 \in 0..N /\ n - 1 \notin Bad
      BY <1>2, <2>1, <2>2, <2>4
    <3>2. f[n - 1] \subseteq Objects
      BY <3>1
    <3>3. f[n] = f[n - 1] \cup UNION {References[o] : o \in f[n - 1]}
      BY <1>3, <2>2, <2>4 DEF Round
    <3> QED
      BY <2>2, <3>2, <3>3, CollectionAssumption
  <2> QED
    BY <2>3, <2>4
<1>5. N \in 0..N
  BY <1>2
<1>6. f[N] \subseteq Objects
  BY <1>4, <1>5
<1> QED
  BY <1>1, <1>6 DEF N

\* The state of a transaction is made of objects.
LEMMA NeedsInside ==
  ASSUME NEW t \in Transactions, t # << >>
  PROVE  Needs(t) \subseteq Objects /\ Last(t) \in Inputs
<1>1. Last(t) \in Inputs
  BY DEF Last, Transactions
<1> QED
  BY <1>1, ClosureInside, CollectionAssumption DEF Needs

\* What a snapshot keeps covers the state of each of its roots.
LEMMA ReachableCovers ==
  ASSUME NEW s, NEW t \in s.roots
  PROVE  Needs(t) \subseteq Reachable(s)
<1>1. Binds[Last(t)] \subseteq (UNION {Binds[Last(u)] : u \in s.roots}) \cup s.pins
  OBVIOUS
<1> QED
  BY <1>1, ClosureMonotone DEF Needs, Reachable
-----------------------------------------------------------------------------
(* The inductive invariant of the collection itself.                       *)

\* The steps of a collection or a recovery before it owns maintenance, and
\* those from the plan to the report.
Unowned == {"idle", "branches", "acquire"}
Deleting == {"leaves", "delete", "leaf", "collected"}

\* The types without what TypeOK says of the steps of a process; a receipt
\* is not of the empty history.
DataOK ==
  /\ maintenance \in Procs \cup {NoProc}
  /\ objects \in [Objects -> CellOf(BOOLEAN)]
  /\ remnant \in BOOLEAN
  /\ receipts \subseteq Transactions \ {<< >>} /\ head \in receipts
  /\ branches \in [Names -> receipts \cup {<< >>}]
  /\ sessions \in [Servers -> [Sessions -> receipts \cup {<< >>}]]
  /\ witness \in CellOf({"none", "prefix", "exact"})
  /\ pc \in [Procs -> Labels]
  /\ snapshot \in [Procs -> [roots : SUBSET receipts, pins : SUBSET Objects]]
  /\ todo \in [Procs -> SUBSET Objects]

\* The file of o certainly exists if o is in S, and certainly does not if not.
Certain(o, S) ==
  /\ o \in S => objects[o] = Settled(TRUE)
  /\ o \notin S => objects[o] = Settled(FALSE)

\* What is left to delete of the plan of p, and what is certain on disk.
PlanInv(p) ==
  LET kept == Reachable(snapshot[p])
      left == kept \cup todo[p]
  IN /\ pc[p] \in Deleting => kept \subseteq Objects /\ kept \cap todo[p] = {}
     /\ pc[p] = "leaves" => Present = left
     /\ pc[p] = "delete" => \A o \in Objects : Certain(o, left)
     /\ pc[p] = "leaf" => \E x \in todo[p] : /\ ~objects[x].seen
                                             /\ \A o \in Objects \ {x} : Certain(o, left)
     /\ pc[p] = "collected" => \A o \in Objects : Certain(o, kept)

\* Only a server collects; a process owns maintenance, and its witness is as
\* far as its step says.
ProcInv(p) ==
  /\ pc[p] \notin {"idle", "drop", "dropped"} => p \in Servers
  /\ pc[p] \notin Unowned => maintenance = p
  /\ pc[p] = "sync" => witness.seen = "exact"
  /\ pc[p] \in {"plan"} \cup Deleting => witness = Settled("exact")
  /\ pc[p] \notin Deleting \cup {"drop", "dropped"} => todo[p] = {}
  /\ PlanInv(p)

Inv == DataOK /\ \A p \in Procs : ProcInv(p)
-----------------------------------------------------------------------------
(* ... and of what it spares.                                              *)

OneServer == \A p, q \in Servers : p = q

Targets == {head} \cup BranchTargets \cup UNION {SessionTargets(p) : p \in Servers}

\* From the reads of the snapshot on nothing that it must retain has changed.
SnapshotInv(p) ==
  /\ pc[p] \notin {"idle", "drop", "dropped"} => head \in snapshot[p].roots
  /\ pc[p] \notin {"idle", "branches", "drop", "dropped"} => Targets \subseteq snapshot[p].roots

SparingInv ==
  /\ Inv /\ OneServer
  /\ PlanSparesRetained /\ HeadStaysWhole
  /\ \A p \in Procs : SnapshotInv(p)
-----------------------------------------------------------------------------
(* Cells.                                                                  *)

\* What the file system does to a cell is a cell.
LEMMA CellTypes ==
  ASSUME NEW V, NEW v \in V
  PROVE  /\ Settled(v) \in CellOf(V)
         /\ \A c \in CellOf(V) : Replace(c, v) \in CellOf(V) /\ SyncCell(c) \in CellOf(V)
         /\ \A c \in CellOf(V) : AfterPowerLoss(c) \subseteq CellOf(V)
  BY DEF Settled, Replace, SyncCell, AfterPowerLoss, CellOf

\* What it sees and what it may leave.
LEMMA CellFields ==
  ASSUME NEW v, NEW c
  PROVE  /\ Settled(v).seen = v /\ Settled(v).disk = {v}
         /\ Replace(c, v).seen = v /\ Replace(c, v).disk = c.disk \cup {v}
         /\ SyncCell(c) = Settled(c.seen) /\ SyncCell(Settled(v)) = Settled(v)
  BY DEF Settled, Replace, SyncCell

\* A certain object is present exactly if it is in the set.
LEMMA CertainPresent ==
  ASSUME NEW o \in Objects, NEW S, Certain(o, S)
  PROVE  o \in Present <=> o \in S
<1>1. CASE o \in S
  <2>1. objects[o].seen = TRUE
    BY <1>1, CellFields DEF Certain
  <2> QED
    BY <1>1, <2>1 DEF Present
<1>2. CASE o \notin S
  <2>1. objects[o].seen = FALSE
    BY <1>2, CellFields DEF Certain
  <2> QED
    BY <1>2, <2>1 DEF Present
<1> QED
  BY <1>1, <1>2

\* Between an unlink and its sync exactly the unlinked candidate is gone.
LEMMA LeafGone ==
  ASSUME DataOK, NEW p \in Procs, PlanInv(p), pc[p] = "leaf"
  PROVE  \E x \in todo[p] : /\ todo[p] \ Present = {x} /\ ~objects[x].seen
                            /\ \A o \in Objects \ {x} :
                                 Certain(o, Reachable(snapshot[p]) \cup todo[p])
<1>1. PICK x \in todo[p] :
        /\ ~objects[x].seen
        /\ \A o \in Objects \ {x} : Certain(o, Reachable(snapshot[p]) \cup todo[p])
  BY DEF PlanInv
<1>2. x \notin Present
  BY <1>1 DEF Present
<1>3. todo[p] \subseteq Objects
  BY DEF DataOK
<1>4. \A o \in todo[p] \ {x} : o \in Present
  BY <1>1, <1>3, CertainPresent
<1> QED
  BY <1>1, <1>2, <1>4

\* The invariant gives what the model is checked for.
LEMMA InvImplies == Inv => TypeOK /\ WitnessCoversDeletion /\ CollectedIsFinal
<1> SUFFICES ASSUME Inv
             PROVE  TypeOK /\ WitnessCoversDeletion /\ CollectedIsFinal
  OBVIOUS
<1>1. TypeOK
  <2>1. \A p \in Procs : pc[p] = "leaf" => Cardinality(todo[p] \ Present) = 1
    <3> SUFFICES ASSUME NEW p \in Procs, pc[p] = "leaf"
                 PROVE  Cardinality(todo[p] \ Present) = 1
      OBVIOUS
    <3>1. PICK x : todo[p] \ Present = {x}
      BY LeafGone DEF Inv, ProcInv
    <3> QED
      BY <3>1, FS_Singleton
  <2> QED
    BY <2>1 DEF Inv, DataOK, ProcInv, TypeOK, Unowned
<1>2. WitnessCoversDeletion
  BY DEF Inv, ProcInv, WitnessCoversDeletion, Deleting
<1>3. CollectedIsFinal
  <2> SUFFICES ASSUME NEW p \in Procs, pc[p] = "collected", NEW o \in Objects
               PROVE  objects[o] = Settled(o \in Reachable(snapshot[p]))
    BY DEF CollectedIsFinal
  <2>1. Certain(o, Reachable(snapshot[p]))
    BY DEF Inv, ProcInv, PlanInv
  <2>2. CASE o \in Reachable(snapshot[p])
    BY <2>1, <2>2, Zenon DEF Certain
  <2>3. CASE o \notin Reachable(snapshot[p])
    <3>1. (o \in Reachable(snapshot[p])) = FALSE
      BY <2>3
    <3>2. objects[o] = Settled(FALSE)
      BY <2>1, <2>3 DEF Certain
    <3> QED
      BY <3>1, <3>2, Zenon
  <2> QED
    BY <2>2, <2>3
<1> QED
  BY <1>1, <1>2, <1>3

\* The initial repository satisfies the inductive invariant.
LEMMA InitInv == Init => Inv
<1> SUFFICES ASSUME Init
             PROVE  Inv
  OBVIOUS
<1>1. DataOK
  <2>1. <<Genesis>> \in Transactions \ {<< >>}
    BY DEF Transactions, Inputs
  <2>2. objects \in [Objects -> CellOf(BOOLEAN)]
    <3>1. \A o \in Objects : (o \in Needs(<<Genesis>>)) \in BOOLEAN
      OBVIOUS
    <3>2. \A o \in Objects : Settled(o \in Needs(<<Genesis>>)) \in CellOf(BOOLEAN)
      BY <3>1, CellTypes, Zenon
    <3> QED
      BY <3>2, Zenon DEF Init
  <2>3. witness \in CellOf({"none", "prefix", "exact"})
    BY CellTypes DEF Init
  <2>4. snapshot \in [Procs -> [roots : SUBSET receipts, pins : SUBSET Objects]]
    BY DEF Init, NoSnapshot
  <2>5. sessions \in [Servers -> [Sessions -> receipts \cup {<< >>}]]
    BY DEF Init
  <2> QED
    BY <2>1, <2>2, <2>3, <2>4, <2>5 DEF Init, DataOK, Labels
<1>2. \A p \in Procs : ProcInv(p)
  BY DEF Init, ProcInv, PlanInv, Unowned, Deleting
<1> QED
  BY <1>1, <1>2 DEF Inv
-----------------------------------------------------------------------------
(* Steps.                                                                  *)

\* What a step of p leaves to the others: their place, and the files of a
\* collection that one of them owns.
Frame(p) ==
  /\ \A q \in Procs \ {p} : /\ pc'[q] = pc[q] /\ todo'[q] = todo[q]
                            /\ snapshot'[q] = snapshot[q]
                            /\ maintenance = q => maintenance' = q
  /\ objects' # objects \/ witness' # witness => maintenance \in {NoProc, p}

\* A process whose maintenance nobody else has finds things as it left them.
LEMMA FrameKeeps ==
  ASSUME Inv, NEW p \in Procs, Frame(p), NEW q \in Procs, q # p
  PROVE  ProcInv(q)'
<1>1. /\ pc'[q] = pc[q] /\ todo'[q] = todo[q] /\ snapshot'[q] = snapshot[q]
      /\ maintenance = q => maintenance' = q
  BY DEF Frame
<1>2. CASE pc[q] \in Unowned
  BY <1>1, <1>2 DEF Inv, ProcInv, PlanInv, Unowned, Deleting
<1>3. CASE pc[q] \notin Unowned
  <2>1. maintenance = q /\ objects' = objects /\ witness' = witness
    BY <1>3, CollectionAssumption DEF Inv, ProcInv, Frame
  <2>2. Present' = Present /\ \A o, S : Certain(o, S)' <=> Certain(o, S)
    BY <2>1 DEF Present, Certain
  <2>3. Reachable(snapshot[q])' = Reachable(snapshot[q])
    BY <1>1 DEF Reachable
  <2>4. PlanInv(q)'
    BY <1>1, <2>1, <2>2, <2>3 DEF Inv, ProcInv, PlanInv
  <2> QED
    BY <1>1, <2>1, <2>4 DEF Inv, ProcInv
<1> QED
  BY <1>2, <1>3

\* A step that is not part of a collection, and changes objects only while
\* nobody owns maintenance.
LEMMA OutsideKeeps ==
  ASSUME Inv, DataOK', UNCHANGED <<maintenance, witness, pc, snapshot, todo>>,
         objects' = objects \/ maintenance = NoProc
  PROVE  Inv'
<1> SUFFICES ASSUME NEW q \in Procs
             PROVE  ProcInv(q)'
  BY DEF Inv
<1>1. CASE pc[q] \in Unowned
  BY <1>1 DEF Inv, ProcInv, PlanInv, Unowned, Deleting
<1>2. CASE pc[q] \notin Unowned
  <2>1. objects' = objects
    BY <1>2, CollectionAssumption DEF Inv, ProcInv
  <2>2. Present' = Present /\ \A o, S : Certain(o, S)' <=> Certain(o, S)
    BY <2>1 DEF Present, Certain
  <2>3. Reachable(snapshot[q])' = Reachable(snapshot[q])
    BY DEF Reachable
  <2>4. PlanInv(q)'
    BY <2>1, <2>2, <2>3 DEF Inv, ProcInv, PlanInv
  <2> QED
    BY <2>4 DEF Inv, ProcInv
<1> QED
  BY <1>1, <1>2

\* What Goto does to the steps of the processes.
LEMMA GotoKeeps ==
  ASSUME Inv, NEW p \in Procs, NEW l \in Labels, Goto(p, l)
  PROVE  /\ pc' \in [Procs -> Labels] /\ pc'[p] = l
         /\ \A q \in Procs \ {p} : pc'[q] = pc[q]
  BY DEF Goto, Inv, DataOK

\* The objects after a put keep their types.
LEMMA PutTypes ==
  ASSUME Inv, NEW c \in Candidates
  PROVE  /\ [o \in Objects |-> IF o \in Puts(c) THEN Settled(TRUE) ELSE objects[o]]
              \in [Objects -> CellOf(BOOLEAN)]
         /\ \A S : [o \in Objects |->
              IF o \in S /\ ~objects[o].seen THEN Replace(objects[o], TRUE) ELSE objects[o]]
                \in [Objects -> CellOf(BOOLEAN)]
         /\ [o \in Objects |-> SyncCell(objects[o])] \in [Objects -> CellOf(BOOLEAN)]
         /\ Append(head, c) \in Transactions \ {<< >>}
<1>1. Settled(TRUE) \in CellOf(BOOLEAN)
  BY CellTypes
<1>2. \A o \in Objects : /\ objects[o] \in CellOf(BOOLEAN)
                         /\ Replace(objects[o], TRUE) \in CellOf(BOOLEAN)
                         /\ SyncCell(objects[o]) \in CellOf(BOOLEAN)
  BY CellTypes DEF Inv, DataOK
<1>3. Append(head, c) \in Transactions \ {<< >>}
  BY DEF Inv, DataOK, Transactions, Inputs
<1> QED
  BY <1>1, <1>2, <1>3

\* Commits, branches and sessions.
LEMMA RequestKeeps ==
  ASSUME Inv, NEW p \in Procs, Request(p),
         ~\E pins \in SUBSET Objects : ReadHead(p, pins)
  PROVE  Inv'
<1>1. ASSUME NEW c \in Candidates, Commit(p, c) \/ InterruptedHead(p, c)
      PROVE  Inv'
  <2>1. /\ objects' = [o \in Objects |-> IF o \in Puts(c) THEN Settled(TRUE) ELSE objects[o]]
        /\ receipts' = receipts \cup {Append(head, c)}
        /\ head' \in {head, Append(head, c)} /\ maintenance = NoProc
        /\ UNCHANGED <<maintenance, remnant, branches, sessions, witness, pc, snapshot, todo>>
    BY <1>1 DEF Commit, InterruptedHead, CanCommit, Ready, Shared, work
  <2>2. branches' \in [Names -> receipts' \cup {<< >>}]
    BY <2>1 DEF Inv, DataOK
  <2>3. sessions' \in [Servers -> [Sessions -> receipts' \cup {<< >>}]]
    BY <2>1 DEF Inv, DataOK
  <2>4. snapshot' \in [Procs -> [roots : SUBSET receipts', pins : SUBSET Objects]]
    BY <2>1 DEF Inv, DataOK
  <2>5. objects' \in [Objects -> CellOf(BOOLEAN)] /\ receipts' \subseteq Transactions \ {<< >>}
    BY <2>1, PutTypes DEF Inv, DataOK
  <2>6. DataOK'
    BY <2>1, <2>2, <2>3, <2>4, <2>5 DEF Inv, DataOK
  <2> QED
    BY <2>1, <2>6, OutsideKeeps
<1>2. ASSUME NEW c \in Candidates, InterruptedPut(p, c)
      PROVE  Inv'
  <2>1. PICK S \in SUBSET Puts(c) : objects' = [o \in Objects |->
          IF o \in S /\ ~objects[o].seen THEN Replace(objects[o], TRUE) ELSE objects[o]]
    BY <1>2 DEF InterruptedPut
  <2>2. /\ maintenance = NoProc /\ remnant' \in {remnant, TRUE}
        /\ UNCHANGED <<maintenance, receipts, head, branches, sessions, witness,
                       pc, snapshot, todo>>
    BY <1>2 DEF InterruptedPut, CanCommit, Ready, Shared, work
  <2>3. objects' \in [Objects -> CellOf(BOOLEAN)]
    BY <2>1, PutTypes
  <2>4. DataOK'
    BY <2>2, <2>3 DEF Inv, DataOK
  <2> QED
    BY <2>2, <2>4, OutsideKeeps
<1>3. ASSUME NEW n \in Names, NEW t \in receipts, SetBranch(p, n, t)
      PROVE  Inv'
  <2>1. /\ branches' = [branches EXCEPT ![n] = t]
        /\ UNCHANGED <<maintenance, objects, remnant, receipts, head, sessions, witness,
                       pc, snapshot, todo>>
    BY <1>3 DEF SetBranch, work
  <2>2. DataOK'
    BY <2>1 DEF Inv, DataOK
  <2> QED
    BY <2>1, <2>2, OutsideKeeps
<1>4. ASSUME NEW s \in Sessions, BindSession(p, s) \/ CloseSession(p, s)
      PROVE  Inv'
  <2>1. PICK t \in receipts \cup {<< >>} : sessions' = [sessions EXCEPT ![p][s] = t]
    BY <1>4 DEF BindSession, CloseSession, Inv, DataOK
  <2>2. UNCHANGED <<maintenance, objects, remnant, receipts, head, branches, witness,
                    pc, snapshot, todo>> /\ p \in Servers
    BY <1>4 DEF BindSession, CloseSession, Ready, repository, work
  <2>3. sessions' \in [Servers -> [Sessions -> receipts \cup {<< >>}]]
    BY <2>1, <2>2 DEF Inv, DataOK
  <2>4. DataOK'
    BY <2>2, <2>3 DEF Inv, DataOK
  <2> QED
    BY <2>2, <2>4, OutsideKeeps
<1> QED
  BY <1>1, <1>2, <1>3, <1>4 DEF Request

\* Repository recovery.
LEMMA RecoverKeeps ==
  ASSUME Inv, NEW p \in Procs, Recover(p)
  PROVE  Inv'
<1>1. /\ maintenance = NoProc /\ remnant' = FALSE
      /\ objects' = [o \in Objects |-> SyncCell(objects[o])]
      /\ UNCHANGED <<maintenance, receipts, head, branches, sessions, witness, pc, snapshot, todo>>
  BY DEF Recover, work
<1>2. \A o \in Objects : SyncCell(objects[o]) \in CellOf(BOOLEAN)
  BY CellTypes DEF Inv, DataOK
<1>3. DataOK'
  BY <1>1, <1>2 DEF Inv, DataOK
<1> QED
  BY <1>1, <1>3, OutsideKeeps

\* An operation ends, perhaps with a change of its own witness.
LEMMA ReleaseKeeps ==
  ASSUME Inv, NEW p \in Procs, Release(p), UNCHANGED repository,
         sessions' \in [Servers -> [Sessions -> receipts \cup {<< >>}]],
         witness' \in CellOf({"none", "prefix", "exact"}),
         witness' = witness \/ maintenance = p
  PROVE  Inv'
<1>1. /\ pc' \in [Procs -> Labels] /\ pc'[p] = "idle"
      /\ \A q \in Procs \ {p} : pc'[q] = pc[q]
  BY GotoKeeps DEF Release, Labels
<1>2. /\ todo' \in [Procs -> SUBSET Objects] /\ todo'[p] = {}
      /\ \A q \in Procs \ {p} : todo'[q] = todo[q]
  BY DEF Release, Inv, DataOK
<1>3. /\ snapshot' \in [Procs -> [roots : SUBSET receipts, pins : SUBSET Objects]]
      /\ \A q \in Procs \ {p} : snapshot'[q] = snapshot[q]
  <2>1. NoSnapshot \in [roots : SUBSET receipts, pins : SUBSET Objects]
    BY DEF NoSnapshot
  <2> QED
    BY <2>1 DEF Release, Inv, DataOK
<1>4. /\ maintenance' \in Procs \cup {NoProc}
      /\ \A q \in Procs \ {p} : maintenance = q => maintenance' = q
  BY DEF Release, Inv, DataOK
<1>5. DataOK'
  BY <1>1, <1>2, <1>3, <1>4 DEF Inv, DataOK, repository
<1>6. Frame(p)
  BY <1>1, <1>2, <1>3, <1>4 DEF Frame, repository
<1>7. ProcInv(p)'
  BY <1>1, <1>2 DEF ProcInv, PlanInv, Unowned, Deleting
<1> QED
  BY <1>5, <1>6, <1>7, FrameKeeps DEF Inv

\* The ways in which a collection ends.
LEMMA EndKeeps ==
  ASSUME Inv, NEW p \in Procs,
         RefuseBranches(p) \/ RefuseWitness(p) \/ SyncRemoval(p) \/ FailRemoval(p) \/ Die(p)
  PROVE  Inv'
<1>1. Release(p) /\ UNCHANGED repository
  BY DEF RefuseBranches, RefuseWitness, SyncRemoval, FailRemoval, Die
<1>2. witness' \in CellOf({"none", "prefix", "exact"}) /\ (witness' = witness \/ maintenance = p)
  <2>1. CASE SyncRemoval(p)
    BY <2>1, CellTypes DEF SyncRemoval, Inv, DataOK, ProcInv, Unowned
  <2>2. CASE ~SyncRemoval(p)
    BY <2>2 DEF RefuseBranches, RefuseWitness, FailRemoval, Die, Inv, DataOK
  <2> QED
    BY <2>1, <2>2
<1>3. sessions' \in [Servers -> [Sessions -> receipts \cup {<< >>}]]
  <2>1. CASE Die(p)
    BY <2>1 DEF Die, Inv, DataOK
  <2>2. CASE ~Die(p)
    BY <2>2 DEF RefuseBranches, RefuseWitness, FailRemoval, SyncRemoval, Inv, DataOK
  <2> QED
    BY <2>1, <2>2
<1> QED
  BY <1>1, <1>2, <1>3, ReleaseKeeps

\* The snapshot is read before maintenance is taken.
LEMMA SnapshotKeeps ==
  ASSUME Inv, NEW p \in Procs,
         (\E pins \in SUBSET Objects : ReadHead(p, pins)) \/ ReadBranches(p)
  PROVE  Inv'
<1>1. /\ UNCHANGED <<maintenance, objects, remnant, receipts, head, branches, sessions,
                     witness, todo>>
      /\ pc[p] \in Unowned /\ p \in Servers
  BY DEF ReadHead, ReadBranches, Ready, repository, Unowned, Inv, ProcInv
<1>2. PICK l \in {"branches", "acquire"} : Goto(p, l)
  BY DEF ReadHead, ReadBranches
<1>3. /\ pc' \in [Procs -> Labels] /\ pc'[p] \in {"branches", "acquire"}
      /\ \A q \in Procs \ {p} : pc'[q] = pc[q]
  BY <1>2, GotoKeeps DEF Labels
<1>4. PICK e \in [roots : SUBSET receipts, pins : SUBSET Objects] :
        snapshot' = [snapshot EXCEPT ![p] = e]
  <2>1. ASSUME NEW pins \in SUBSET Objects, ReadHead(p, pins)
        PROVE  \E e \in [roots : SUBSET receipts, pins : SUBSET Objects] :
                 snapshot' = [snapshot EXCEPT ![p] = e]
    <3>1. [roots |-> {head}, pins |-> pins] \in [roots : SUBSET receipts, pins : SUBSET Objects]
      BY DEF Inv, DataOK
    <3> QED
      BY <2>1, <3>1 DEF ReadHead
  <2>2. CASE ReadBranches(p)
    <3>1. p \in Servers => SessionTargets(p) \subseteq receipts
      BY DEF SessionTargets, Inv, DataOK
    <3>2. p \in Servers
      BY <2>2 DEF ReadBranches, Inv, ProcInv
    <3>3. BranchTargets \subseteq receipts
      BY DEF BranchTargets, Inv, DataOK
    <3> DEFINE e == [snapshot[p] EXCEPT !.roots = @ \cup BranchTargets \cup SessionTargets(p)]
    <3>4. e \in [roots : SUBSET receipts, pins : SUBSET Objects]
      BY <3>1, <3>2, <3>3 DEF Inv, DataOK
    <3>5. snapshot' = [snapshot EXCEPT ![p] = e]
      BY <2>2 DEF ReadBranches, Inv, DataOK
    <3> QED
      BY <3>4, <3>5
  <2> QED
    BY <2>1, <2>2
<1>5. /\ snapshot' \in [Procs -> [roots : SUBSET receipts, pins : SUBSET Objects]]
      /\ \A q \in Procs \ {p} : snapshot'[q] = snapshot[q]
  BY <1>4 DEF Inv, DataOK
<1>6. DataOK'
  BY <1>1, <1>3, <1>5 DEF Inv, DataOK
<1>7. Frame(p)
  BY <1>1, <1>3, <1>5 DEF Frame
<1>8. ProcInv(p)'
  BY <1>1, <1>3 DEF Inv, ProcInv, PlanInv, Unowned, Deleting
<1> QED
  BY <1>6, <1>7, <1>8, FrameKeeps DEF Inv

\* A step of the owner of maintenance, or of a process that takes it, needs to
\* be looked at for that process only.
LEMMA OwnStep ==
  ASSUME Inv, NEW p \in Procs, NEW l \in Labels, Goto(p, l),
         maintenance \in {NoProc, p}, maintenance' \in {maintenance, p},
         UNCHANGED <<remnant, receipts, head, branches, sessions, snapshot>>,
         objects' \in [Objects -> CellOf(BOOLEAN)],
         witness' \in CellOf({"none", "prefix", "exact"}),
         todo' \in [Procs -> SUBSET Objects], \A q \in Procs \ {p} : todo'[q] = todo[q],
         ProcInv(p)'
  PROVE  Inv'
<1>1. /\ pc' \in [Procs -> Labels]
      /\ \A q \in Procs \ {p} : pc'[q] = pc[q]
  BY GotoKeeps
<1>2. DataOK'
  BY <1>1 DEF Inv, DataOK
<1>3. Frame(p)
  BY <1>1, CollectionAssumption DEF Frame
<1> QED
  BY <1>2, <1>3, FrameKeeps DEF Inv

\* The ownership and the witness.
LEMMA WitnessKeeps ==
  ASSUME Inv, NEW p \in Procs,
         \/ AcquireMaintenance(p) \/ CreateWitness(p) \/ WriteWitness(p) \/ SyncWitness(p)
         \/ RemoveWitness(p) \/ RecoverWitness(p) \/ Fail(p)
  PROVE  Inv'
<1>1. /\ UNCHANGED <<objects, remnant, receipts, head, branches, sessions, snapshot, todo>>
      /\ maintenance \in {NoProc, p} /\ maintenance' = p
  BY DEF AcquireMaintenance, CreateWitness, WriteWitness, SyncWitness, RemoveWitness,
         RecoverWitness, Fail, repository, Inv, ProcInv, Unowned
<1>2. PICK l \in {"create", "write", "sync", "plan", "drop", "dropped"} : Goto(p, l)
  BY DEF AcquireMaintenance, CreateWitness, WriteWitness, SyncWitness, RemoveWitness,
         RecoverWitness, Fail
<1>3. pc'[p] = l /\ l \in Labels
  BY <1>2, GotoKeeps DEF Labels
<1>4. witness' \in CellOf({"none", "prefix", "exact"})
  BY CellTypes DEF AcquireMaintenance, CreateWitness, WriteWitness, SyncWitness, RemoveWitness,
         RecoverWitness, Fail, Inv, DataOK
<1>5. l = "sync" => witness'.seen = "exact"
  <2>1. l = "sync" => WriteWitness(p)
    BY <1>2, <1>3 DEF AcquireMaintenance, CreateWitness, WriteWitness, SyncWitness,
         RemoveWitness, RecoverWitness, Fail, Goto, Inv, DataOK
  <2> QED
    BY <2>1, CellFields DEF WriteWitness
<1>6. l = "plan" => witness' = Settled("exact")
  <2>1. l = "plan" => SyncWitness(p)
    BY <1>2, <1>3 DEF AcquireMaintenance, CreateWitness, WriteWitness, SyncWitness,
         RemoveWitness, RecoverWitness, Fail, Goto, Inv, DataOK
  <2> QED
    <3>1. SyncWitness(p) => witness' = SyncCell(witness) /\ witness.seen = "exact"
      BY DEF SyncWitness, Inv, ProcInv
    <3>2. SyncCell(witness) = Settled(witness.seen)
      BY CellFields
    <3> QED
      BY <2>1, <3>1, <3>2
<1>7. l \in {"create", "write", "sync", "plan"} => todo[p] = {} /\ p \in Servers
  <2>1. l \in {"create", "write", "sync", "plan"} =>
          AcquireMaintenance(p) \/ CreateWitness(p) \/ WriteWitness(p) \/ SyncWitness(p)
    BY <1>2, <1>3 DEF RemoveWitness, RecoverWitness, Fail, Goto, Inv, DataOK
  <2> QED
    BY <2>1 DEF AcquireMaintenance, CreateWitness, WriteWitness, SyncWitness, Inv, ProcInv,
         Deleting
<1>8. ProcInv(p)'
  BY <1>1, <1>3, <1>5, <1>6, <1>7 DEF ProcInv, PlanInv, Deleting
<1> QED
  BY <1>1, <1>2, <1>3, <1>4, <1>8, OwnStep DEF Inv, DataOK

\* The plan and the deletions.
LEMMA DeletingKeeps ==
  ASSUME Inv, NEW p \in Procs,
         \/ Plan(p) \/ SyncLeaves(p) \/ SyncUnlinked(p) \/ Collected(p)
         \/ \E o \in Objects : Unlink(p, o)
  PROVE  Inv'
<1>1. /\ UNCHANGED <<maintenance, remnant, receipts, head, branches, sessions, witness, snapshot>>
      /\ pc[p] \in {"plan"} \cup Deleting
  BY DEF Plan, SyncLeaves, SyncUnlinked, Collected, Unlink, repository, Deleting
<1>2. /\ maintenance = p /\ witness = Settled("exact") /\ p \in Servers
      /\ witness \in CellOf({"none", "prefix", "exact"})
  BY <1>1 DEF Inv, DataOK, ProcInv, Unowned, Deleting
<1>3. PICK R : R = Reachable(snapshot[p])
  OBVIOUS
<1>4. R = Reachable(snapshot[p])'
  BY <1>1, <1>3 DEF Reachable
<1>5. ASSUME NEW l \in Deleting, Goto(p, l), NEW D, D = todo'[p],
             objects' \in [Objects -> CellOf(BOOLEAN)],
             todo' \in [Procs -> SUBSET Objects], \A q \in Procs \ {p} : todo'[q] = todo[q],
             R \subseteq Objects, R \cap D = {},
             l = "leaves" => Present' = R \cup D,
             l = "delete" => \A o \in Objects : Certain(o, R \cup D)',
             l = "leaf" => \E x \in D : /\ ~objects'[x].seen
                                        /\ \A o \in Objects \ {x} : Certain(o, R \cup D)',
             l = "collected" => \A o \in Objects : Certain(o, R)'
      PROVE  Inv'
  <2>1. pc'[p] = l /\ l \in Labels
    BY <1>5, GotoKeeps DEF Labels, Deleting
  <2>2. PlanInv(p)'
    BY <1>4, <1>5, <2>1 DEF PlanInv, Certain
  <2>3. ProcInv(p)'
    BY <1>1, <1>2, <1>5, <2>1, <2>2 DEF ProcInv, Deleting
  <2> QED
    BY <1>1, <1>2, <1>5, <2>1, <2>3, OwnStep
<1>6. PICK T \in SUBSET Objects : T = todo[p]
  BY DEF Inv, DataOK
<1>7. /\ objects \in [Objects -> CellOf(BOOLEAN)] /\ todo \in [Procs -> SUBSET Objects]
      /\ pc[p] \in Deleting => R \subseteq Objects /\ R \cap T = {}
  BY <1>3, <1>6 DEF Inv, DataOK, ProcInv, PlanInv
<1>8. ASSUME objects' = objects
      PROVE  Present' = Present /\ \A o, S : Certain(o, S)' <=> Certain(o, S)
  BY <1>8 DEF Present, Certain
<1>9. CASE Plan(p)
  <2>1. PICK D \in SUBSET Objects : D = Present \ R
    BY DEF Present
  <2>2. /\ todo' = [todo EXCEPT ![p] = D] /\ Goto(p, "leaves") /\ objects' = objects
        /\ R \subseteq Present
    BY <1>3, <1>9, <2>1 DEF Plan, Plans, repository
  <2>3. /\ D = todo'[p] /\ R \subseteq Objects /\ R \cap D = {} /\ Present' = R \cup D
        /\ todo' \in [Procs -> SUBSET Objects] /\ \A q \in Procs \ {p} : todo'[q] = todo[q]
    BY <1>7, <1>8, <2>1, <2>2 DEF Present
  <2> QED
    BY <1>5, <1>7, <2>2, <2>3 DEF Deleting
<1>10. CASE SyncLeaves(p)
  <2>1. /\ objects' = [o \in Objects |-> SyncCell(objects[o])] /\ Goto(p, "delete")
        /\ todo' = todo /\ pc[p] = "leaves"
    BY <1>10 DEF SyncLeaves
  <2>2. Present = R \cup T
    BY <1>3, <1>6, <2>1 DEF Inv, ProcInv, PlanInv
  <2>3. \A o \in Objects : objects[o] \in CellOf(BOOLEAN) /\ SyncCell(objects[o]) \in CellOf(BOOLEAN)
    BY <1>7, CellTypes
  <2>4. \A o \in Objects : Certain(o, R \cup T)'
    <3> SUFFICES ASSUME NEW o \in Objects
                 PROVE  /\ o \in R \cup T => objects'[o] = Settled(TRUE)
                        /\ o \notin R \cup T => objects'[o] = Settled(FALSE)
      BY DEF Certain
    <3>1. objects'[o] = Settled(objects[o].seen)
      BY <2>1, CellFields
    <3>2. objects[o].seen \in BOOLEAN
      BY <2>3 DEF CellOf
    <3>3. o \in R \cup T <=> objects[o].seen
      BY <2>2 DEF Present
    <3>4. ASSUME o \in R \cup T PROVE objects[o].seen = TRUE
      BY <3>2, <3>3, <3>4
    <3>5. ASSUME o \notin R \cup T PROVE objects[o].seen = FALSE
      BY <3>2, <3>3, <3>5
    <3> QED
      BY <3>1, <3>4, <3>5, Zenon
  <2>5. objects' \in [Objects -> CellOf(BOOLEAN)]
    BY <2>1, <2>3
  <2> QED
    BY <1>5, <1>6, <1>7, <2>1, <2>4, <2>5 DEF Deleting
<1>11. ASSUME NEW x \in Objects, Unlink(p, x)
       PROVE  Inv'
  <2>1. /\ objects' = [objects EXCEPT ![x] = Replace(@, FALSE)] /\ Goto(p, "leaf")
        /\ todo' = todo /\ pc[p] = "delete" /\ x \in T
    BY <1>6, <1>11 DEF Unlink
  <2>2. \A o \in Objects : Certain(o, R \cup T)
    BY <1>3, <1>6, <2>1 DEF Inv, ProcInv, PlanInv
  <2>3. /\ objects' = [objects EXCEPT ![x] = Replace(objects[x], FALSE)]
        /\ Replace(objects[x], FALSE) \in CellOf(BOOLEAN)
        /\ Replace(objects[x], FALSE).seen = FALSE
    BY <1>7, <2>1, CellTypes, CellFields
  <2>4. objects'[x].seen = FALSE /\ \A o \in Objects \ {x} : objects'[o] = objects[o]
    BY <1>7, <2>3
  <2>5. \A o \in Objects \ {x} : Certain(o, R \cup T)'
    BY <2>2, <2>4 DEF Certain
  <2>6. objects' \in [Objects -> CellOf(BOOLEAN)]
    BY <1>7, <2>3
  <2>7. \E y \in T : /\ ~objects'[y].seen
                     /\ \A o \in Objects \ {y} : Certain(o, R \cup T)'
    BY <2>1, <2>4, <2>5
  <2> QED
    BY <1>5, <1>6, <1>7, <2>1, <2>6, <2>7 DEF Deleting
<1>12. CASE SyncUnlinked(p)
  <2>1. pc[p] = "leaf" /\ Goto(p, "delete")
    BY <1>12 DEF SyncUnlinked
  <2>2. PICK x \in T : /\ T \ Present = {x} /\ ~objects[x].seen
                       /\ \A o \in Objects \ {x} : Certain(o, R \cup T)
    BY <1>3, <1>6, <2>1, LeafGone DEF Inv, ProcInv
  <2>3. /\ objects' = [objects EXCEPT ![x] = SyncCell(objects[x])]
        /\ todo' = [todo EXCEPT ![p] = T \ {x}]
    <3>1. PICK o \in T \ Present : /\ objects' = [objects EXCEPT ![o] = SyncCell(@)]
                                   /\ todo' = [todo EXCEPT ![p] = @ \ {o}]
      BY <1>6, <1>12 DEF SyncUnlinked
    <3>2. o = x
      BY <2>2, <3>1
    <3> QED
      BY <1>6, <1>7, <2>2, <3>1, <3>2
  <2>4. objects[x] \in CellOf(BOOLEAN) /\ objects[x].seen = FALSE
    <3>1. objects[x] \in CellOf(BOOLEAN)
      BY <1>7, <2>2
    <3>2. objects[x].seen \in BOOLEAN
      BY <3>1 DEF CellOf
    <3> QED
      BY <2>2, <3>1, <3>2
  <2>5. SyncCell(objects[x]) = Settled(FALSE) /\ Settled(FALSE) \in CellOf(BOOLEAN)
    BY <2>4, CellTypes, CellFields
  <2>6. /\ objects' \in [Objects -> CellOf(BOOLEAN)] /\ objects'[x] = Settled(FALSE)
        /\ \A o \in Objects \ {x} : objects'[o] = objects[o]
    BY <1>7, <2>2, <2>3, <2>5
  <2>7. /\ todo' \in [Procs -> SUBSET Objects] /\ todo'[p] = T \ {x}
        /\ \A q \in Procs \ {p} : todo'[q] = todo[q]
    BY <1>7, <2>3
  <2>8. x \notin R /\ R \subseteq Objects /\ R \cap (T \ {x}) = {}
    BY <1>7, <2>1, <2>2 DEF Deleting
  <2>9. \A o \in Objects : Certain(o, R \cup (T \ {x}))'
    BY <2>2, <2>6, <2>8 DEF Certain
  <2> QED
    BY <1>5, <2>1, <2>6, <2>7, <2>8, <2>9 DEF Deleting
<1>13. CASE Collected(p)
  <2>1. pc[p] = "delete" /\ T = {} /\ Goto(p, "collected") /\ todo' = todo /\ objects' = objects
    BY <1>6, <1>13 DEF Collected, repository
  <2>2. \A o \in Objects : Certain(o, R \cup T)
    BY <1>3, <1>6, <2>1 DEF Inv, ProcInv, PlanInv
  <2>3. R \cup T = R
    BY <2>1
  <2>4. \A o \in Objects : Certain(o, R)'
    BY <1>8, <2>1, <2>2, <2>3
  <2> QED
    BY <1>5, <1>6, <1>7, <2>1, <2>4 DEF Deleting
<1> QED
  BY <1>9, <1>10, <1>11, <1>12, <1>13

\* A power loss ends every collection.
LEMMA PowerLossKeeps ==
  ASSUME Inv, PowerLoss
  PROVE  Inv'
<1>1. /\ maintenance' = NoProc /\ pc' = [p \in Procs |-> "idle"]
      /\ snapshot' = [p \in Procs |-> NoSnapshot] /\ todo' = [p \in Procs |-> {}]
      /\ sessions' = [p \in Servers |-> [s \in Sessions |-> << >>]]
      /\ remnant' \in {remnant, FALSE} /\ UNCHANGED <<receipts, head, branches>>
  BY DEF PowerLoss
<1>2. objects' \in [Objects -> CellOf(BOOLEAN)]
  <2>1. objects' \in [Objects -> {Settled(TRUE), Settled(FALSE)}]
    BY DEF PowerLoss
  <2>2. Settled(TRUE) \in CellOf(BOOLEAN) /\ Settled(FALSE) \in CellOf(BOOLEAN)
    BY CellTypes
  <2> QED
    BY <2>1, <2>2
<1>3. witness' \in CellOf({"none", "prefix", "exact"})
  BY CellTypes DEF PowerLoss, Inv, DataOK
<1>4. snapshot' \in [Procs -> [roots : SUBSET receipts', pins : SUBSET Objects]]
  BY <1>1 DEF NoSnapshot
<1>5. pc' \in [Procs -> Labels] /\ todo' \in [Procs -> SUBSET Objects]
        /\ sessions' \in [Servers -> [Sessions -> receipts' \cup {<< >>}]]
  BY <1>1 DEF Labels
<1>6. DataOK'
  BY <1>1, <1>2, <1>3, <1>4, <1>5 DEF Inv, DataOK
<1>7. \A p \in Procs : ProcInv(p)'
  BY <1>1 DEF ProcInv, PlanInv, Unowned, Deleting
<1> QED
  BY <1>6, <1>7 DEF Inv

\* Every step keeps the inductive invariant.
LEMMA StepInv == Inv /\ [Next]_vars => Inv'
<1> SUFFICES ASSUME Inv, [Next]_vars
             PROVE  Inv'
  OBVIOUS
<1>1. ASSUME NEW p \in Procs, Request(p) \/ CollectStep(p) \/ RecoverWitness(p) \/ Recover(p)
                              \/ Die(p)
      PROVE  Inv'
  <2>1. CASE \E pins \in SUBSET Objects : ReadHead(p, pins)
    BY <2>1, SnapshotKeeps
  <2>2. CASE Request(p) /\ ~\E pins \in SUBSET Objects : ReadHead(p, pins)
    BY <2>2, RequestKeeps
  <2>3. CASE CollectStep(p)
    BY <2>3, SnapshotKeeps, EndKeeps, WitnessKeeps, DeletingKeeps DEF CollectStep
  <2>4. CASE RecoverWitness(p) \/ Recover(p) \/ Die(p)
    BY <2>4, WitnessKeeps, RecoverKeeps, EndKeeps
  <2> QED
    BY <1>1, <2>1, <2>2, <2>3, <2>4
<1>2. CASE UNCHANGED vars
  <2>1. UNCHANGED <<maintenance, objects, remnant, receipts, head, branches, sessions, witness,
                    pc, snapshot, todo>>
    BY <1>2 DEF vars, repository, work
  <2>2. DataOK'
    BY <2>1 DEF Inv, DataOK
  <2> QED
    BY <2>1, <2>2, OutsideKeeps
<1> QED
  BY <1>1, <1>2, PowerLossKeeps DEF Next

\* It holds in every reachable state.
LEMMA Invariance == Spec => []Inv
  BY InitInv, StepInv, PTL DEF Spec

\* The state keeps its types, a process past the acquisition owns
\* maintenance, and at most one unlinked candidate awaits its sync.
THEOREM TypeCorrect == Spec => []TypeOK
  BY Invariance, InvImplies, PTL

\* No recovery takes the witness of a collection that plans or deletes, and
\* no power loss finds it incomplete.
THEOREM WitnessCoversDeletionInvariant == Spec => []WitnessCoversDeletion
  BY Invariance, InvImplies, PTL

\* When a collection reports that it is done, exactly the reachable objects
\* are left, for good, whatever earlier collections and puts left unsynced.
THEOREM CollectedIsFinalInvariant == Spec => []CollectedIsFinal
  BY Invariance, InvImplies, PTL
-----------------------------------------------------------------------------
(* What the collections of the only server spare.                          *)

\* The transactions whose state HeadStaysWhole is about.
Bound == {head} \cup UNION {SessionTargets(p) : p \in Servers}

\* A value that is certain survives a sync and a power loss.
LEMMA CertainCell ==
  ASSUME NEW V, NEW v, NEW c \in CellOf(V), c.disk = {v}
  PROVE  c.seen = v /\ SyncCell(c).disk = {v} /\ \A d \in AfterPowerLoss(c) : d.disk = {v}
  BY DEF CellOf, SyncCell, Settled, AfterPowerLoss

\* Targets are receipts, and what they need are objects.
LEMMA TargetTypes ==
  ASSUME Inv
  PROVE  /\ Bound \subseteq Targets /\ Targets \subseteq receipts
         /\ \A t \in receipts : Needs(t) \subseteq Objects
<1>1. /\ receipts \subseteq Transactions \ {<< >>} /\ head \in receipts
      /\ branches \in [Names -> receipts \cup {<< >>}]
      /\ sessions \in [Servers -> [Sessions -> receipts \cup {<< >>}]]
  BY DEF Inv, DataOK
<1>2. BranchTargets \subseteq receipts
  BY <1>1 DEF BranchTargets
<1>3. \A p \in Servers : SessionTargets(p) \subseteq receipts
  BY <1>1 DEF SessionTargets
<1>4. Bound \subseteq Targets /\ Targets \subseteq receipts
  BY <1>1, <1>2, <1>3 DEF Bound, Targets
<1>5. \A t \in receipts : Needs(t) \subseteq Objects
  BY <1>1, NeedsInside
<1> QED
  BY <1>4, <1>5

\* Nothing is planned while nobody owns maintenance.
LEMMA NothingPlanned ==
  ASSUME Inv, maintenance = NoProc, NEW p \in Procs
  PROVE  todo[p] = {} /\ pc[p] \in Unowned
  BY CollectionAssumption DEF Inv, ProcInv, Unowned, Deleting

\* While the only server is idle there is no collection.
LEMMA NobodyCollects ==
  ASSUME Inv, OneServer, NEW p \in Servers, pc[p] = "idle", NEW q \in Procs
  PROVE  pc[q] \in {"idle", "drop", "dropped"}
  BY DEF OneServer, Inv, ProcInv

\* Fewer targets and fewer deletions keep the plan sparing.
LEMMA PlanKept ==
  ASSUME SparingInv, Targets' \subseteq Targets, \A q \in Procs : todo'[q] \subseteq todo[q]
  PROVE  PlanSparesRetained'
<1>1. Retained = UNION {Needs(t) : t \in Targets} /\ Retained' = UNION {Needs(t) : t \in Targets'}
  BY DEF Retained, Targets
<1>2. Retained' \subseteq Retained
  BY <1>1
<1>3. \A q \in Procs : todo[q] \cap Retained = {}
  BY DEF SparingInv, PlanSparesRetained
<1> QED
  BY <1>2, <1>3 DEF PlanSparesRetained

\* What is bound stays whole if its objects stay durable.
LEMMA WholeKept ==
  ASSUME SparingInv, Bound' \subseteq Bound,
         \A t \in Bound : \A o \in Needs(t) :
           o \in Objects /\ objects[o].disk = {TRUE} => objects'[o].disk = {TRUE}
  PROVE  HeadStaysWhole'
<1>1. \A t \in Bound : \A o \in Needs(t) : objects[o].disk = {TRUE}
  BY DEF SparingInv, HeadStaysWhole, Bound
<1>2. \A t \in Bound : Needs(t) \subseteq Objects
  BY TargetTypes DEF SparingInv
<1>3. \A t \in Bound' : \A o \in Needs(t) : objects'[o].disk = {TRUE}
  BY <1>1, <1>2
<1> QED
  BY <1>3 DEF HeadStaysWhole, Bound

\* A snapshot stays good while nothing is added to what it must retain.
LEMMA SnapshotKept ==
  ASSUME SparingInv, NEW q \in Procs, pc'[q] = pc[q], snapshot'[q] = snapshot[q],
         head' = head, Targets' \subseteq Targets
  PROVE  SnapshotInv(q)'
  BY DEF SparingInv, SnapshotInv

\* The targets when a step leaves the repository and the sessions alone, or
\* ends sessions.
LEMMA TargetsKept ==
  ASSUME UNCHANGED <<head, branches>>, \A p \in Servers : SessionTargets(p)' \subseteq SessionTargets(p)
  PROVE  Targets' \subseteq Targets /\ Bound' \subseteq Bound
<1>1. BranchTargets' = BranchTargets
  BY DEF BranchTargets
<1> QED
  BY <1>1 DEF Targets, Bound

\* A state that is whole stays so when objects are put or synced.
LEMMA PutKeepsWhole ==
  ASSUME Inv, NEW o \in Objects, objects[o].disk = {TRUE},
         \/ objects'[o] = objects[o] \/ objects'[o] = Settled(TRUE)
         \/ objects'[o] = SyncCell(objects[o])
         \/ ~objects[o].seen /\ objects'[o] = Replace(objects[o], TRUE)
  PROVE  objects'[o].disk = {TRUE}
<1>1. objects[o] \in CellOf(BOOLEAN)
  BY DEF Inv, DataOK
<1>2. objects[o].seen = TRUE /\ SyncCell(objects[o]).disk = {TRUE}
  <2>1. PICK c \in CellOf(BOOLEAN) : c = objects[o]
    BY <1>1
  <2>2. PICK v : v = TRUE
    OBVIOUS
  <2>3. c.disk = {v}
    BY <2>1, <2>2, Zenon
  <2>4. c.seen = v /\ SyncCell(c).disk = {v}
    BY <2>3, CertainCell
  <2> QED
    BY <2>1, <2>2, <2>4, Zenon
<1>3. Settled(TRUE).disk = {TRUE}
  BY CellFields
<1> QED
  BY <1>2, <1>3

\* Nothing is planned for deletion at first.
LEMMA InitSparing == Init /\ OneServer => SparingInv
<1> SUFFICES ASSUME Init, OneServer
             PROVE  SparingInv
  OBVIOUS
<1>1. Inv
  BY InitInv
<1>2. PlanSparesRetained
  BY DEF Init, PlanSparesRetained
<1>3. HeadStaysWhole
  <2>1. \A p \in Servers : SessionTargets(p) = {}
    BY DEF Init, SessionTargets
  <2>2. \A t \in {head} \cup UNION {SessionTargets(p) : p \in Servers} : t = <<Genesis>>
    BY <2>1 DEF Init
  <2>3. Needs(<<Genesis>>) \subseteq Objects
    BY <1>1, TargetTypes DEF Init, Inv, DataOK
  <2>4. \A o \in Needs(<<Genesis>>) : objects[o].disk = {TRUE}
    <3> SUFFICES ASSUME NEW o \in Needs(<<Genesis>>)
                 PROVE  objects[o].disk = {TRUE}
      OBVIOUS
    <3>1. objects[o] = Settled(o \in Needs(<<Genesis>>))
      BY <2>3 DEF Init
    <3>2. (o \in Needs(<<Genesis>>)) = TRUE
      OBVIOUS
    <3>3. objects[o] = Settled(TRUE)
      BY <3>1, <3>2, Zenon
    <3> QED
      BY <3>3, CellFields
  <2> QED
    BY <2>2, <2>4 DEF HeadStaysWhole
<1>4. \A p \in Procs : SnapshotInv(p)
  BY DEF Init, SnapshotInv
<1> QED
  BY <1>1, <1>2, <1>3, <1>4 DEF SparingInv

\* A request of the server finds no collection.
LEMMA RequestSpares ==
  ASSUME SparingInv, NEW p \in Procs, Request(p), Inv',
         ~\E pins \in SUBSET Objects : ReadHead(p, pins)
  PROVE  SparingInv'
<1>1. p \in Servers /\ pc[p] = "idle" /\ UNCHANGED <<pc, snapshot, todo>>
  BY DEF Request, Commit, InterruptedPut, InterruptedHead, SetBranch, BindSession, CloseSession,
         CanCommit, Ready, work
<1>2. \A q \in Procs : SnapshotInv(q)'
  BY <1>1, NobodyCollects DEF SparingInv, SnapshotInv
<1>3. SUFFICES PlanSparesRetained' /\ HeadStaysWhole'
  BY <1>2 DEF SparingInv, OneServer
<1>4. ASSUME maintenance = NoProc PROVE PlanSparesRetained'
  BY <1>1, <1>4, NothingPlanned DEF PlanSparesRetained, SparingInv
<1>5. ASSUME UNCHANGED <<head, sessions>> PROVE Bound' = Bound
  BY <1>5 DEF Bound, SessionTargets
<1>6. ASSUME NEW c \in Candidates, Commit(p, c) \/ InterruptedHead(p, c)
      PROVE  PlanSparesRetained' /\ HeadStaysWhole'
  <2>1. /\ objects' = [o \in Objects |-> IF o \in Puts(c) THEN Settled(TRUE) ELSE objects[o]]
        /\ maintenance = NoProc /\ sessions' = sessions
        /\ head' = head \/ head' = Append(head, c)
    BY <1>6 DEF Commit, InterruptedHead, CanCommit, Ready, Shared
  <2>2. \A o \in Objects : objects[o].disk = {TRUE} => objects'[o].disk = {TRUE}
    BY <2>1, PutKeepsWhole DEF SparingInv
  <2>3. \A t \in Bound : \A o \in Needs(t) : objects'[o].disk = {TRUE}
    <3>1. \A t \in Bound : \A o \in Needs(t) : objects[o].disk = {TRUE} /\ o \in Objects
      BY TargetTypes DEF SparingInv, HeadStaysWhole, Bound
    <3> QED
      BY <2>2, <3>1
  <2>4. \A o \in Needs(Append(head, c)) : objects'[o].disk = {TRUE}
    <3>1. head \in Transactions /\ head \in Bound /\ Binds[c] \subseteq Objects
      BY CollectionAssumption DEF SparingInv, Inv, DataOK, Bound, Inputs
    <3>2. Last(Append(head, c)) = c
      BY <3>1 DEF Last, Transactions, Inputs
    <3>3. Needs(Append(head, c)) = Closure(Binds[c]) /\ Closure(Binds[c]) \subseteq Objects
      BY <3>1, <3>2, ClosureInside DEF Needs
    <3>4. Settled(TRUE).disk = {TRUE}
      BY CellFields
    <3>5. ASSUME NEW o \in Closure(Binds[c]) PROVE objects'[o].disk = {TRUE}
      <4>1. CASE o \in Puts(c)
        BY <2>1, <3>3, <3>4, <4>1
      <4>2. CASE o \notin Puts(c)
        BY <2>3, <3>1, <4>2 DEF Puts
      <4> QED
        BY <4>1, <4>2
    <3> QED
      BY <3>3, <3>5
  <2>5. Bound' \subseteq Bound \cup {Append(head, c)}
    BY <2>1 DEF Bound, SessionTargets
  <2>6. \A t \in Bound' : \A o \in Needs(t) : objects'[o].disk = {TRUE}
    BY <2>3, <2>4, <2>5
  <2> QED
    BY <1>4, <2>1, <2>6 DEF HeadStaysWhole, Bound
<1>7. ASSUME NEW c \in Candidates, InterruptedPut(p, c)
      PROVE  PlanSparesRetained' /\ HeadStaysWhole'
  <2>1. PICK S \in SUBSET Puts(c) : objects' = [o \in Objects |->
          IF o \in S /\ ~objects[o].seen THEN Replace(objects[o], TRUE) ELSE objects[o]]
    BY <1>7 DEF InterruptedPut
  <2>2. maintenance = NoProc /\ UNCHANGED <<head, sessions>>
    BY <1>7 DEF InterruptedPut, CanCommit, Ready, Shared
  <2>3. \A o \in Objects : objects[o].disk = {TRUE} => objects'[o].disk = {TRUE}
    BY <2>1, PutKeepsWhole DEF SparingInv
  <2> QED
    BY <1>4, <1>5, <2>2, <2>3, WholeKept
<1>8. ASSUME NEW n \in Names, NEW t \in receipts, SetBranch(p, n, t)
      PROVE  PlanSparesRetained' /\ HeadStaysWhole'
  <2>1. maintenance = NoProc /\ UNCHANGED <<head, sessions, objects>>
    BY <1>8 DEF SetBranch, Ready, Shared
  <2> QED
    BY <1>4, <1>5, <2>1, WholeKept
<1>9. ASSUME NEW s \in Sessions, BindSession(p, s)
      PROVE  PlanSparesRetained' /\ HeadStaysWhole'
  <2>1. /\ maintenance = NoProc /\ UNCHANGED <<head, objects>>
        /\ sessions' = [sessions EXCEPT ![p][s] = head]
    BY <1>9 DEF BindSession, Ready, Shared, repository
  <2>2. \A q \in Servers : SessionTargets(q)' \subseteq SessionTargets(q) \cup {head}
    BY <2>1 DEF SessionTargets, SparingInv, Inv, DataOK
  <2>3. Bound' \subseteq Bound
    BY <2>1, <2>2 DEF Bound
  <2> QED
    BY <1>4, <2>1, <2>3, WholeKept
<1>10. ASSUME NEW s \in Sessions, CloseSession(p, s)
       PROVE  PlanSparesRetained' /\ HeadStaysWhole'
  <2>1. /\ UNCHANGED <<head, branches, objects, todo>>
        /\ sessions' = [sessions EXCEPT ![p][s] = << >>]
    BY <1>10 DEF CloseSession, repository, work
  <2>2. \A q \in Servers : SessionTargets(q)' \subseteq SessionTargets(q)
    BY <2>1 DEF SessionTargets, SparingInv, Inv, DataOK
  <2>3. Targets' \subseteq Targets /\ Bound' \subseteq Bound
    BY <2>1, <2>2, TargetsKept
  <2> QED
    BY <2>1, <2>3, PlanKept, WholeKept
<1> QED
  BY <1>6, <1>7, <1>8, <1>9, <1>10 DEF Request

\* A step of the collection that changes no file.
LEMMA QuietSpares ==
  ASSUME SparingInv, NEW p \in Procs, Inv', UNCHANGED <<objects, head, branches>>,
         \A q \in Servers : SessionTargets(q)' \subseteq SessionTargets(q),
         \A q \in Procs : todo'[q] \subseteq todo[q],
         \A q \in Procs \ {p} : pc'[q] = pc[q] /\ snapshot'[q] = snapshot[q],
         SnapshotInv(p)'
  PROVE  SparingInv'
<1>1. Targets' \subseteq Targets /\ Bound' \subseteq Bound
  BY TargetsKept
<1>2. PlanSparesRetained' /\ HeadStaysWhole'
  BY <1>1, PlanKept, WholeKept
<1>3. \A q \in Procs : SnapshotInv(q)'
  BY <1>1, SnapshotKept
<1> QED
  BY <1>2, <1>3 DEF SparingInv, OneServer

\* The operation of p ends.
LEMMA EndSpares ==
  ASSUME SparingInv, NEW p \in Procs, Inv',
         RefuseBranches(p) \/ RefuseWitness(p) \/ SyncRemoval(p) \/ FailRemoval(p) \/ Die(p)
  PROVE  SparingInv'
<1>1. Release(p) /\ UNCHANGED <<objects, head, branches>>
  BY DEF RefuseBranches, RefuseWitness, SyncRemoval, FailRemoval, Die, repository
<1>2. \A q \in Servers : SessionTargets(q)' \subseteq SessionTargets(q)
  <2>1. CASE Die(p)
    BY <2>1 DEF Die, SessionTargets
  <2>2. CASE ~Die(p)
    BY <2>2 DEF RefuseBranches, RefuseWitness, SyncRemoval, FailRemoval, SessionTargets
  <2> QED
    BY <2>1, <2>2
<1>3. /\ \A q \in Procs : todo'[q] \subseteq todo[q]
      /\ \A q \in Procs \ {p} : pc'[q] = pc[q] /\ snapshot'[q] = snapshot[q]
      /\ pc'[p] = "idle"
  BY <1>1 DEF Release, Goto, SparingInv, Inv, DataOK
<1>4. SnapshotInv(p)'
  BY <1>3 DEF SnapshotInv
<1> QED
  BY <1>1, <1>2, <1>3, <1>4, QuietSpares

\* Steps between the snapshot and the plan, and those that give up.
LEMMA WitnessSpares ==
  ASSUME SparingInv, NEW p \in Procs, Inv',
         \/ AcquireMaintenance(p) \/ CreateWitness(p) \/ WriteWitness(p) \/ SyncWitness(p)
         \/ RemoveWitness(p) \/ RecoverWitness(p) \/ Fail(p) \/ Collected(p)
  PROVE  SparingInv'
<1>1. UNCHANGED <<objects, head, branches, sessions, snapshot, todo>>
  BY DEF AcquireMaintenance, CreateWitness, WriteWitness, SyncWitness, RemoveWitness,
         RecoverWitness, Fail, Collected, repository
<1>2. /\ \A q \in Servers : SessionTargets(q)' = SessionTargets(q)
      /\ Targets' = Targets
  BY <1>1 DEF SessionTargets, Targets, BranchTargets
<1>3. /\ \A q \in Procs \ {p} : pc'[q] = pc[q]
      /\ \/ pc'[p] \in {"drop", "dropped"}
         \/ pc[p] \notin {"idle", "branches", "drop", "dropped"}
  BY DEF AcquireMaintenance, CreateWitness, WriteWitness, SyncWitness, RemoveWitness,
         RecoverWitness, Fail, Collected, Goto, SparingInv, Inv, DataOK
<1>4. SnapshotInv(p)'
  BY <1>1, <1>2, <1>3 DEF SnapshotInv, SparingInv
<1> QED
  BY <1>1, <1>2, <1>3, <1>4, QuietSpares

\* The reads of the snapshot see everything that the only server retains.
LEMMA SnapshotSpares ==
  ASSUME SparingInv, NEW p \in Procs, Inv',
         (\E pins \in SUBSET Objects : ReadHead(p, pins)) \/ ReadBranches(p)
  PROVE  SparingInv'
<1>1. UNCHANGED <<objects, head, branches, sessions, todo>>
  BY DEF ReadHead, ReadBranches, repository
<1>2. /\ \A q \in Servers : SessionTargets(q)' = SessionTargets(q)
      /\ Targets' = Targets
  BY <1>1 DEF SessionTargets, Targets, BranchTargets
<1>3. /\ snapshot \in [Procs -> [roots : SUBSET receipts, pins : SUBSET Objects]]
      /\ pc \in [Procs -> Labels]
  BY DEF SparingInv, Inv, DataOK
<1>4. \A q \in Procs \ {p} : pc'[q] = pc[q] /\ snapshot'[q] = snapshot[q]
  BY <1>3 DEF ReadHead, ReadBranches, Goto
<1>5. SnapshotInv(p)'
  <2>1. ASSUME NEW pins \in SUBSET Objects, ReadHead(p, pins)
        PROVE  SnapshotInv(p)'
    <3>1. pc'[p] = "branches" /\ snapshot'[p] = [roots |-> {head}, pins |-> pins]
      BY <1>3, <2>1 DEF ReadHead, Goto
    <3> QED
      BY <1>1, <3>1 DEF SnapshotInv
  <2>2. CASE ReadBranches(p)
    <3>1. /\ pc[p] = "branches" /\ pc'[p] = "acquire"
          /\ snapshot'[p].roots = snapshot[p].roots \cup BranchTargets \cup SessionTargets(p)
      BY <1>3, <2>2 DEF ReadBranches, Goto
    <3>2. head \in snapshot[p].roots /\ p \in Servers
      BY <3>1 DEF SparingInv, SnapshotInv, Inv, ProcInv
    <3>3. \A q \in Servers : q = p
      BY <3>2 DEF SparingInv, OneServer
    <3>4. Targets \subseteq snapshot'[p].roots
      BY <3>1, <3>2, <3>3 DEF Targets
    <3> QED
      BY <1>1, <1>2, <3>1, <3>2, <3>4 DEF SnapshotInv
  <2> QED
    BY <2>1, <2>2
<1> QED
  BY <1>1, <1>2, <1>4, <1>5, QuietSpares

\* The plan covers what is retained, and deletions follow the plan.
LEMMA DeletingSpares ==
  ASSUME SparingInv, NEW p \in Procs, Inv',
         Plan(p) \/ SyncLeaves(p) \/ SyncUnlinked(p) \/ \E o \in Objects : Unlink(p, o)
  PROVE  SparingInv'
<1>1. UNCHANGED <<head, branches, sessions, snapshot>>
  BY DEF Plan, SyncLeaves, SyncUnlinked, Unlink, repository
<1>2. Targets' = Targets /\ Bound' = Bound
  BY <1>1 DEF SessionTargets, Targets, BranchTargets, Bound
<1>3. /\ \A q \in Procs \ {p} : pc'[q] = pc[q]
      /\ pc[p] \notin {"idle", "branches", "drop", "dropped"}
  BY DEF Plan, SyncLeaves, SyncUnlinked, Unlink, Goto, SparingInv, Inv, DataOK
<1>4. \A q \in Procs : SnapshotInv(q)'
  BY <1>1, <1>2, <1>3 DEF SnapshotInv, SparingInv
<1>5. Retained = UNION {Needs(t) : t \in Targets} /\ Retained' = Retained
  BY <1>2 DEF Retained, Targets
<1>6. /\ todo \in [Procs -> SUBSET Objects] /\ objects \in [Objects -> CellOf(BOOLEAN)]
      /\ \A q \in Procs : todo[q] \cap Retained = {}
  BY DEF SparingInv, Inv, DataOK, PlanSparesRetained
<1>7. PlanSparesRetained'
  <2>1. CASE Plan(p)
    <3>1. todo' = [todo EXCEPT ![p] = Present \ Reachable(snapshot[p])]
      BY <2>1 DEF Plan
    <3>2. Targets \subseteq snapshot[p].roots
      BY <1>3 DEF SparingInv, SnapshotInv
    <3>3. Retained \subseteq Reachable(snapshot[p])
      BY <1>5, <3>2, ReachableCovers
    <3>4. \A q \in Procs : todo'[q] \cap Retained = {}
      BY <1>6, <3>1, <3>3
    <3> QED
      BY <1>5, <3>4 DEF PlanSparesRetained
  <2>2. CASE ~Plan(p)
    <3>1. \A q \in Procs : todo'[q] \subseteq todo[q]
      BY <1>6, <2>2 DEF SyncLeaves, SyncUnlinked, Unlink
    <3> QED
      BY <1>2, <3>1, PlanKept
  <2> QED
    BY <2>1, <2>2
<1>8. HeadStaysWhole'
  <2> SUFFICES ASSUME NEW t \in Bound, NEW o \in Needs(t), o \in Objects, objects[o].disk = {TRUE}
               PROVE  objects'[o].disk = {TRUE}
    BY <1>2, WholeKept
  <2>1. CASE Plan(p)
    BY <2>1 DEF Plan, repository
  <2>2. CASE SyncLeaves(p)
    BY <2>2, PutKeepsWhole DEF SyncLeaves, SparingInv
  <2>3. CASE SyncUnlinked(p)
    <3>1. objects'[o] = objects[o] \/ objects'[o] = SyncCell(objects[o])
      BY <1>6, <2>3 DEF SyncUnlinked
    <3> QED
      BY <3>1, PutKeepsWhole DEF SparingInv
  <2>4. ASSUME NEW x \in Objects, Unlink(p, x)
        PROVE  objects'[o].disk = {TRUE}
    <3>1. x \in todo[p] /\ objects' = [objects EXCEPT ![x] = Replace(@, FALSE)]
      BY <2>4 DEF Unlink
    <3>2. o \in Retained
      BY <1>5, TargetTypes DEF SparingInv
    <3>3. o # x
      BY <1>6, <3>1, <3>2
    <3> QED
      BY <1>6, <3>1, <3>3
  <2> QED
    BY <2>1, <2>2, <2>3, <2>4
<1> QED
  BY <1>4, <1>7, <1>8 DEF SparingInv, OneServer

\* Recovery syncs what is there and deletes no object.
LEMMA RecoverSpares ==
  ASSUME SparingInv, NEW p \in Procs, Inv', Recover(p)
  PROVE  SparingInv'
<1>1. /\ UNCHANGED <<head, branches, sessions, pc, snapshot, todo>>
      /\ objects' = [o \in Objects |-> SyncCell(objects[o])]
  BY DEF Recover, work
<1>2. Targets' = Targets /\ Bound' = Bound
  BY <1>1 DEF SessionTargets, Targets, BranchTargets, Bound
<1>3. \A o \in Objects : objects[o].disk = {TRUE} => objects'[o].disk = {TRUE}
  BY <1>1, PutKeepsWhole DEF SparingInv
<1> QED
  BY <1>1, <1>2, <1>3, PlanKept, WholeKept, SnapshotKept DEF SparingInv, OneServer

\* A power loss takes the sessions and no durable object.
LEMMA PowerLossSpares ==
  ASSUME SparingInv, Inv', PowerLoss
  PROVE  SparingInv'
<1>1. /\ UNCHANGED <<head, branches>> /\ todo' = [p \in Procs |-> {}]
      /\ pc' = [p \in Procs |-> "idle"]
      /\ sessions' = [p \in Servers |-> [s \in Sessions |-> << >>]]
  BY DEF PowerLoss
<1>2. Targets' \subseteq Targets /\ Bound' \subseteq Bound
  <2>1. \A p \in Servers : SessionTargets(p)' = {}
    BY <1>1 DEF SessionTargets
  <2> QED
    BY <1>1, <2>1, TargetsKept
<1>3. \A o \in Objects : objects[o].disk = {TRUE} => objects'[o].disk = {TRUE}
  <2> SUFFICES ASSUME NEW o \in Objects, objects[o].disk = {TRUE}
               PROVE  objects'[o].disk = {TRUE}
    OBVIOUS
  <2>1. PICK c \in CellOf(BOOLEAN) : c = objects[o]
    BY DEF SparingInv, Inv, DataOK
  <2>2. PICK v : v = TRUE
    OBVIOUS
  <2>3. c.disk = {v}
    BY <2>1, <2>2, Zenon
  <2>4. \A d \in AfterPowerLoss(c) : d.disk = {v}
    BY <2>3, CertainCell
  <2>5. objects'[o] \in AfterPowerLoss(objects[o])
    BY DEF PowerLoss
  <2> QED
    BY <2>1, <2>2, <2>4, <2>5, Zenon
<1>4. PlanSparesRetained' /\ HeadStaysWhole'
  BY <1>1, <1>2, <1>3, WholeKept DEF PlanSparesRetained
<1>5. \A p \in Procs : SnapshotInv(p)'
  BY <1>1 DEF SnapshotInv
<1> QED
  BY <1>4, <1>5 DEF SparingInv, OneServer

\* With one server, every step keeps the sparing invariant.
LEMMA StepSparing == SparingInv /\ [Next]_vars => SparingInv'
<1> SUFFICES ASSUME SparingInv, [Next]_vars
             PROVE  SparingInv'
  OBVIOUS
<1>1. Inv'
  BY StepInv DEF SparingInv
<1>2. ASSUME NEW p \in Procs, Request(p) \/ CollectStep(p) \/ RecoverWitness(p) \/ Recover(p)
                              \/ Die(p)
      PROVE  SparingInv'
  <2>1. CASE \E pins \in SUBSET Objects : ReadHead(p, pins)
    BY <1>1, <2>1, SnapshotSpares
  <2>2. CASE Request(p) /\ ~\E pins \in SUBSET Objects : ReadHead(p, pins)
    BY <1>1, <2>2, RequestSpares
  <2>3. CASE CollectStep(p)
    BY <1>1, <2>3, SnapshotSpares, EndSpares, WitnessSpares, DeletingSpares DEF CollectStep
  <2>4. CASE RecoverWitness(p) \/ Recover(p) \/ Die(p)
    BY <1>1, <2>4, WitnessSpares, RecoverSpares, EndSpares
  <2> QED
    BY <1>2, <2>1, <2>2, <2>3, <2>4
<1>3. CASE UNCHANGED vars
  <2>1. UNCHANGED <<objects, head, branches, sessions, pc, snapshot, todo>>
    BY <1>3 DEF vars, repository, work
  <2>2. Targets' = Targets /\ Bound' = Bound
    BY <2>1 DEF SessionTargets, Targets, BranchTargets, Bound
  <2> QED
    BY <1>1, <2>1, <2>2, PlanKept, WholeKept, SnapshotKept DEF SparingInv, OneServer
<1> QED
  BY <1>1, <1>2, <1>3, PowerLossSpares DEF Next

\* It implies both properties of the run.
LEMMA SparingImplies == SparingInv => PlanSparesRetained /\ HeadStaysWhole
  BY DEF SparingInv

\* With one server, what is still to be deleted is never needed by the head,
\* a branch or a session: the snapshot is read before maintenance is taken,
\* and nothing that it must retain changes until the deletions are over.
THEOREM PlanSparesRetainedInvariant == Spec /\ OneServer => []PlanSparesRetained
  BY InitSparing, StepSparing, SparingImplies, PTL DEF Spec

\* With one server, no collection, failed commit or power loss takes a part
\* of the state of the head or of a session's root.
THEOREM HeadStaysWholeInvariant == Spec /\ OneServer => []HeadStaysWhole
  BY InitSparing, StepSparing, SparingImplies, PTL DEF Spec
=============================================================================
