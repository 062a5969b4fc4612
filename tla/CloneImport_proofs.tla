------------------------- MODULE CloneImport_proofs -------------------------
(***************************************************************************)
(* Proofs about CloneImport, for any transactions and exchanges and any    *)
(* number of importers and users.                                          *)
(***************************************************************************)
EXTENDS CloneImport, FiniteSetTheorems, NaturalsInduction, WellFoundedInduction, TLAPS
-----------------------------------------------------------------------------
(* The ancestry of a set of transactions.                                  *)

\* A set of naturals has a least element, which serves as induction.
LEMMA LeastNatural ==
  ASSUME NEW T \in SUBSET Nat, T # {}
  PROVE  \E x \in T : \A y \in T : x <= y
<1>1. IsWellFoundedOn(OpToRel(<, Nat), Nat)
  BY NatLessThanWellFounded
<1>2. PICK x \in T : \A y \in T : ~(<<y, x>> \in OpToRel(<, Nat))
  BY <1>1, WFMin
<1>3. \A y \in T : ~(y < x)
  BY <1>2 DEF OpToRel
<1> QED
  BY <1>3

Parents(S) == {Parent[t] : t \in S \cap Transactions} \ {NoTx}

\* up[n] is what n steps to parents reach from S.
Step(S, up, n) == IF n = 0 THEN S ELSE up[n - 1] \cup Parents(up[n - 1])

Climb(S, up) == up = [n \in 0..Cardinality(Transactions) |-> Step(S, up, n)]

\* A transaction set is finite, and its size bounds the climb.
LEMMA TransactionCount == Cardinality(Transactions) \in Nat
  BY CloneAssumption, FS_CardinalityType

\* The recursive function of Ancestry, named.
LEMMA AncestryUnfolds ==
  ASSUME NEW S
  PROVE  Ancestry(S) = (CHOOSE up : Climb(S, up))[Cardinality(Transactions)]
  BY Zenon DEF Ancestry, Climb, Step, Parents

\* It exists.
LEMMA ClimbExists ==
  ASSUME NEW S
  PROVE  \E up : Climb(S, up)
<1> DEFINE N == Cardinality(Transactions)
           Upto(n) == \E f : /\ f = [i \in 0..n |-> f[i]]
                             /\ \A i \in 0..n : f[i] = Step(S, f, i)
           Bad == {n \in Nat : ~Upto(n)}
<1>1. Upto(0)
  <2> DEFINE f == [i \in 0..0 |-> S]
  <2>1. f = [i \in 0..0 |-> f[i]]
    OBVIOUS
  <2>2. \A i \in 0..0 : f[i] = Step(S, f, i)
    BY DEF Step
  <2> QED
    BY <2>1, <2>2
<1>2. ASSUME NEW n \in Nat, n # 0, Upto(n - 1)
      PROVE  Upto(n)
  <2>1. PICK f : /\ f = [i \in 0..(n - 1) |-> f[i]]
                 /\ \A i \in 0..(n - 1) : f[i] = Step(S, f, i)
    BY <1>2
  <2> DEFINE g == [i \in 0..n |-> IF i = n THEN Step(S, f, n) ELSE f[i]]
  <2>2. \A i \in 0..(n - 1) : g[i] = f[i]
    OBVIOUS
  <2>3. \A i \in 0..n : Step(S, g, i) = Step(S, f, i)
    <3> SUFFICES ASSUME NEW i \in 0..n
                 PROVE  Step(S, g, i) = Step(S, f, i)
      OBVIOUS
    <3>1. CASE i = 0
      BY <3>1 DEF Step
    <3>2. CASE i # 0
      <4>1. g[i - 1] = f[i - 1]
        BY <2>2, <3>2
      <4> HIDE DEF g
      <4> QED
        BY <3>2, <4>1 DEF Step
    <3> QED
      BY <3>1, <3>2
  <2>4. \A i \in 0..n : g[i] = IF i = n THEN Step(S, f, n) ELSE f[i]
    OBVIOUS
  <2>5. g = [i \in 0..n |-> g[i]]
    OBVIOUS
  <2>6. \A i \in 0..n : g[i] = Step(S, g, i)
    <3> HIDE DEF g
    <3> SUFFICES ASSUME NEW i \in 0..n
                 PROVE  g[i] = Step(S, g, i)
      OBVIOUS
    <3>1. CASE i = n
      BY <2>3, <2>4, <3>1
    <3>2. CASE i # n
      <4>1. i \in 0..(n - 1)
        BY <3>2
      <4>2. g[i] = f[i] /\ f[i] = Step(S, f, i) /\ Step(S, g, i) = Step(S, f, i)
        BY <2>1, <2>3, <2>4, <3>2, <4>1
      <4> QED
        BY <4>2
    <3> QED
      BY <3>1, <3>2
  <2> HIDE DEF g
  <2> QED
    BY <2>5, <2>6
<1>3. Bad = {}
  <2> SUFFICES ASSUME Bad # {}
               PROVE  FALSE
    OBVIOUS
  <2>1. PICK n \in Bad : \A m \in Bad : n <= m
    BY LeastNatural
  <2> HIDE DEF Upto
  <2>2. n \in Nat /\ ~Upto(n) /\ n # 0
    BY <1>1
  <2>3. n - 1 \in Nat /\ n - 1 \notin Bad
    BY <2>1, <2>2
  <2> QED
    BY <1>2, <2>2, <2>3
<1>4. Upto(N)
  <2> HIDE DEF Upto
  <2> QED
    BY <1>3, TransactionCount
<1>5. PICK f : /\ f = [i \in 0..N |-> f[i]]
               /\ \A i \in 0..N : f[i] = Step(S, f, i)
  BY <1>4
<1>6. f = [i \in 0..N |-> Step(S, f, i)]
  BY <1>5, Zenon
<1> QED
  BY <1>6 DEF Climb

\* The ancestry is the last step of a climb.
LEMMA AncestryClimbs ==
  ASSUME NEW S
  PROVE  \E up : /\ Ancestry(S) = up[Cardinality(Transactions)]
                 /\ up[0] = S
                 /\ \A n \in 1..Cardinality(Transactions) :
                      up[n] = up[n - 1] \cup Parents(up[n - 1])
<1> DEFINE N == Cardinality(Transactions)
<1>1. PICK up : Climb(S, up) /\ Ancestry(S) = up[N]
  BY AncestryUnfolds, ClimbExists, Zenon
<1>2. \A n \in 0..N : up[n] = Step(S, up, n)
  <2>1. up = [n \in 0..N |-> Step(S, up, n)]
    BY <1>1, Zenon DEF Climb
  <2> QED
    BY <2>1, Zenon
<1>3. N \in Nat
  BY TransactionCount
<1> HIDE DEF N
<1>4. up[0] = S
  <2>1. 0 \in 0..N
    BY <1>3
  <2>2. up[0] = Step(S, up, 0)
    BY <1>2, <2>1
  <2> QED
    BY <2>2 DEF Step
<1>5. \A n \in 1..N : up[n] = up[n - 1] \cup Parents(up[n - 1])
  <2> SUFFICES ASSUME NEW n \in 1..N
               PROVE  up[n] = up[n - 1] \cup Parents(up[n - 1])
    OBVIOUS
  <2>1. n \in 0..N /\ n # 0
    BY <1>3
  <2>2. up[n] = Step(S, up, n)
    BY <1>2, <2>1
  <2> QED
    BY <2>1, <2>2 DEF Step
<1> QED
  BY <1>1, <1>4, <1>5 DEF N

\* A set that is closed under parents and contains S contains its ancestry.
LEMMA AncestryInside ==
  ASSUME NEW S, NEW R, S \subseteq R, Parents(R) \subseteq R
  PROVE  Ancestry(S) \subseteq R
<1> DEFINE N == Cardinality(Transactions)
<1>1. PICK up : /\ Ancestry(S) = up[N]
                /\ up[0] = S
                /\ \A n \in 1..N : up[n] = up[n - 1] \cup Parents(up[n - 1])
  BY AncestryClimbs
<1>2. N \in Nat
  BY TransactionCount
<1> HIDE DEF N
<1> DEFINE Bad == {n \in 0..N : ~(up[n] \subseteq R)}
<1>3. Bad = {}
  <2> SUFFICES ASSUME Bad # {}
               PROVE  FALSE
    OBVIOUS
  <2>0. Bad \in SUBSET Nat
    BY <1>2
  <2>1. PICK n \in Bad : \A m \in Bad : n <= m
    BY <2>0, LeastNatural
  <2>2. n \in 0..N /\ ~(up[n] \subseteq R) /\ n # 0
    BY <1>1
  <2>3. n - 1 \in 0..N /\ n - 1 \notin Bad
    BY <1>2, <2>1, <2>2
  <2>4. up[n - 1] \subseteq R /\ n \in 1..N
    BY <1>2, <2>2, <2>3
  <2>5. Parents(up[n - 1]) \subseteq Parents(R)
    BY <2>4 DEF Parents
  <2> QED
    BY <1>1, <2>2, <2>4, <2>5
<1>4. N \in 0..N
  BY <1>2
<1> QED
  BY <1>1, <1>3, <1>4

\* A climb never loses anything.
LEMMA AncestryContains ==
  ASSUME NEW S
  PROVE  S \subseteq Ancestry(S)
<1> DEFINE N == Cardinality(Transactions)
<1>1. PICK up : /\ Ancestry(S) = up[N]
                /\ up[0] = S
                /\ \A n \in 1..N : up[n] = up[n - 1] \cup Parents(up[n - 1])
  BY AncestryClimbs
<1>2. N \in Nat
  BY TransactionCount
<1> HIDE DEF N
<1> DEFINE Bad == {n \in 0..N : ~(S \subseteq up[n])}
<1>3. Bad = {}
  <2> SUFFICES ASSUME Bad # {}
               PROVE  FALSE
    OBVIOUS
  <2>0. Bad \in SUBSET Nat
    BY <1>2
  <2>1. PICK n \in Bad : \A m \in Bad : n <= m
    BY <2>0, LeastNatural
  <2>2. n \in 0..N /\ ~(S \subseteq up[n]) /\ n # 0
    BY <1>1
  <2>3. n - 1 \in 0..N /\ n - 1 \notin Bad
    BY <1>2, <2>1, <2>2
  <2>4. S \subseteq up[n - 1] /\ n \in 1..N
    BY <1>2, <2>2, <2>3
  <2> QED
    BY <1>1, <2>2, <2>4
<1>4. N \in 0..N
  BY <1>2
<1> QED
  BY <1>1, <1>3, <1>4

\* There are enough steps: a climb that still grew at the end would have met
\* more transactions than there are.
LEMMA AncestryClosed ==
  ASSUME NEW S
  PROVE  Parents(Ancestry(S)) \subseteq Ancestry(S)
<1> DEFINE N == Cardinality(Transactions)
<1>1. PICK up : /\ Ancestry(S) = up[N]
                /\ up[0] = S
                /\ \A n \in 1..N : up[n] = up[n - 1] \cup Parents(up[n - 1])
  BY AncestryClimbs
<1>2. N \in Nat
  BY TransactionCount
<1>3. \A U : Parents(U) \subseteq Transactions
  BY CloneAssumption DEF Parents
<1>4. \A U : /\ IsFiniteSet(U \cap Transactions)
             /\ Cardinality(U \cap Transactions) \in Nat
             /\ Cardinality(U \cap Transactions) <= N
             /\ Cardinality(U \cap Transactions) = N => Transactions \subseteq U
  <2> TAKE U
  <2>1. U \cap Transactions \subseteq Transactions
    OBVIOUS
  <2>2. /\ IsFiniteSet(U \cap Transactions)
        /\ Cardinality(U \cap Transactions) <= N
        /\ Cardinality(U \cap Transactions) = N => U \cap Transactions = Transactions
    BY <2>1, CloneAssumption, FS_Subset
  <2> QED
    BY <2>2, FS_CardinalityType
<1> HIDE DEF N
<1> SUFFICES ASSUME ~(Parents(up[N]) \subseteq up[N])
             PROVE  FALSE
  BY <1>1
<1> DEFINE Done(n) == Parents(up[n]) \subseteq up[n]
<1>5. \A k \in 0..N : ~Done(k)
  <2> SUFFICES ASSUME NEW k \in 0..N, Done(k)
               PROVE  FALSE
    OBVIOUS
  <2> DEFINE T == {m \in k..N : ~Done(m)}
  <2>1. T \in SUBSET Nat /\ N \in T
    BY <1>2
  <2>2. PICK m \in T : \A i \in T : m <= i
    BY <2>1, LeastNatural
  <2>3. m # k /\ m \in k..N /\ ~Done(m)
    OBVIOUS
  <2>4. m - 1 \in k..N /\ m - 1 \notin T /\ m \in 1..N
    BY <1>2, <2>2, <2>3
  <2>5. Done(m - 1)
    BY <2>4
  <2>6. up[m] = up[m - 1]
    BY <1>1, <2>4, <2>5
  <2> QED
    BY <2>3, <2>5, <2>6
<1> DEFINE Bad == {n \in 0..N : Cardinality(up[n] \cap Transactions) < n}
<1>6. Bad = {}
  <2> SUFFICES ASSUME Bad # {}
               PROVE  FALSE
    OBVIOUS
  <2>0. Bad \in SUBSET Nat
    BY <1>2
  <2>1. PICK n \in Bad : \A m \in Bad : n <= m
    BY <2>0, LeastNatural
  <2>2. n \in 0..N /\ n # 0 /\ Cardinality(up[n] \cap Transactions) < n
    BY <1>4
  <2>3. n - 1 \in 0..N /\ n - 1 \notin Bad /\ n \in 1..N
    BY <1>2, <2>1, <2>2
  <2>4. Cardinality(up[n - 1] \cap Transactions) >= n - 1
    <3>1. ~(Cardinality(up[n - 1] \cap Transactions) < n - 1)
      BY <2>3
    <3>2. Cardinality(up[n - 1] \cap Transactions) \in Nat
      BY <1>4
    <3> QED
      BY <2>3, <3>1, <3>2
  <2>5. up[n] = up[n - 1] \cup Parents(up[n - 1])
    BY <1>1, <2>3
  <2>6. PICK t \in Parents(up[n - 1]) : t \notin up[n - 1]
    BY <1>5, <2>3
  <2>7. /\ up[n - 1] \cap Transactions \subseteq up[n] \cap Transactions
        /\ t \in up[n] \cap Transactions /\ t \notin up[n - 1] \cap Transactions
    BY <1>3, <2>5, <2>6
  <2>8. /\ Cardinality(up[n - 1] \cap Transactions) <= Cardinality(up[n] \cap Transactions)
        /\ Cardinality(up[n - 1] \cap Transactions) # Cardinality(up[n] \cap Transactions)
    BY <1>4, <2>7, FS_Subset
  <2>9. /\ Cardinality(up[n - 1] \cap Transactions) \in Nat
        /\ Cardinality(up[n] \cap Transactions) \in Nat
    BY <1>4
  <2> QED
    BY <2>2, <2>4, <2>8, <2>9
<1>7. N \in 0..N
  BY <1>2
<1>8. Cardinality(up[N] \cap Transactions) = N
  <2>1. ~(Cardinality(up[N] \cap Transactions) < N)
    BY <1>6, <1>7
  <2>2. /\ Cardinality(up[N] \cap Transactions) \in Nat
        /\ Cardinality(up[N] \cap Transactions) <= N
    BY <1>4
  <2> QED
    BY <1>2, <2>1, <2>2
<1>9. Transactions \subseteq up[N]
  BY <1>4, <1>8
<1> QED
  BY <1>3, <1>9
-----------------------------------------------------------------------------
(* The inductive invariant.                                                *)

\* The steps under exclusive maintenance, and those of them that install.
Owning == {"own", "install", "syncpart", "synchead", "unmark", "syncunmark"}
Installing == Owning \ {"own"}
Complete == {"synchead", "unmark", "syncunmark"}

\* An importer has checked its exchange and owns maintenance from "own" on.
\* While it installs, the guard is up, the root is a partial clone of its
\* exchange, all that it went through is safe but the part at hand, and no
\* other clone counts as acknowledged.
ImpInv(p) ==
  LET i == imp[p] IN
  /\ i.pc # "idle" => i.ex \in Exchanges /\ Preflight(i.ex)
  /\ i.pc \in Owning => owner = p
  /\ i.pc \in Installing \ {"syncunmark"} => marker[i.ex].seen = "whole"
  /\ i.pc \in Installing => /\ BelongsTo(i.ex)
                            /\ acked \subseteq {i.ex}
                            /\ i.done \subseteq PartsOf(i.ex)
                            /\ i.part \subseteq parts.seen
                            /\ i.done \ i.part \subseteq parts.safe
  /\ i.pc \notin Installing => i.done = {}
  /\ i.pc # "syncpart" => i.part = {}
  /\ i.pc \in Complete => PartsOf(i.ex) \subseteq parts.safe /\ head.seen = i.ex.head

\* Who is about to rename a temporary does it before there is a marker: no
\* temporary is created beside one.  An open file is where its name is.
FileInv(p) ==
  LET i == imp[p] IN
  /\ i.pc \in {"write", "rename"} /\ marker[i.ex].seen # "none" => temp[i.ex] = "none"
  /\ i.fd # "none" => i.ex \in Exchanges
  /\ i.fd = "temp" => temp[i.ex] # "none"
  /\ i.fd = "marker" => marker[i.ex].seen # "none"

\* Maintenance is exclusive.
UserInv == owner # NoOne => \A u \in Users : user[u] = "idle"

\* A head is never replaced by the head of an import.
HeadInv == head.disk \subseteq {NoTx, head.seen}

\* The acknowledged clone is whole on disk, and pure.
AckedInv ==
  \A e \in acked : /\ Preflight(e)
                   /\ head.seen = e.head =>
                        /\ {x \in parts.seen : x.kind # "object"} \subseteq PartsOf(e)
                        /\ PartsOf(e) \subseteq parts.safe

Inv ==
  /\ TypeOK /\ UserInv /\ HeadInv /\ HeadIsWhole /\ AckedInv
  /\ \A p \in Importers : ImpInv(p) /\ FileInv(p)
-----------------------------------------------------------------------------
(* What the invariant implies.                                             *)

\* The receipts of an exchange are closed under parents.
LEMMA ReceiptsClosed ==
  ASSUME NEW e \in Exchanges, Preflight(e)
  PROVE  Parents(e.receipts) \subseteq e.receipts
<1>1. \A t \in e.receipts : Parent[t] \in e.receipts \cup {NoTx}
  BY DEF Preflight, ClosedAncestry
<1> QED
  BY <1>1 DEF Parents

\* The ancestry of the head is in the exchange.
LEMMA HeadAncestry ==
  ASSUME NEW e \in Exchanges, Preflight(e)
  PROVE  Ancestry({e.head}) \subseteq e.receipts
<1>1. {e.head} \subseteq e.receipts
  BY DEF Preflight, ClosedAncestry
<1> QED
  BY <1>1, ReceiptsClosed, AncestryInside

\* An exchange is the closure of its head and of the heads of its branches:
\* a branch origin is an ancestor of the branch head.
LEMMA ReceiptsReached ==
  ASSUME NEW e \in Exchanges, Preflight(e)
  PROVE  Ancestry({e.head} \cup {b.at : b \in e.branches}) = e.receipts
<1> DEFINE S == {e.head} \cup {b.at : b \in e.branches}
           T == {e.head} \cup UNION {{b.from, b.at} : b \in e.branches}
<1>1. e.receipts = Ancestry(T)
  BY DEF Preflight, NoSurplus
<1>2. Ancestry(S) \subseteq e.receipts
  <2>1. S \subseteq e.receipts
    BY DEF Preflight, ClosedAncestry, BranchesValid
  <2> QED
    BY <2>1, ReceiptsClosed, AncestryInside
<1>3. Parents(Ancestry(S)) \subseteq Ancestry(S) /\ S \subseteq Ancestry(S)
  BY AncestryClosed, AncestryContains
<1>4. \A b \in e.branches : b.from \in Ancestry(S)
  <2> SUFFICES ASSUME NEW b \in e.branches
               PROVE  b.from \in Ancestry(S)
    OBVIOUS
  <2>1. b.from \in Ancestry({b.at})
    BY DEF Preflight, BranchesValid
  <2>2. {b.at} \subseteq Ancestry(S)
    BY <1>3
  <2>3. Ancestry({b.at}) \subseteq Ancestry(S)
    BY <1>3, <2>2, AncestryInside
  <2> QED
    BY <2>1, <2>3
<1>5. T \subseteq Ancestry(S)
  BY <1>3, <1>4
<1>6. Ancestry(T) \subseteq Ancestry(S)
  BY <1>3, <1>5, AncestryInside
<1> QED
  BY <1>1, <1>2, <1>6

\* The parts of an exchange, by kind.
LEMMA PartKinds ==
  ASSUME NEW e
  PROVE  /\ \A t \in e.receipts : Receipt(t) \in PartsOf(e) /\ Object(t) \in PartsOf(e)
         /\ \A b \in e.branches : Ref(b) \in PartsOf(e) /\ Ref(b).kind = "ref"
         /\ \A x \in PartsOf(e) : x.kind = "ref" => \E b \in e.branches : x = Ref(b)
         /\ \A x \in PartsOf(e) : x.kind \in {"object", "receipt", "origin", "ref"}
<1>1. \A t : Receipt(t).kind = "receipt" /\ Object(t).kind = "object"
  BY DEF Receipt, Object
<1>2. \A b : Origin(b).kind = "origin" /\ Ref(b).kind = "ref"
  BY DEF Origin, Ref
<1>3. \A x : x \in PartsOf(e) <=> \/ \E t \in e.receipts : x = Object(t) \/ x = Receipt(t)
                                  \/ \E b \in e.branches : x = Origin(b) \/ x = Ref(b)
  <2> TAKE x
  <2>1. x \in UNION {{Object(t), Receipt(t)} : t \in e.receipts}
          <=> \E t \in e.receipts : x = Object(t) \/ x = Receipt(t)
    OBVIOUS
  <2>2. x \in UNION {{Origin(b), Ref(b)} : b \in e.branches}
          <=> \E b \in e.branches : x = Origin(b) \/ x = Ref(b)
    OBVIOUS
  <2> QED
    BY <2>1, <2>2 DEF PartsOf
<1> QED
  BY <1>1, <1>2, <1>3

\* A root with the head and exactly the parts of an exchange exports it.
LEMMA PureCloneExports ==
  ASSUME TypeOK, NEW e \in Exchanges, Preflight(e), head.seen = e.head,
         {x \in parts.seen : x.kind # "object"} \subseteq PartsOf(e),
         PartsOf(e) \subseteq parts.safe
  PROVE  Exported = [head |-> e.head, receipts |-> e.receipts, branches |-> e.branches]
<1> DEFINE refs == {x \in parts.seen : x.kind = "ref"}
<1>1. refs = {Ref(b) : b \in e.branches}
  <2>1. \A x \in refs : x \in PartsOf(e) /\ x.kind = "ref"
    OBVIOUS
  <2>2. PartsOf(e) \subseteq parts.seen
    BY DEF TypeOK
  <2> QED
    BY <2>1, <2>2, PartKinds
<1>2. e.branches \subseteq Branches
  BY CloneAssumption
<1>3. \A b \in e.branches : /\ Ref(b).at = b.at
                            /\ [name |-> Ref(b).name, from |-> Ref(b).from, at |-> Ref(b).at] = b
  BY <1>2 DEF Ref, Branches
<1>4. {x.at : x \in refs} = {b.at : b \in e.branches}
  <2>1. \A v : v \in {x.at : x \in refs} <=> v \in {b.at : b \in e.branches}
    BY <1>1, <1>3
  <2> QED
    BY <2>1, Zenon
<1>5. {[name |-> x.name, from |-> x.from, at |-> x.at] : x \in refs} = e.branches
  <2>1. {[name |-> x.name, from |-> x.from, at |-> x.at] : x \in refs}
          = {[name |-> Ref(b).name, from |-> Ref(b).from, at |-> Ref(b).at] : b \in e.branches}
    BY <1>1
  <2> QED
    BY <1>3, <2>1
<1> HIDE DEF refs
<1>6. Exported = [head |-> head.seen,
                  receipts |-> Ancestry({head.seen} \cup {x.at : x \in refs}),
                  branches |-> {[name |-> x.name, from |-> x.from, at |-> x.at] : x \in refs}]
  BY DEF Exported, refs
<1> QED
  BY <1>4, <1>5, <1>6, ReceiptsReached

\* The invariant implies what the runs check of a state.
LEMMA InvImplies == Inv => TypeOK /\ HeadIsWhole /\ GuardHolds /\ CloneReexports
<1> SUFFICES ASSUME Inv
             PROVE  GuardHolds /\ CloneReexports
  BY DEF Inv
<1>1. GuardHolds
  <2> SUFFICES ASSUME NEW p \in Importers,
                      imp[p].pc \in {"install", "syncpart", "synchead", "unmark"}
               PROVE  owner = p /\ marker[imp[p].ex].seen = "whole"
    BY DEF GuardHolds
  <2>1. ImpInv(p)
    BY DEF Inv
  <2> QED
    BY <2>1 DEF ImpInv, Owning, Installing
<1>2. CloneReexports
  <2> SUFFICES ASSUME NEW e \in acked, head.seen = e.head
               PROVE  /\ Exported = [head |-> e.head, receipts |-> e.receipts,
                                     branches |-> e.branches]
                      /\ {x \in parts.seen : x.kind # "object"} \subseteq PartsOf(e)
                      /\ PartsOf(e) \subseteq parts.safe
    BY DEF CloneReexports
  <2>1. e \in Exchanges /\ TypeOK
    BY DEF Inv, TypeOK
  <2>2. /\ Preflight(e)
        /\ {x \in parts.seen : x.kind # "object"} \subseteq PartsOf(e)
        /\ PartsOf(e) \subseteq parts.safe
    BY DEF Inv, AckedInv
  <2> QED
    BY <2>1, <2>2, PureCloneExports
<1> QED
  BY <1>1, <1>2
-----------------------------------------------------------------------------
(* Parts of a step.                                                        *)

Places == {"idle", "mark", "write", "rename", "sync", "lock", "own", "install",
           "syncpart", "synchead", "unmark", "syncunmark"}

ImpType == [pc : Places, ex : Exchanges \cup {NoExchange}, created : BOOLEAN,
            fd : {"none", "temp", "marker", "gone"},
            part : SUBSET AllParts, done : SUBSET AllParts]

Marks == {"none", "torn", "whole"}

Heads == Transactions \cup {NoTx, LocalGenesis, LocalCommit}

\* q is where it was, with its open file perhaps elsewhere; q is the same.
Stays(q) ==
  /\ imp'[q].pc = imp[q].pc /\ imp'[q].ex = imp[q].ex
  /\ imp'[q].part = imp[q].part /\ imp'[q].done = imp[q].done

Same(q) == Stays(q) /\ imp'[q].fd = imp[q].fd

\* p goes on, p returns.
Moves(p, where) ==
  /\ imp' \in [Importers -> ImpType]
  /\ imp'[p].pc = where /\ imp'[p].ex = imp[p].ex
  /\ imp'[p].part = imp[p].part /\ imp'[p].done = imp[p].done
  /\ \A q \in Importers \ {p} : Stays(q)

Leaves(p) ==
  /\ imp' \in [Importers -> ImpType]
  /\ imp'[p] = IdleImporter
  /\ \A q \in Importers \ {p} : Stays(q)

\* The types of cells.
LEMMA CellTypes ==
  ASSUME NEW V, NEW v \in V
  PROVE  /\ Settled(v) \in CellOf(V)
         /\ \A c \in CellOf(V) : Replace(c, v) \in CellOf(V) /\ SyncCell(c) \in CellOf(V)
         /\ \A c \in CellOf(V) : AfterPowerLoss(c) \subseteq CellOf(V)
  BY DEF Settled, Replace, SyncCell, AfterPowerLoss, CellOf

\* The fields of cells.
LEMMA CellFields ==
  ASSUME NEW v, NEW c
  PROVE  /\ Settled(v).seen = v /\ Settled(v).disk = {v}
         /\ Replace(c, v).seen = v /\ Replace(c, v).disk = c.disk \cup {v}
         /\ SyncCell(c) = Settled(c.seen) /\ SyncCell(c).seen = c.seen
  BY DEF Settled, Replace, SyncCell

\* The parts of an exchange are among all parts.
LEMMA PartTypes ==
  ASSUME NEW e \in Exchanges
  PROVE  PartsOf(e) \subseteq AllParts
  BY DEF AllParts

\* The idle importer, and its type.
LEMMA IdleType ==
  /\ IdleImporter \in ImpType
  /\ IdleImporter.pc = "idle" /\ IdleImporter.fd = "none"
  /\ IdleImporter.part = {} /\ IdleImporter.done = {}
  BY DEF IdleImporter, ImpType, Places

\* What Goto and Return do.
LEMMA GotoMoves ==
  ASSUME TypeOK, NEW p \in Importers, NEW where \in Places, Goto(p, where)
  PROVE  Moves(p, where) /\ \A q \in Importers : imp'[q].fd = imp[q].fd
<1>1. imp \in [Importers -> ImpType]
  BY DEF TypeOK, ImpType, Places
<1>2. imp' = [imp EXCEPT ![p].pc = where]
  BY DEF Goto
<1>3. imp' \in [Importers -> ImpType]
  BY <1>1, <1>2 DEF ImpType
<1>4. \A q \in Importers : imp[q] \in ImpType
  BY <1>1
<1>5. imp'[p] = [imp[p] EXCEPT !.pc = where] /\ \A q \in Importers \ {p} : imp'[q] = imp[q]
  BY <1>1, <1>2
<1>6. /\ imp'[p].pc = where /\ imp'[p].ex = imp[p].ex /\ imp'[p].fd = imp[p].fd
      /\ imp'[p].part = imp[p].part /\ imp'[p].done = imp[p].done
  BY <1>4, <1>5 DEF ImpType
<1> QED
  BY <1>3, <1>5, <1>6 DEF Moves, Stays

\* An importer that returns leaves the others as they are.
LEMMA ReturnLeaves ==
  ASSUME TypeOK, NEW p \in Importers, imp' = [imp EXCEPT ![p] = IdleImporter]
  PROVE  Leaves(p) /\ \A q \in Importers \ {p} : imp'[q].fd = imp[q].fd
<1>1. imp \in [Importers -> ImpType]
  BY DEF TypeOK, ImpType, Places
<1> QED
  BY <1>1, IdleType DEF Leaves, Stays

\* What FilesMove does, before the importer at hand goes on.
LEMMA FilesMoved ==
  ASSUME TypeOK, NEW e, NEW from, NEW to \in {"none", "temp", "marker", "gone"},
         NEW files, files = FilesMove(e, from, to)
  PROVE  /\ files \in [Importers -> ImpType]
         /\ \A q \in Importers :
              /\ files[q].pc = imp[q].pc /\ files[q].ex = imp[q].ex
              /\ files[q].part = imp[q].part /\ files[q].done = imp[q].done
              /\ files[q].fd = IF imp[q].ex = e /\ imp[q].fd = from THEN to ELSE imp[q].fd
<1>1. imp \in [Importers -> ImpType]
  BY DEF TypeOK, ImpType, Places
<1>2. \A q \in Importers :
        files[q] = IF imp[q].ex = e /\ imp[q].fd = from THEN [imp[q] EXCEPT !.fd = to] ELSE imp[q]
  BY DEF FilesMove
<1>3. \A q \in Importers : files[q] \in ImpType
  BY <1>1, <1>2 DEF ImpType
<1>4. files \in [Importers -> ImpType]
  <2>1. files = [q \in Importers |-> IF imp[q].ex = e /\ imp[q].fd = from
                                     THEN [imp[q] EXCEPT !.fd = to] ELSE imp[q]]
    BY DEF FilesMove
  <2>2. files = [q \in Importers |-> files[q]]
    BY <2>1
  <2> HIDE DEF ImpType
  <2> QED
    BY <1>3, <2>2
<1>5. \A q \in Importers :
        /\ files[q].pc = imp[q].pc /\ files[q].ex = imp[q].ex
        /\ files[q].part = imp[q].part /\ files[q].done = imp[q].done
        /\ files[q].fd = IF imp[q].ex = e /\ imp[q].fd = from THEN to ELSE imp[q].fd
  <2> SUFFICES ASSUME NEW q \in Importers
               PROVE  /\ files[q].pc = imp[q].pc /\ files[q].ex = imp[q].ex
                      /\ files[q].part = imp[q].part /\ files[q].done = imp[q].done
                      /\ files[q].fd = IF imp[q].ex = e /\ imp[q].fd = from
                                       THEN to ELSE imp[q].fd
    OBVIOUS
  <2>1. imp[q] \in ImpType
    BY <1>1
  <2>2. CASE imp[q].ex = e /\ imp[q].fd = from
    <3>1. files[q] = [imp[q] EXCEPT !.fd = to]
      BY <1>2, <2>2
    <3> QED
      BY <2>1, <2>2, <3>1 DEF ImpType
  <2>3. CASE ~(imp[q].ex = e /\ imp[q].fd = from)
    <3>1. files[q] = imp[q]
      BY <1>2, <2>3
    <3> QED
      BY <2>3, <3>1
  <2> QED
    BY <2>2, <2>3
<1> QED
  BY <1>4, <1>5
-----------------------------------------------------------------------------
(* What keeps the parts of the invariant.                                  *)

\* The root and what is acknowledged are left alone.
LEMMA RootKept ==
  ASSUME Inv, UNCHANGED <<parts, head>>, acked' \subseteq acked
  PROVE  HeadInv' /\ HeadIsWhole' /\ AckedInv'
  BY DEF Inv, HeadInv, HeadIsWhole, AckedInv

\* An importer that stays where it is while another one takes a step: it is
\* not the owner if the other one is.
LEMMA ImpKept ==
  ASSUME Inv, NEW q \in Importers, Stays(q),
         imp[q].pc \in Owning => owner' = q,
         imp[q].pc \in Installing =>
           /\ UNCHANGED <<parts, head>> /\ acked' \subseteq acked
           /\ marker[imp[q].ex].seen = "whole" => marker'[imp[q].ex].seen = "whole"
  PROVE  ImpInv(q)'
<1>1. ImpInv(q)
  BY DEF Inv
<1>2. Complete \subseteq Installing
  BY DEF Complete, Installing, Owning
<1>3. CASE imp[q].pc \in Installing
  <2>1. /\ parts' = parts /\ head' = head /\ acked' \subseteq acked
        /\ marker[imp[q].ex].seen = "whole" => marker'[imp[q].ex].seen = "whole"
    BY <1>3
  <2> QED
    BY <1>1, <1>2, <1>3, <2>1 DEF ImpInv, BelongsTo, Stays
<1>4. CASE imp[q].pc \notin Installing
  BY <1>1, <1>2, <1>4 DEF ImpInv, Stays
<1> QED
  BY <1>3, <1>4

\* An importer that is idle.
LEMMA IdleKept ==
  ASSUME NEW q \in Importers, imp'[q] = IdleImporter
  PROVE  ImpInv(q)' /\ FileInv(q)'
<1>1. /\ imp'[q].pc = "idle" /\ imp'[q].fd = "none"
      /\ imp'[q].part = {} /\ imp'[q].done = {}
  BY IdleType
<1> QED
  BY <1>1 DEF ImpInv, FileInv, Complete, Installing, Owning

\* The files of an importer whose names do not move.
LEMMA FileKept ==
  ASSUME Inv, NEW q \in Importers, Same(q),
         \A e \in Exchanges : /\ temp'[e] = "none" <=> temp[e] = "none"
                              /\ marker'[e].seen = "none" <=> marker[e].seen = "none"
  PROVE  FileInv(q)'
<1>1. FileInv(q) /\ ImpInv(q)
  BY DEF Inv
<1>2. imp[q].pc \in {"write", "rename"} => imp[q].ex \in Exchanges
  BY <1>1 DEF ImpInv
<1> QED
  BY <1>1, <1>2 DEF FileInv, Same, Stays

\* A step of p that is not under exclusive maintenance, or that ends it, and
\* that leaves the root alone and the markers as they are seen.
LEMMA QuietKeeps ==
  ASSUME Inv, NEW p \in Importers, TypeOK', UNCHANGED <<temp, parts, head, user, acked>>,
         \A e \in Exchanges : marker'[e].seen = marker[e].seen,
         \/ Leaves(p) /\ owner' = Released(p)
         \/ Moves(p, "lock") /\ imp[p].pc \in {"mark", "sync"} /\ owner' = owner,
         \A q \in Importers \ {p} : imp'[q].fd = imp[q].fd,
         imp'[p].fd \in {"none", imp[p].fd}
  PROVE  Inv'
<1>1. HeadInv' /\ HeadIsWhole' /\ AckedInv'
  BY RootKept
<1>2. UserInv'
  BY DEF Inv, UserInv, Released
<1>3. \A q \in Importers \ {p} : Stays(q)
  BY DEF Leaves, Moves
<1>4. ASSUME NEW q \in Importers \ {p}
      PROVE  ImpInv(q)' /\ FileInv(q)'
  <2>1. imp[q].pc \in Owning => owner' = q
    BY DEF Inv, ImpInv, Released
  <2>2. ImpInv(q)'
    <3>1. imp[q].pc \in Installing => imp[q].ex \in Exchanges
      BY DEF Inv, ImpInv, Installing, Owning
    <3> QED
      BY <1>3, <2>1, <3>1, ImpKept
  <2>3. Same(q)
    BY <1>3 DEF Same
  <2>4. FileInv(q)'
    BY <2>3, FileKept
  <2> QED
    BY <2>2, <2>4
<1>5. ImpInv(p)' /\ FileInv(p)'
  <2>1. CASE Leaves(p)
    BY <2>1, IdleKept DEF Leaves
  <2>2. CASE Moves(p, "lock") /\ imp[p].pc \in {"mark", "sync"}
    <3>1. ImpInv(p) /\ FileInv(p)
      BY DEF Inv
    <3>2. imp[p].ex \in Exchanges
      BY <2>2, <3>1 DEF ImpInv
    <3> QED
      BY <2>2, <3>1, <3>2 DEF Moves, ImpInv, FileInv, Owning, Installing, Complete
  <2> QED
    BY <2>1, <2>2
<1> QED
  BY <1>1, <1>2, <1>4, <1>5 DEF Inv

\* fsync of the version directory changes no marker that anyone sees.
LEMMA MarkersSynced ==
  ASSUME NEW e, NEW m \in [Exchanges -> CellOf(Marks)]
  PROVE  /\ SyncMarkers(e, m) \in [Exchanges -> CellOf(Marks)]
         /\ \A f \in Exchanges : SyncMarkers(e, m)[f].seen = m[f].seen
<1>1. ASSUME NEW f \in Exchanges
      PROVE  SyncCell(m[f]) \in CellOf(Marks) /\ SyncCell(m[f]).seen = m[f].seen
  <2>1. m[f] \in CellOf(Marks) /\ m[f].seen \in Marks
    BY DEF CellOf
  <2> QED
    BY <2>1, CellTypes, CellFields
<1>2. \A f \in Exchanges :
        SyncMarkers(e, m)[f] = IF f \in Siblings(e) THEN SyncCell(m[f]) ELSE m[f]
  BY DEF SyncMarkers
<1>3. \A f \in Exchanges : /\ SyncMarkers(e, m)[f] \in CellOf(Marks)
                           /\ SyncMarkers(e, m)[f].seen = m[f].seen
  BY <1>1, <1>2
<1>4. SyncMarkers(e, m) = [f \in Exchanges |-> SyncMarkers(e, m)[f]]
  BY DEF SyncMarkers
<1> QED
  BY <1>3, <1>4

\* The types, as the proofs below use them.
LEMMA Types ==
  TypeOK <=>
    /\ marker \in [Exchanges -> CellOf(Marks)]
    /\ temp \in [Exchanges -> Marks]
    /\ vdirs \in [seen : SUBSET {"v1", "v2"}, safe : SUBSET {"v1", "v2"}]
    /\ layout \in BOOLEAN
    /\ parts \in [seen : SUBSET AllParts, safe : SUBSET AllParts]
    /\ parts.safe \subseteq parts.seen
    /\ head \in CellOf(Heads)
    /\ owner \in Importers \cup {NoOne}
    /\ imp \in [Importers -> ImpType]
    /\ user \in [Users -> {"idle", "inside", "done"}]
    /\ acked \subseteq Exchanges
    /\ faults \in 0 .. MaxFault /\ uses \in 0 .. MaxUse
  BY DEF TypeOK, Marks, Heads, ImpType, Places

\* The types of the next state, from those of its variables.
LEMMA NextTypes ==
  ASSUME marker' \in [Exchanges -> CellOf(Marks)],
         temp' \in [Exchanges -> Marks],
         vdirs' \in [seen : SUBSET {"v1", "v2"}, safe : SUBSET {"v1", "v2"}],
         layout' \in BOOLEAN,
         parts' \in [seen : SUBSET AllParts, safe : SUBSET AllParts],
         parts'.safe \subseteq parts'.seen,
         head' \in CellOf(Heads),
         owner' \in Importers \cup {NoOne},
         imp' \in [Importers -> ImpType],
         user' \in [Users -> {"idle", "inside", "done"}],
         acked' \subseteq Exchanges,
         faults' \in 0 .. MaxFault, uses' \in 0 .. MaxUse
  PROVE  TypeOK'
  BY DEF TypeOK, Marks, Heads, ImpType, Places

\* A version directory appears.
LEMMA VersionLinked ==
  ASSUME TypeOK, NEW e \in Exchanges
  PROVE  Link(vdirs, e.version) \in [seen : SUBSET {"v1", "v2"}, safe : SUBSET {"v1", "v2"}]
<1>1. e.version \in {"v1", "v2"}
  BY CloneAssumption
<1>2. vdirs \in [seen : SUBSET {"v1", "v2"}, safe : SUBSET {"v1", "v2"}]
  BY Types
<1> QED
  BY <1>1, <1>2 DEF Link

\* The steps that refuse, or only look.
LEMMA RefusalsKeep ==
  ASSUME Inv, NEW p \in Importers,
         \/ FindMarker(p) \/ RenameFails(p) \/ SyncMarker(p) \/ LockHeld(p) \/ Stop(p)
  PROVE  Inv'
<1>1. TypeOK /\ ImpInv(p)
  BY DEF Inv
<1>2. Released(p) \in Importers \cup {NoOne}
  BY <1>1 DEF TypeOK, Released
<1>3. imp[p].pc # "idle" => imp[p].ex \in Exchanges
  BY <1>1 DEF ImpInv
<1>4. CASE FindMarker(p)
  <2>0. imp[p].ex \in Exchanges
    BY <1>3, <1>4 DEF FindMarker, At
  <2>1. CASE Goto(p, "lock") /\ owner' = owner
    <3>1. Moves(p, "lock") /\ \A q \in Importers : imp'[q].fd = imp[q].fd
      BY <1>1, <2>1, GotoMoves DEF Places
    <3>2. TypeOK'
      BY <1>1, <1>4, <2>0, <2>1, <3>1, Types, NextTypes, VersionLinked DEF FindMarker, Moves, counts
    <3> QED
      BY <1>4, <2>1, <3>1, <3>2, QuietKeeps DEF FindMarker, At, counts
  <2>2. CASE Return(p)
    <3>1. Leaves(p) /\ \A q \in Importers \ {p} : imp'[q].fd = imp[q].fd
      BY <1>1, <2>2, ReturnLeaves DEF Return
    <3>2. TypeOK'
      BY <1>1, <1>2, <1>4, <2>0, <2>2, <3>1, Types, NextTypes, VersionLinked DEF FindMarker, Leaves, Return, counts
    <3>3. imp'[p].fd = "none"
      BY <3>1, IdleType DEF Leaves
    <3> QED
      BY <1>4, <2>2, <3>1, <3>2, <3>3, QuietKeeps DEF FindMarker, Return, counts
  <2> QED
    BY <1>4, <2>1, <2>2 DEF FindMarker
<1>5. CASE SyncMarker(p)
  <2>0. imp[p].ex \in Exchanges
    BY <1>3, <1>5 DEF SyncMarker, At
  <2>1. Moves(p, "lock") /\ \A q \in Importers : imp'[q].fd = imp[q].fd
    BY <1>1, <1>5, GotoMoves DEF SyncMarker, Places
  <2>2. /\ marker' \in [Exchanges -> CellOf(Marks)]
        /\ \A e \in Exchanges : marker'[e].seen = marker[e].seen
    BY <1>1, <1>5, Types, MarkersSynced DEF SyncMarker
  <2>3. vdirs' \in [seen : SUBSET {"v1", "v2"}, safe : SUBSET {"v1", "v2"}]
    BY <1>1, <1>5, Types DEF SyncMarker, SyncShelf
  <2>4. TypeOK'
    BY <1>1, <1>5, <2>1, <2>2, <2>3, Types, NextTypes DEF SyncMarker, Moves, counts
  <2> QED
    BY <1>5, <2>1, <2>2, <2>4, QuietKeeps DEF SyncMarker, At, counts
<1>6. CASE RenameFails(p) \/ LockHeld(p) \/ Stop(p)
  <2>1. Return(p) /\ UNCHANGED <<marker, temp, vdirs, parts, head, user, acked, uses>>
    BY <1>6 DEF RenameFails, LockHeld, Stop, counts, fs
  <2>2. Leaves(p) /\ \A q \in Importers \ {p} : imp'[q].fd = imp[q].fd
    BY <1>1, <2>1, ReturnLeaves DEF Return
  <2>3. layout' \in BOOLEAN
    BY <1>1, <1>6, Types DEF RenameFails, LockHeld, Stop, fs
  <2>4. faults' \in 0 .. MaxFault
    BY <1>1, <1>6, Types, CloneAssumption DEF RenameFails, LockHeld, Stop, counts
  <2>5. TypeOK'
    BY <1>1, <1>2, <2>1, <2>2, <2>3, <2>4, Types, NextTypes DEF Leaves, Return
  <2>6. imp'[p].fd = "none"
    BY <2>2, IdleType DEF Leaves
  <2> QED
    BY <2>1, <2>2, <2>5, <2>6, QuietKeeps DEF Return
<1> QED
  BY <1>4, <1>5, <1>6
-----------------------------------------------------------------------------
(* The steps up to the lock.                                               *)

\* A step of p outside maintenance keeps every whole marker.
LEMMA MarkingKeeps ==
  ASSUME Inv, NEW p \in Importers, TypeOK', UNCHANGED <<parts, head, user, acked, owner>>,
         \A q \in Importers \ {p} : Stays(q),
         \A e \in Exchanges : marker[e].seen = "whole" => marker'[e].seen = "whole",
         ImpInv(p)',
         \A q \in Importers : FileInv(q)'
  PROVE  Inv'
<1>1. HeadInv' /\ HeadIsWhole' /\ AckedInv' /\ UserInv'
  BY RootKept DEF Inv, UserInv
<1>2. ASSUME NEW q \in Importers \ {p}
      PROVE  ImpInv(q)'
  <2>1. ImpInv(q) /\ Stays(q)
    BY DEF Inv
  <2>2. imp[q].pc \in Owning => owner' = q /\ imp[q].ex \in Exchanges
    BY <2>1 DEF ImpInv, Owning
  <2>3. Installing \subseteq Owning
    BY DEF Installing
  <2> QED
    BY <2>1, <2>2, <2>3, ImpKept
<1> QED
  BY <1>1, <1>2 DEF Inv

\* An import begins.
LEMMA BeginKeeps ==
  ASSUME Inv, NEW p \in Importers, NEW e \in Exchanges, Begin(p, e)
  PROVE  Inv'
<1>1. TypeOK
  BY DEF Inv
<1> DEFINE r == [IdleImporter EXCEPT !.pc = "mark", !.ex = e]
<1>2. /\ r \in ImpType /\ r.pc = "mark" /\ r.ex = e /\ r.fd = "none"
      /\ r.part = {} /\ r.done = {}
  BY DEF IdleImporter, ImpType, Places
<1> HIDE DEF r
<1>3. imp' = [imp EXCEPT ![p] = r] /\ Preflight(e)
  BY DEF Begin, r
<1>4. imp' \in [Importers -> ImpType] /\ imp'[p] = r /\ \A q \in Importers \ {p} : imp'[q] = imp[q]
  BY <1>1, <1>2, <1>3, Types
<1>5. UNCHANGED <<marker, temp, vdirs, layout, parts, head, owner, user, acked, faults, uses>>
  BY DEF Begin, fs, counts
<1>6. TypeOK'
  BY <1>1, <1>4, <1>5, Types, NextTypes
<1>7. ImpInv(p)' /\ FileInv(p)'
  BY <1>2, <1>3, <1>4 DEF ImpInv, FileInv, Owning, Installing, Complete
<1>8. ASSUME NEW q \in Importers \ {p}
      PROVE  Stays(q) /\ FileInv(q)'
  <2>1. Same(q)
    BY <1>4 DEF Same, Stays
  <2> QED
    BY <1>5, <2>1, FileKept DEF Same
<1> QED
  BY <1>5, <1>6, <1>7, <1>8, MarkingKeeps

\* No marker is there, and every file open on the old temporary loses it.
LEMMA CreateTempKeeps ==
  ASSUME Inv, NEW p \in Importers, CreateTemp(p)
  PROVE  Inv'
<1>1. TypeOK /\ ImpInv(p) /\ FileInv(p)
  BY DEF Inv
<1>2. PICK e \in Exchanges : e = imp[p].ex
  BY <1>1 DEF ImpInv, CreateTemp, At
<1>3. PICK files : files = FilesMove(e, "temp", "gone")
  OBVIOUS
<1>4. /\ files \in [Importers -> ImpType]
      /\ \A q \in Importers :
           /\ files[q].pc = imp[q].pc /\ files[q].ex = imp[q].ex
           /\ files[q].part = imp[q].part /\ files[q].done = imp[q].done
           /\ files[q].fd = IF imp[q].ex = e /\ imp[q].fd = "temp" THEN "gone" ELSE imp[q].fd
  BY <1>1, <1>3, FilesMoved
<1>5. /\ imp[p].pc = "mark" /\ marker[e].seen = "none"
      /\ imp' = [files EXCEPT ![p].pc = "write", ![p].fd = "temp"]
      /\ temp' = [temp EXCEPT ![e] = "torn"] /\ vdirs' = Link(vdirs, e.version)
      /\ UNCHANGED <<marker, layout, parts, head, owner, user, acked, faults, uses>>
  BY <1>2, <1>3 DEF CreateTemp, At, counts
<1>6. /\ imp' \in [Importers -> ImpType]
      /\ imp'[p].pc = "write" /\ imp'[p].fd = "temp" /\ imp'[p].ex = e
      /\ imp'[p].part = imp[p].part /\ imp'[p].done = imp[p].done
      /\ \A q \in Importers \ {p} : imp'[q] = files[q]
  <2>1. files[p] \in ImpType
    BY <1>4
  <2>2. imp'[p] = [files[p] EXCEPT !.pc = "write", !.fd = "temp"]
    BY <1>4, <1>5
  <2>3. /\ imp'[p] \in ImpType /\ imp'[p].pc = "write" /\ imp'[p].fd = "temp"
        /\ imp'[p].ex = files[p].ex /\ imp'[p].part = files[p].part /\ imp'[p].done = files[p].done
    BY <2>1, <2>2 DEF ImpType, Places
  <2>4. imp' = [files EXCEPT ![p] = imp'[p]]
    BY <1>4, <1>5
  <2> QED
    BY <1>2, <1>4, <2>3, <2>4
<1>7. temp' \in [Exchanges -> Marks] /\ temp'[e] = "torn" /\ \A f \in Exchanges \ {e} : temp'[f] = temp[f]
  BY <1>1, <1>5, Types DEF Marks
<1>8. TypeOK'
  BY <1>1, <1>5, <1>6, <1>7, Types, NextTypes, VersionLinked
<1>9. ImpInv(p)'
  BY <1>1, <1>2, <1>5, <1>6 DEF ImpInv, Owning, Installing, Complete
<1>10. FileInv(p)'
  BY <1>5, <1>6, <1>7 DEF FileInv
<1>11. ASSUME NEW q \in Importers \ {p}
       PROVE  Stays(q) /\ FileInv(q)'
  <2>1. Stays(q)
    BY <1>4, <1>6 DEF Stays
  <2>2. FileInv(q) /\ ImpInv(q)
    BY DEF Inv
  <2>3. imp[q].pc \in {"write", "rename"} => imp[q].ex \in Exchanges
    BY <2>2 DEF ImpInv
  <2>4. imp'[q].fd = IF imp[q].ex = e /\ imp[q].fd = "temp" THEN "gone" ELSE imp[q].fd
    BY <1>4, <1>6
  <2>5. FileInv(q)'
    <3>1. CASE imp[q].ex = e
      BY <1>5, <1>7, <2>1, <2>2, <2>4, <3>1 DEF FileInv, Stays
    <3>2. CASE imp[q].ex # e
      BY <1>5, <1>7, <2>1, <2>2, <2>3, <2>4, <3>2 DEF FileInv, Stays
    <3> QED
      BY <3>1, <3>2
  <2> QED
    BY <2>1, <2>5
<1> QED
  BY <1>5, <1>8, <1>9, <1>10, <1>11, MarkingKeeps

\* A write reaches the temporary before there is a marker, or the marker.
LEMMA WriteTempKeeps ==
  ASSUME Inv, NEW p \in Importers, WriteTemp(p)
  PROVE  Inv'
<1>1. TypeOK /\ ImpInv(p) /\ FileInv(p)
  BY DEF Inv
<1>2. PICK e \in Exchanges : e = imp[p].ex
  BY <1>1 DEF ImpInv, WriteTemp, At
<1>3. /\ imp[p].pc = "write" /\ Goto(p, "rename")
      /\ UNCHANGED <<vdirs, layout, parts, head, owner, user, acked, faults, uses>>
      /\ temp' = IF imp[p].fd = "temp" THEN [temp EXCEPT ![e] = "whole"] ELSE temp
      /\ marker' = IF imp[p].fd = "marker"
                   THEN [marker EXCEPT ![e] = [seen |-> "whole",
                                               disk |-> (@.disk \ {"torn"}) \cup {"whole"}]]
                   ELSE marker
  BY <1>2 DEF WriteTemp, At, counts
<1>4. Moves(p, "rename") /\ \A q \in Importers : imp'[q].fd = imp[q].fd
  BY <1>1, <1>3, GotoMoves DEF Places
<1>5. /\ temp' \in [Exchanges -> Marks]
      /\ \A f \in Exchanges : temp'[f] = "none" <=> temp[f] = "none"
  <2>1. imp[p].fd = "temp" => temp[e] # "none"
    BY <1>1, <1>2 DEF FileInv
  <2> QED
    BY <1>1, <1>3, <2>1, Types DEF Marks
<1>6. /\ marker' \in [Exchanges -> CellOf(Marks)]
      /\ \A f \in Exchanges : /\ marker'[f].seen = "none" <=> marker[f].seen = "none"
                              /\ marker[f].seen = "whole" => marker'[f].seen = "whole"
  <2>1. CASE imp[p].fd = "marker"
    <3> DEFINE c == [seen |-> "whole", disk |-> (marker[e].disk \ {"torn"}) \cup {"whole"}]
    <3>1. marker[e] \in CellOf(Marks) /\ marker[e].seen # "none"
      BY <1>1, <1>2, <2>1, Types DEF FileInv
    <3>2. c \in CellOf(Marks) /\ c.seen = "whole"
      BY <3>1 DEF CellOf, Marks
    <3> HIDE DEF c
    <3>3. marker' = [marker EXCEPT ![e] = c]
      BY <1>3, <2>1 DEF c
    <3> QED
      BY <1>1, <3>1, <3>2, <3>3, Types
  <2>2. CASE imp[p].fd # "marker"
    BY <1>1, <1>3, <2>2, Types
  <2> QED
    BY <2>1, <2>2
<1>7. TypeOK'
  BY <1>1, <1>3, <1>4, <1>5, <1>6, Types, NextTypes DEF Moves
<1>8. ImpInv(p)'
  BY <1>1, <1>3, <1>4 DEF Moves, ImpInv, Owning, Installing, Complete
<1>9. FileInv(p)'
  BY <1>1, <1>2, <1>3, <1>4, <1>5, <1>6 DEF Moves, FileInv
<1>10. ASSUME NEW q \in Importers \ {p}
       PROVE  Stays(q) /\ FileInv(q)'
  <2>1. Same(q)
    BY <1>4 DEF Same, Moves
  <2> QED
    BY <1>5, <1>6, <2>1, FileKept DEF Same
<1> QED
  BY <1>3, <1>6, <1>7, <1>8, <1>9, <1>10, MarkingKeeps

\* A temporary is renamed where there is no marker.
LEMMA RenameMarkerKeeps ==
  ASSUME Inv, NEW p \in Importers, RenameMarker(p)
  PROVE  Inv'
<1>1. TypeOK /\ ImpInv(p) /\ FileInv(p)
  BY DEF Inv
<1>2. PICK e \in Exchanges : e = imp[p].ex
  BY <1>1 DEF ImpInv, RenameMarker, At
<1>3. PICK files : files = FilesMove(e, "temp", "marker")
  OBVIOUS
<1>4. /\ files \in [Importers -> ImpType]
      /\ \A q \in Importers :
           /\ files[q].pc = imp[q].pc /\ files[q].ex = imp[q].ex
           /\ files[q].part = imp[q].part /\ files[q].done = imp[q].done
           /\ files[q].fd = IF imp[q].ex = e /\ imp[q].fd = "temp" THEN "marker" ELSE imp[q].fd
  BY <1>1, <1>3, FilesMoved
<1>5. /\ imp[p].pc = "rename" /\ temp[e] # "none"
      /\ imp' = [files EXCEPT ![p].pc = "sync", ![p].fd = "none", ![p].created = TRUE]
      /\ marker' = [marker EXCEPT ![e] = Replace(@, temp[e])]
      /\ temp' = [temp EXCEPT ![e] = "none"]
      /\ UNCHANGED <<vdirs, layout, parts, head, owner, user, acked, faults, uses>>
  BY <1>2, <1>3 DEF RenameMarker, At, counts
<1>6. /\ imp' \in [Importers -> ImpType]
      /\ imp'[p].pc = "sync" /\ imp'[p].fd = "none" /\ imp'[p].ex = e
      /\ imp'[p].part = imp[p].part /\ imp'[p].done = imp[p].done
      /\ \A q \in Importers \ {p} : imp'[q] = files[q]
  <2>1. files[p] \in ImpType
    BY <1>4
  <2>2. imp'[p] = [files[p] EXCEPT !.pc = "sync", !.fd = "none", !.created = TRUE]
    BY <1>4, <1>5
  <2>3. /\ imp'[p] \in ImpType /\ imp'[p].pc = "sync" /\ imp'[p].fd = "none"
        /\ imp'[p].ex = files[p].ex /\ imp'[p].part = files[p].part /\ imp'[p].done = files[p].done
    BY <2>1, <2>2 DEF ImpType, Places
  <2>4. imp' = [files EXCEPT ![p] = imp'[p]]
    BY <1>4, <1>5
  <2> QED
    BY <1>2, <1>4, <2>3, <2>4
<1>7. temp' \in [Exchanges -> Marks] /\ temp'[e] = "none" /\ \A f \in Exchanges \ {e} : temp'[f] = temp[f]
  BY <1>1, <1>5, Types DEF Marks
<1>8. /\ marker' \in [Exchanges -> CellOf(Marks)] /\ marker'[e].seen = temp[e]
      /\ \A f \in Exchanges \ {e} : marker'[f] = marker[f]
  <2>1. temp[e] \in Marks /\ marker[e] \in CellOf(Marks)
    BY <1>1, Types
  <2>2. Replace(marker[e], temp[e]) \in CellOf(Marks) /\ Replace(marker[e], temp[e]).seen = temp[e]
    BY <2>1, CellTypes, CellFields
  <2> QED
    BY <1>1, <1>5, <2>2, Types
<1>9. marker[e].seen = "none"
  BY <1>1, <1>2, <1>5 DEF FileInv
<1>10. TypeOK'
  BY <1>1, <1>5, <1>6, <1>7, <1>8, Types, NextTypes
<1>11. ImpInv(p)' /\ FileInv(p)'
  BY <1>1, <1>2, <1>5, <1>6 DEF ImpInv, FileInv, Owning, Installing, Complete
<1>12. ASSUME NEW q \in Importers \ {p}
       PROVE  Stays(q) /\ FileInv(q)'
  <2>1. Stays(q)
    BY <1>4, <1>6 DEF Stays
  <2>2. FileInv(q) /\ ImpInv(q)
    BY DEF Inv
  <2>3. imp[q].pc \in {"write", "rename"} => imp[q].ex \in Exchanges
    BY <2>2 DEF ImpInv
  <2>4. imp'[q].fd = IF imp[q].ex = e /\ imp[q].fd = "temp" THEN "marker" ELSE imp[q].fd
    BY <1>4, <1>6
  <2>5. FileInv(q)'
    <3>1. CASE imp[q].ex = e
      BY <1>5, <1>7, <1>8, <2>1, <2>2, <2>4, <3>1 DEF FileInv, Stays
    <3>2. CASE imp[q].ex # e
      BY <1>5, <1>7, <1>8, <2>1, <2>2, <2>3, <2>4, <3>2 DEF FileInv, Stays
    <3> QED
      BY <3>1, <3>2
  <2> QED
    BY <2>1, <2>5
<1>13. \A f \in Exchanges : marker[f].seen = "whole" => marker'[f].seen = "whole"
  BY <1>8, <1>9
<1> QED
  BY <1>5, <1>10, <1>11, <1>12, <1>13, MarkingKeeps
-----------------------------------------------------------------------------
(* The steps under exclusive maintenance.                                  *)

\* Where p owns maintenance, or takes it, no other importer installs.
LEMMA OwnerKeeps ==
  ASSUME Inv, NEW p \in Importers, owner \in {p, NoOne}, TypeOK',
         UserInv', HeadInv', HeadIsWhole', AckedInv',
         \A q \in Importers \ {p} : Stays(q),
         ImpInv(p)', FileInv(p)',
         \A q \in Importers \ {p} : FileInv(q)'
  PROVE  Inv'
<1>1. ASSUME NEW q \in Importers \ {p}
      PROVE  ImpInv(q)'
  <2>1. imp[q].pc \notin Owning
    BY CloneAssumption DEF Inv, ImpInv
  <2>2. imp[q].pc \notin Installing
    BY <2>1 DEF Installing
  <2> QED
    BY <2>1, <2>2, ImpKept
<1> QED
  BY <1>1 DEF Inv

\* The files of everyone when no name moves.
LEMMA NoNameMoves ==
  ASSUME Inv, NEW p \in Importers, UNCHANGED <<marker, temp>>,
         \A q \in Importers \ {p} : Same(q)
  PROVE  \A q \in Importers \ {p} : FileInv(q)'
  BY FileKept

\* The lock is taken, and with it the target.
LEMMA TakeLockKeeps ==
  ASSUME Inv, NEW p \in Importers, TakeLock(p)
  PROVE  Inv'
<1>1. TypeOK /\ ImpInv(p) /\ FileInv(p)
  BY DEF Inv
<1>2. /\ imp[p].pc = "lock" /\ Goto(p, "own") /\ owner = NoOne /\ owner' = p /\ layout' = TRUE
      /\ UNCHANGED <<marker, temp, vdirs, parts, head, user, acked, faults, uses>>
      /\ \A u \in Users : user[u] = "idle"
  BY DEF TakeLock, At, Inside, counts
<1>3. Moves(p, "own") /\ \A q \in Importers : imp'[q].fd = imp[q].fd
  BY <1>1, <1>2, GotoMoves DEF Places
<1>4. TypeOK'
  BY <1>1, <1>2, <1>3, Types, NextTypes DEF Moves
<1>5. HeadInv' /\ HeadIsWhole' /\ AckedInv'
  BY <1>2, RootKept
<1>6. UserInv'
  BY <1>2 DEF UserInv
<1>7. ImpInv(p)' /\ FileInv(p)'
  BY <1>1, <1>2, <1>3 DEF Moves, ImpInv, FileInv, Owning, Installing, Complete
<1>8. \A q \in Importers \ {p} : Stays(q) /\ Same(q)
  BY <1>3 DEF Moves, Same
<1> QED
  BY <1>2, <1>4, <1>5, <1>6, <1>7, <1>8, NoNameMoves, OwnerKeeps

\* What the owned classification found holds from here on.
LEMMA OwnTargetKeeps ==
  ASSUME Inv, NEW p \in Importers, OwnTarget(p)
  PROVE  Inv'
<1>1. TypeOK /\ ImpInv(p) /\ FileInv(p) /\ UserInv
  BY DEF Inv
<1>2. PICK e \in Exchanges : e = imp[p].ex
  BY <1>1 DEF ImpInv, OwnTarget, At
<1>3. /\ imp[p].pc = "own" /\ Goto(p, "install") /\ acked' = acked \cap {e}
      /\ UNCHANGED <<marker, temp, vdirs, layout, parts, head, owner, user, faults, uses>>
      /\ ClassifyTarget(e) = "incomplete"
  BY <1>2 DEF OwnTarget, At, fs
<1>4. owner = p
  BY <1>1, <1>3 DEF ImpInv, Owning
<1>5. marker[e].seen = "whole" /\ BelongsTo(e)
  <2>1. marker[e].seen \in Marks
    BY <1>1, Types DEF CellOf
  <2>2. ~ForeignState(e)
    BY <1>3 DEF ClassifyTarget
  <2>3. marker[e].seen = "none" => ClassifyTarget(e) \in {"refused", "fresh"}
    BY <2>2 DEF ClassifyTarget
  <2>4. marker[e].seen # "torn"
    BY <2>2 DEF ForeignState
  <2>5. marker[e].seen = "whole"
    BY <1>3, <2>1, <2>3, <2>4 DEF Marks
  <2>6. BelongsTo(e)
    BY <1>3, <2>2, <2>5 DEF ClassifyTarget
  <2> QED
    BY <2>5, <2>6
<1>6. Moves(p, "install") /\ \A q \in Importers : imp'[q].fd = imp[q].fd
  BY <1>1, <1>3, GotoMoves DEF Places
<1>7. TypeOK'
  <2>1. acked' \subseteq Exchanges
    BY <1>1, <1>3, Types
  <2> QED
    BY <1>1, <1>3, <1>6, <2>1, Types, NextTypes DEF Moves
<1>8. HeadInv' /\ HeadIsWhole' /\ AckedInv' /\ UserInv'
  BY <1>1, <1>3, RootKept DEF UserInv
<1>9. ImpInv(p)'
  <2>1. BelongsTo(e)'
    BY <1>3, <1>5 DEF BelongsTo
  <2>2. /\ imp[p].done = {} /\ imp[p].part = {} /\ Preflight(e)
    BY <1>1, <1>2, <1>3 DEF ImpInv, Installing, Owning
  <2> QED
    BY <1>2, <1>3, <1>4, <1>5, <1>6, <2>1, <2>2 DEF Moves, ImpInv, Owning, Installing, Complete
<1>10. FileInv(p)'
  BY <1>1, <1>3, <1>6 DEF Moves, FileInv
<1>11. \A q \in Importers \ {p} : Stays(q) /\ Same(q)
  BY <1>6 DEF Moves, Same
<1> QED
  BY <1>3, <1>4, <1>7, <1>8, <1>9, <1>10, <1>11, NoNameMoves, OwnerKeeps

\* A marker is removed: files open on it are gone.
LEMMA UnmarkFiles ==
  ASSUME Inv, NEW e \in Exchanges, NEW q \in Importers, Stays(q), UNCHANGED temp,
         imp'[q].fd = IF imp[q].ex = e /\ imp[q].fd = "marker" THEN "gone" ELSE imp[q].fd,
         \A f \in Exchanges : marker'[f].seen = IF f = e THEN "none" ELSE marker[f].seen
  PROVE  FileInv(q)'
<1>1. FileInv(q) /\ ImpInv(q)
  BY DEF Inv
<1>2. imp[q].pc \in {"write", "rename"} => imp[q].ex \in Exchanges
  BY <1>1 DEF ImpInv
<1>3. CASE imp[q].ex = e
  BY <1>1, <1>3 DEF FileInv, Stays
<1>4. CASE imp[q].ex # e
  BY <1>1, <1>2, <1>4 DEF FileInv, Stays
<1> QED
  BY <1>3, <1>4

\* The target is not what it was, and the marker is taken back or left.
LEMMA RefuseTargetKeeps ==
  ASSUME Inv, NEW p \in Importers, RefuseTarget(p)
  PROVE  Inv'
<1>1. TypeOK /\ ImpInv(p) /\ FileInv(p) /\ UserInv
  BY DEF Inv
<1>2. PICK e \in Exchanges : e = imp[p].ex
  BY <1>1 DEF ImpInv, RefuseTarget, At
<1>3. /\ imp[p].pc = "own" /\ owner' = Released(p)
      /\ UNCHANGED <<temp, vdirs, layout, parts, head, user, acked, faults, uses>>
  BY DEF RefuseTarget, At, counts
<1>4. Released(p) \in Importers \cup {NoOne}
  BY <1>1 DEF TypeOK, Released
<1>5. CASE UNCHANGED marker /\ imp' = [imp EXCEPT ![p] = IdleImporter]
  <2>1. Leaves(p) /\ \A q \in Importers \ {p} : imp'[q].fd = imp[q].fd
    BY <1>1, <1>5, ReturnLeaves
  <2>2. TypeOK'
    BY <1>1, <1>3, <1>4, <1>5, <2>1, Types, NextTypes DEF Leaves
  <2>3. imp'[p].fd = "none"
    BY <2>1, IdleType DEF Leaves
  <2> QED
    BY <1>3, <1>5, <2>1, <2>2, <2>3, QuietKeeps
<1>6. CASE /\ marker' = SyncMarkers(e, [marker EXCEPT ![e] = Replace(@, "none")])
           /\ imp' = [FilesMove(e, "marker", "gone") EXCEPT ![p] = IdleImporter]
  <2>1. PICK files : files = FilesMove(e, "marker", "gone")
    OBVIOUS
  <2>2. /\ files \in [Importers -> ImpType]
        /\ \A q \in Importers :
             /\ files[q].pc = imp[q].pc /\ files[q].ex = imp[q].ex
             /\ files[q].part = imp[q].part /\ files[q].done = imp[q].done
             /\ files[q].fd = IF imp[q].ex = e /\ imp[q].fd = "marker" THEN "gone" ELSE imp[q].fd
    BY <1>1, <2>1, FilesMoved
  <2>3. /\ imp' \in [Importers -> ImpType] /\ imp'[p] = IdleImporter
        /\ \A q \in Importers \ {p} : imp'[q] = files[q]
    BY <1>6, <2>1, <2>2, IdleType
  <2>4. PICK m : m = [marker EXCEPT ![e] = Replace(@, "none")]
    OBVIOUS
  <2>5. /\ m \in [Exchanges -> CellOf(Marks)]
        /\ \A f \in Exchanges : m[f].seen = IF f = e THEN "none" ELSE marker[f].seen
    <3>1. marker[e] \in CellOf(Marks) /\ "none" \in Marks
      BY <1>1, Types DEF Marks
    <3>2. Replace(marker[e], "none") \in CellOf(Marks) /\ Replace(marker[e], "none").seen = "none"
      BY <3>1, CellTypes, CellFields
    <3> QED
      BY <1>1, <2>4, <3>2, Types
  <2>6. /\ marker' \in [Exchanges -> CellOf(Marks)]
        /\ \A f \in Exchanges : marker'[f].seen = IF f = e THEN "none" ELSE marker[f].seen
    BY <1>6, <2>4, <2>5, MarkersSynced
  <2>7. TypeOK'
    BY <1>1, <1>3, <1>4, <2>3, <2>6, Types, NextTypes
  <2>8. HeadInv' /\ HeadIsWhole' /\ AckedInv'
    BY <1>3, RootKept
  <2>9. UserInv'
    BY <1>1, <1>3 DEF UserInv, Released
  <2>10. owner = p
    BY <1>1, <1>3 DEF ImpInv, Owning
  <2>11. ImpInv(p)' /\ FileInv(p)'
    BY <2>3, IdleKept
  <2>12. ASSUME NEW q \in Importers \ {p}
         PROVE  Stays(q) /\ FileInv(q)'
    <3>1. Stays(q)
      BY <2>2, <2>3 DEF Stays
    <3>2. imp'[q].fd = IF imp[q].ex = e /\ imp[q].fd = "marker" THEN "gone" ELSE imp[q].fd
      BY <2>2, <2>3
    <3> QED
      BY <1>3, <2>6, <3>1, <3>2, UnmarkFiles
  <2> QED
    BY <2>7, <2>8, <2>9, <2>10, <2>11, <2>12, OwnerKeeps
<1> QED
  BY <1>2, <1>5, <1>6 DEF RefuseTarget

\* The finished importer takes its marker down.
LEMMA RemoveMarkerKeeps ==
  ASSUME Inv, NEW p \in Importers, RemoveMarker(p)
  PROVE  Inv'
<1>1. TypeOK /\ ImpInv(p) /\ FileInv(p) /\ UserInv
  BY DEF Inv
<1>2. PICK e \in Exchanges : e = imp[p].ex
  BY <1>1 DEF ImpInv, RemoveMarker, At
<1>3. PICK files : files = FilesMove(e, "marker", "gone")
  OBVIOUS
<1>4. /\ files \in [Importers -> ImpType]
      /\ \A q \in Importers :
           /\ files[q].pc = imp[q].pc /\ files[q].ex = imp[q].ex
           /\ files[q].part = imp[q].part /\ files[q].done = imp[q].done
           /\ files[q].fd = IF imp[q].ex = e /\ imp[q].fd = "marker" THEN "gone" ELSE imp[q].fd
  BY <1>1, <1>3, FilesMoved
<1>5. /\ imp[p].pc = "unmark" /\ imp' = [files EXCEPT ![p].pc = "syncunmark"]
      /\ marker' = [marker EXCEPT ![e] = Replace(@, "none")]
      /\ UNCHANGED <<temp, vdirs, layout, parts, head, owner, user, acked, faults, uses>>
  BY <1>2, <1>3 DEF RemoveMarker, At, counts
<1>6. /\ imp' \in [Importers -> ImpType]
      /\ imp'[p].pc = "syncunmark" /\ imp'[p].fd = files[p].fd /\ imp'[p].ex = e
      /\ imp'[p].part = imp[p].part /\ imp'[p].done = imp[p].done
      /\ \A q \in Importers \ {p} : imp'[q] = files[q]
  <2>1. files[p] \in ImpType
    BY <1>4
  <2>2. imp'[p] = [files[p] EXCEPT !.pc = "syncunmark"]
    BY <1>4, <1>5
  <2>3. /\ imp'[p] \in ImpType /\ imp'[p].pc = "syncunmark" /\ imp'[p].fd = files[p].fd
        /\ imp'[p].ex = files[p].ex /\ imp'[p].part = files[p].part /\ imp'[p].done = files[p].done
    BY <2>1, <2>2 DEF ImpType, Places
  <2>4. imp' = [files EXCEPT ![p] = imp'[p]]
    BY <1>4, <1>5
  <2> QED
    BY <1>2, <1>4, <2>3, <2>4
<1>7. /\ marker' \in [Exchanges -> CellOf(Marks)]
      /\ \A f \in Exchanges : marker'[f].seen = IF f = e THEN "none" ELSE marker[f].seen
  <2>1. marker[e] \in CellOf(Marks) /\ "none" \in Marks
    BY <1>1, Types DEF Marks
  <2>2. Replace(marker[e], "none") \in CellOf(Marks) /\ Replace(marker[e], "none").seen = "none"
    BY <2>1, CellTypes, CellFields
  <2> QED
    BY <1>1, <1>5, <2>2, Types
<1>8. TypeOK'
  BY <1>1, <1>5, <1>6, <1>7, Types, NextTypes
<1>9. HeadInv' /\ HeadIsWhole' /\ AckedInv' /\ UserInv'
  BY <1>1, <1>5, RootKept DEF UserInv
<1>10. owner = p
  BY <1>1, <1>5 DEF ImpInv, Owning
<1>11. ImpInv(p)'
  <2>1. BelongsTo(e) => BelongsTo(e)'
    BY <1>5 DEF BelongsTo
  <2> QED
    BY <1>1, <1>2, <1>5, <1>6, <1>10, <2>1 DEF ImpInv, Owning, Installing, Complete
<1>12. ASSUME NEW q \in Importers
       PROVE  (q # p => Stays(q)) /\ FileInv(q)'
  <2>1. CASE q # p
    <3>1. Stays(q)
      BY <1>4, <1>6, <2>1 DEF Stays
    <3>2. imp'[q].fd = IF imp[q].ex = e /\ imp[q].fd = "marker" THEN "gone" ELSE imp[q].fd
      BY <1>4, <1>6, <2>1
    <3> QED
      BY <1>5, <1>7, <3>1, <3>2, UnmarkFiles
  <2>2. CASE q = p
    <3>1. imp'[p].fd = IF imp[p].ex = e /\ imp[p].fd = "marker" THEN "gone" ELSE imp[p].fd
      BY <1>4, <1>6
    <3> QED
      BY <1>1, <1>2, <1>5, <1>6, <1>7, <2>2, <3>1 DEF FileInv
  <2> QED
    BY <2>1, <2>2
<1> QED
  BY <1>8, <1>9, <1>10, <1>11, <1>12, OwnerKeeps

\* The clone is acknowledged.
LEMMA FinishKeeps ==
  ASSUME Inv, NEW p \in Importers, Finish(p)
  PROVE  Inv'
<1>1. TypeOK /\ ImpInv(p) /\ FileInv(p) /\ UserInv /\ HeadInv /\ HeadIsWhole /\ AckedInv
  BY DEF Inv
<1>2. PICK e \in Exchanges : e = imp[p].ex
  BY <1>1 DEF ImpInv, Finish, At
<1>3. /\ imp[p].pc = "syncunmark" /\ marker' = SyncMarkers(e, marker)
      /\ acked' = acked \cup {e} /\ Return(p)
      /\ UNCHANGED <<temp, vdirs, layout, parts, head, user, faults, uses>>
  BY <1>2 DEF Finish, At
<1>4. Leaves(p) /\ \A q \in Importers \ {p} : imp'[q].fd = imp[q].fd
  BY <1>1, <1>3, ReturnLeaves DEF Return
<1>5. /\ marker' \in [Exchanges -> CellOf(Marks)]
      /\ \A f \in Exchanges : marker'[f].seen = marker[f].seen
  BY <1>1, <1>3, Types, MarkersSynced
<1>6. owner = p /\ Preflight(e) /\ BelongsTo(e) /\ PartsOf(e) \subseteq parts.safe
  BY <1>1, <1>2, <1>3 DEF ImpInv, Owning, Installing, Complete
<1>7. TypeOK'
  <2>1. acked' \subseteq Exchanges /\ owner' \in Importers \cup {NoOne}
    BY <1>1, <1>3, Types DEF Return, Released
  <2> QED
    BY <1>1, <1>3, <1>4, <1>5, <2>1, Types, NextTypes DEF Leaves
<1>8. HeadInv' /\ HeadIsWhole' /\ UserInv'
  BY <1>1, <1>3 DEF HeadInv, HeadIsWhole, UserInv, Return, Released
<1>9. AckedInv'
  BY <1>1, <1>3, <1>6 DEF AckedInv, BelongsTo
<1>10. ImpInv(p)' /\ FileInv(p)'
  BY <1>4, IdleKept DEF Leaves
<1>11. ASSUME NEW q \in Importers \ {p}
       PROVE  Stays(q) /\ FileInv(q)'
  <2>1. Same(q)
    BY <1>4 DEF Leaves, Same
  <2> QED
    BY <1>3, <1>5, <2>1, FileKept DEF Same
<1> QED
  BY <1>6, <1>7, <1>8, <1>9, <1>10, <1>11, OwnerKeeps
-----------------------------------------------------------------------------
(* The clone phases.                                                       *)

\* A part appears; it belongs to the only clone that may be acknowledged.
LEMMA LinkPartKeeps ==
  ASSUME Inv, NEW p \in Importers, NEW x \in AllParts, LinkPart(p, x)
  PROVE  Inv'
<1>1. TypeOK /\ ImpInv(p) /\ FileInv(p) /\ UserInv /\ HeadInv /\ HeadIsWhole /\ AckedInv
  BY DEF Inv
<1>2. PICK e \in Exchanges : e = imp[p].ex
  BY <1>1 DEF ImpInv, LinkPart, At
<1>3. /\ imp[p].pc = "install" /\ x \in PartsOf(e)
      /\ parts' = Link(parts, x)
      /\ imp' = [imp EXCEPT ![p].pc = "syncpart", ![p].part = {x}, ![p].done = @ \cup {x}]
      /\ UNCHANGED <<marker, temp, vdirs, layout, head, owner, user, acked, faults, uses>>
  BY <1>2 DEF LinkPart, At, Left, counts
<1>4. parts'.seen = parts.seen \cup {x} /\ parts'.safe = parts.safe
  BY <1>1, <1>3, Types DEF Link
<1>5. /\ imp' \in [Importers -> ImpType]
      /\ imp'[p].pc = "syncpart" /\ imp'[p].fd = imp[p].fd /\ imp'[p].ex = e
      /\ imp'[p].part = {x} /\ imp'[p].done = imp[p].done \cup {x}
      /\ \A q \in Importers \ {p} : imp'[q] = imp[q]
  <2>1. imp[p] \in ImpType
    BY <1>1, Types
  <2>2. PICK D \in SUBSET AllParts : D = imp[p].done \cup {x}
    BY <2>1 DEF ImpType
  <2>3. PICK X \in SUBSET AllParts : X = {x}
    OBVIOUS
  <2>4. imp'[p] = [imp[p] EXCEPT !.pc = "syncpart", !.part = X, !.done = D]
    BY <1>1, <1>3, <2>2, <2>3, Types
  <2>5. /\ imp'[p] \in ImpType /\ imp'[p].pc = "syncpart" /\ imp'[p].fd = imp[p].fd
        /\ imp'[p].ex = imp[p].ex /\ imp'[p].part = X /\ imp'[p].done = D
    BY <2>1, <2>4 DEF ImpType, Places
  <2>6. imp' = [imp EXCEPT ![p] = imp'[p]]
    BY <1>1, <1>3, Types
  <2> QED
    BY <1>1, <1>2, <2>2, <2>5, <2>6, <2>3, Types
<1>6. TypeOK'
  <2>1. /\ parts' \in [seen : SUBSET AllParts, safe : SUBSET AllParts]
        /\ parts'.safe \subseteq parts'.seen
    BY <1>1, <1>3, Types DEF Link
  <2> QED
    BY <1>1, <1>3, <1>5, <2>1, Types, NextTypes
<1>7. HeadInv' /\ HeadIsWhole' /\ UserInv'
  BY <1>1, <1>3, <1>4 DEF HeadInv, HeadIsWhole, UserInv
<1>8. /\ owner = p /\ acked \subseteq {e} /\ Preflight(e) /\ BelongsTo(e)
      /\ imp[p].done \subseteq PartsOf(e) /\ imp[p].done \subseteq parts.safe
      /\ marker[e].seen = "whole"
  BY <1>1, <1>2, <1>3 DEF ImpInv, Owning, Installing
<1>9. AckedInv'
  BY <1>1, <1>3, <1>4, <1>8 DEF AckedInv
<1>10. ImpInv(p)'
  <2>1. BelongsTo(e)'
    BY <1>3, <1>4, <1>8 DEF BelongsTo
  <2> QED
    BY <1>3, <1>4, <1>5, <1>8, <2>1 DEF ImpInv, Owning, Installing, Complete
<1>11. FileInv(p)'
  BY <1>1, <1>2, <1>3, <1>5 DEF FileInv
<1>12. \A q \in Importers \ {p} : Stays(q) /\ Same(q)
  BY <1>5 DEF Same, Stays
<1> QED
  BY <1>3, <1>6, <1>7, <1>8, <1>9, <1>10, <1>11, <1>12, NoNameMoves, OwnerKeeps

\* A part is synced: the next one may build on it.
LEMMA SyncPartKeeps ==
  ASSUME Inv, NEW p \in Importers, SyncPart(p)
  PROVE  Inv'
<1>1. TypeOK /\ ImpInv(p) /\ FileInv(p) /\ UserInv /\ HeadInv /\ HeadIsWhole /\ AckedInv
  BY DEF Inv
<1>2. PICK e \in Exchanges : e = imp[p].ex
  BY <1>1 DEF ImpInv, SyncPart, At
<1>3. PICK S : S = imp[p].part
  OBVIOUS
<1>4. /\ imp[p].pc = "syncpart"
      /\ parts' = [parts EXCEPT !.safe = @ \cup S]
      /\ imp' = [imp EXCEPT ![p].pc = "install", ![p].part = {}]
      /\ UNCHANGED <<marker, temp, vdirs, layout, head, owner, user, acked, faults, uses>>
  BY <1>3 DEF SyncPart, At, counts
<1>5. /\ owner = p /\ acked \subseteq {e} /\ Preflight(e) /\ BelongsTo(e)
      /\ imp[p].done \subseteq PartsOf(e) /\ imp[p].done \ S \subseteq parts.safe
      /\ S \subseteq parts.seen /\ marker[e].seen = "whole"
  BY <1>1, <1>2, <1>3, <1>4 DEF ImpInv, Owning, Installing
<1>6. parts'.seen = parts.seen /\ parts'.safe = parts.safe \cup S
  BY <1>1, <1>4, Types
<1>7. /\ imp' \in [Importers -> ImpType]
      /\ imp'[p].pc = "install" /\ imp'[p].fd = imp[p].fd /\ imp'[p].ex = e
      /\ imp'[p].part = {} /\ imp'[p].done = imp[p].done
      /\ \A q \in Importers \ {p} : imp'[q] = imp[q]
  <2>1. imp[p] \in ImpType
    BY <1>1, Types
  <2>2. imp'[p] = [imp[p] EXCEPT !.pc = "install", !.part = {}]
    BY <1>1, <1>4, Types
  <2>3. /\ imp'[p] \in ImpType /\ imp'[p].pc = "install" /\ imp'[p].fd = imp[p].fd
        /\ imp'[p].ex = imp[p].ex /\ imp'[p].part = {} /\ imp'[p].done = imp[p].done
    BY <2>1, <2>2 DEF ImpType, Places
  <2>4. imp' = [imp EXCEPT ![p] = imp'[p]]
    BY <1>1, <1>4, Types
  <2> QED
    BY <1>1, <1>2, <2>3, <2>4, Types
<1>8. TypeOK'
  <2>1. /\ parts' \in [seen : SUBSET AllParts, safe : SUBSET AllParts]
        /\ parts'.safe \subseteq parts'.seen
    BY <1>1, <1>4, <1>5, <1>6, Types
  <2> QED
    BY <1>1, <1>4, <1>7, <2>1, Types, NextTypes
<1>9. HeadInv' /\ UserInv' /\ AckedInv'
  BY <1>1, <1>4, <1>6 DEF HeadInv, UserInv, AckedInv
<1>10. HeadIsWhole'
  BY <1>1, <1>4, <1>6 DEF HeadIsWhole
<1>11. ImpInv(p)'
  <2>1. BelongsTo(e)'
    BY <1>4, <1>5, <1>6 DEF BelongsTo
  <2> QED
    BY <1>4, <1>5, <1>6, <1>7, <2>1 DEF ImpInv, Owning, Installing, Complete
<1>12. FileInv(p)'
  BY <1>1, <1>2, <1>4, <1>7 DEF FileInv
<1>13. \A q \in Importers \ {p} : Stays(q) /\ Same(q)
  BY <1>7 DEF Same, Stays
<1> QED
  BY <1>4, <1>5, <1>8, <1>9, <1>10, <1>11, <1>12, <1>13, NoNameMoves, OwnerKeeps

\* A step of the owner that changes the head at most.
LEMMA HeadStepKeeps ==
  ASSUME Inv, NEW p \in Importers, NEW e \in Exchanges, e = imp[p].ex,
         imp[p].pc \in {"install", "synchead"}, imp[p].part = {},
         NEW where \in {"synchead", "unmark"}, Goto(p, where),
         UNCHANGED <<marker, temp, vdirs, layout, parts, owner, user, acked, faults, uses>>,
         PartsOf(e) \subseteq parts.safe, head' \in CellOf(Heads), head'.seen = e.head,
         HeadInv', HeadIsWhole'
  PROVE  Inv'
<1>1. TypeOK /\ ImpInv(p) /\ FileInv(p) /\ UserInv /\ AckedInv
  BY DEF Inv
<1>2. Moves(p, where) /\ \A q \in Importers : imp'[q].fd = imp[q].fd
  BY <1>1, GotoMoves DEF Places
<1>3. TypeOK'
  BY <1>1, <1>2, Types, NextTypes DEF Moves
<1>4. /\ owner = p /\ acked \subseteq {e} /\ Preflight(e) /\ BelongsTo(e)
      /\ imp[p].done \subseteq PartsOf(e) /\ imp[p].done \subseteq parts.safe
      /\ marker[e].seen = "whole"
  BY <1>1 DEF ImpInv, Owning, Installing
<1>5. UserInv'
  BY <1>1 DEF UserInv
<1>6. AckedInv'
  BY <1>1, <1>4 DEF AckedInv, BelongsTo
<1>7. ImpInv(p)'
  <2>1. BelongsTo(e)'
    BY <1>4 DEF BelongsTo
  <2> QED
    BY <1>2, <1>4, <2>1 DEF Moves, ImpInv, Owning, Installing, Complete
<1>8. FileInv(p)'
  BY <1>1, <1>2 DEF Moves, FileInv
<1>9. \A q \in Importers \ {p} : Stays(q) /\ Same(q)
  BY <1>2 DEF Moves, Same
<1> QED
  BY <1>3, <1>4, <1>5, <1>6, <1>7, <1>8, <1>9, NoNameMoves, OwnerKeeps

\* When nothing is left, every part is safe.
LEMMA NothingLeft ==
  ASSUME Inv, NEW p \in Importers, imp[p].pc = "install", Left(p) = {}
  PROVE  imp[p].part = {} /\ PartsOf(imp[p].ex) \subseteq parts.safe
<1>1. ImpInv(p)
  BY DEF Inv
<1>2. imp[p].part = {} /\ imp[p].done \ imp[p].part \subseteq parts.safe
  BY <1>1 DEF ImpInv, Owning, Installing
<1> QED
  BY <1>2 DEF Left

\* The head is installed after everything that it binds.
LEMMA InstallHeadKeeps ==
  ASSUME Inv, NEW p \in Importers, InstallHead(p)
  PROVE  Inv'
<1>1. TypeOK /\ ImpInv(p) /\ HeadInv
  BY DEF Inv
<1>2. PICK e \in Exchanges : e = imp[p].ex
  BY <1>1 DEF ImpInv, InstallHead, HeadAdmitted, At
<1>3. /\ imp[p].pc = "install" /\ Left(p) = {} /\ Goto(p, "synchead")
      /\ head.seen = NoTx /\ head' = Replace(head, e.head)
      /\ UNCHANGED <<marker, temp, vdirs, layout, parts, owner, user, acked, faults, uses>>
  BY <1>2 DEF InstallHead, HeadAdmitted, At, counts
<1>4. imp[p].part = {} /\ PartsOf(e) \subseteq parts.safe
  BY <1>2, <1>3, NothingLeft
<1>5. e.head \in Transactions /\ Preflight(e)
  BY <1>1, <1>2, <1>3, CloneAssumption DEF ImpInv
<1>6. head' \in CellOf(Heads) /\ head'.seen = e.head /\ head'.disk \subseteq {NoTx, e.head}
  <2>1. e.head \in Heads /\ head \in CellOf(Heads)
    BY <1>1, <1>5, Types DEF Heads
  <2>2. Replace(head, e.head) \in CellOf(Heads)
    BY <2>1, CellTypes
  <2> QED
    BY <1>1, <1>3, <2>2, CellFields DEF HeadInv
<1>7. HeadInv'
  BY <1>6 DEF HeadInv
<1>8. HeadIsWhole'
  <2> SUFFICES ASSUME NEW h \in head'.disk \cap Transactions, NEW t \in Ancestry({h})
               PROVE  {Receipt(t), Object(t)} \subseteq parts'.safe
    BY DEF HeadIsWhole
  <2>1. h = e.head
    BY <1>6, CloneAssumption
  <2>2. t \in e.receipts
    BY <1>5, <2>1, HeadAncestry
  <2>3. Receipt(t) \in PartsOf(e) /\ Object(t) \in PartsOf(e)
    BY <2>2, PartKinds
  <2> QED
    BY <1>3, <1>4, <2>3
<1> QED
  BY <1>2, <1>3, <1>4, <1>6, <1>7, <1>8, HeadStepKeeps

\* The head is synced, or found in place.
LEMMA SyncHeadKeeps ==
  ASSUME Inv, NEW p \in Importers, SyncHead(p) \/ KeepHead(p)
  PROVE  Inv'
<1>1. TypeOK /\ ImpInv(p) /\ HeadInv /\ HeadIsWhole
  BY DEF Inv
<1>2. PICK e \in Exchanges : e = imp[p].ex
  BY <1>1 DEF ImpInv, SyncHead, KeepHead, HeadAdmitted, At
<1>3. /\ Goto(p, "unmark")
      /\ UNCHANGED <<marker, temp, vdirs, layout, parts, owner, user, acked, faults, uses>>
  BY DEF SyncHead, KeepHead, counts, fs
<1>4. head.seen \in Heads /\ head.seen \in head.disk
  BY <1>1, Types DEF CellOf
<1>5. CASE SyncHead(p)
  <2>1. imp[p].pc = "synchead" /\ head' = SyncCell(head)
    BY <1>5 DEF SyncHead, At
  <2>2. imp[p].part = {} /\ PartsOf(e) \subseteq parts.safe /\ head.seen = e.head
    BY <1>1, <1>2, <2>1 DEF ImpInv, Complete
  <2>3. head'.seen = head.seen /\ head'.disk = {head.seen} /\ head' \in CellOf(Heads)
    BY <1>1, <1>4, <2>1, CellFields, CellTypes, Types
  <2>4. HeadInv' /\ HeadIsWhole'
    BY <1>1, <1>3, <1>4, <2>3 DEF HeadInv, HeadIsWhole
  <2> QED
    BY <1>2, <1>3, <2>1, <2>2, <2>3, <2>4, HeadStepKeeps
<1>6. CASE KeepHead(p)
  <2>1. imp[p].pc = "install" /\ Left(p) = {} /\ head' = head /\ head.seen = e.head
    BY <1>2, <1>6 DEF KeepHead, HeadAdmitted, At, fs
  <2>2. imp[p].part = {} /\ PartsOf(e) \subseteq parts.safe
    BY <1>2, <2>1, NothingLeft
  <2>3. HeadInv' /\ HeadIsWhole' /\ head' \in CellOf(Heads)
    BY <1>1, <1>3, <2>1, Types DEF HeadInv, HeadIsWhole
  <2> QED
    BY <1>2, <1>3, <2>1, <2>2, <2>3, HeadStepKeeps
<1> QED
  BY <1>5, <1>6
-----------------------------------------------------------------------------
(* Users, faults, and the whole specification.                             *)

\* A step of a user: it changes the root only where no importer owns it.
LEMMA UserKeeps ==
  ASSUME Inv, NEW u \in Users, UserStep(u)
  PROVE  Inv'
<1>1. TypeOK /\ UserInv /\ HeadInv /\ HeadIsWhole /\ AckedInv
  BY DEF Inv
<1>2. UNCHANGED <<marker, temp, vdirs, owner, imp, acked, faults>>
  BY DEF UserStep, UserEnter, UserCommit, UserReads, UserLeave, fs, counts
<1>3. owner = NoOne \/ UNCHANGED <<parts, head>>
  BY <1>1 DEF UserStep, UserEnter, UserCommit, UserReads, UserLeave, fs, UserInv
<1>4. ASSUME NEW q \in Importers
      PROVE  ImpInv(q)' /\ FileInv(q)'
  <2>1. Same(q) /\ Stays(q)
    BY <1>2 DEF Same, Stays
  <2>2. imp[q].pc \in Owning => owner = q
    BY DEF Inv, ImpInv
  <2>3. imp[q].pc \in Installing => owner # NoOne
    BY <2>2, CloneAssumption DEF Installing
  <2>4. ImpInv(q)'
    BY <1>2, <1>3, <2>1, <2>2, <2>3, ImpKept
  <2> QED
    BY <1>2, <2>1, <2>4, FileKept
<1>5. user' \in [Users -> {"idle", "inside", "done"}] /\ layout' \in BOOLEAN
  BY <1>1, Types DEF UserStep, UserEnter, UserCommit, UserReads, UserLeave, fs
<1>6. uses' \in 0 .. MaxUse
  BY <1>1, Types, CloneAssumption
  DEF UserStep, UserEnter, UserCommit, UserReads, UserLeave, counts
<1>7. UserInv'
  <2>1. CASE UserEnter(u)
    BY <2>1 DEF UserEnter, UserInv
  <2>2. CASE UserCommit(u) \/ UserReads(u)
    BY <1>1, <1>2, <2>2 DEF UserCommit, UserReads, UserInv
  <2>3. CASE UserLeave(u)
    BY <1>1, <1>2, <2>3, Types DEF UserLeave, UserInv
  <2> QED
    BY <2>1, <2>2, <2>3 DEF UserStep
<1>8. CASE UNCHANGED <<parts, head>>
  <2>1. HeadInv' /\ HeadIsWhole' /\ AckedInv'
    BY <1>2, <1>8, RootKept
  <2>2. TypeOK'
    BY <1>1, <1>2, <1>5, <1>6, <1>8, Types, NextTypes
  <2> QED
    BY <1>4, <1>7, <2>1, <2>2 DEF Inv
<1>9. CASE UserCommit(u)
  <2>1. PICK t \in {LocalGenesis, LocalCommit} :
          parts' = SyncName(Link(parts, Receipt(t)), Receipt(t)) /\ head' = Settled(t)
    BY <1>9 DEF UserCommit
  <2>2. Receipt(t) \in AllParts
    BY DEF AllParts, LocalParts
  <2>3. /\ parts' \in [seen : SUBSET AllParts, safe : SUBSET AllParts]
        /\ parts'.safe \subseteq parts'.seen
    BY <1>1, <2>1, <2>2, Types DEF Link, SyncName
  <2>4. head' \in CellOf(Heads) /\ head'.seen = t /\ head'.disk = {t}
    BY <2>1, CellTypes, CellFields DEF Heads
  <2>5. t \notin Transactions
    BY CloneAssumption
  <2>6. TypeOK'
    BY <1>1, <1>2, <1>5, <1>6, <2>3, <2>4, Types, NextTypes
  <2>7. HeadInv' /\ HeadIsWhole'
    BY <2>4, <2>5 DEF HeadInv, HeadIsWhole
  <2>8. AckedInv'
    <3>1. \A e \in acked : Preflight(e) /\ e.head \in Transactions
      BY <1>1, Types, CloneAssumption DEF AckedInv
    <3> QED
      BY <1>2, <2>4, <2>5, <3>1 DEF AckedInv
  <2> QED
    BY <1>4, <1>7, <2>6, <2>7, <2>8 DEF Inv
<1> QED
  BY <1>8, <1>9 DEF UserStep, UserEnter, UserReads, UserLeave, fs

\* After a power loss the head is one of those it could be, and no safe part
\* is lost.
LEMMA PowerLossKeeps ==
  ASSUME Inv, PowerLoss
  PROVE  Inv'
<1>1. TypeOK /\ UserInv /\ HeadInv /\ HeadIsWhole /\ AckedInv
  BY DEF Inv
<1>2. \A q \in Importers : imp'[q] = IdleImporter
  BY DEF PowerLoss
<1>3. \A q \in Importers : ImpInv(q)' /\ FileInv(q)'
  BY <1>2, IdleKept
<1>4. UserInv'
  BY DEF PowerLoss, UserInv
<1>5. PICK S \in SUBSET parts.seen : parts.safe \subseteq S /\ parts' = [seen |-> S, safe |-> S]
  BY DEF PowerLoss, ShelfAfterPowerLoss
<1>6. PICK h \in head.disk : head' = Settled(h)
  BY DEF PowerLoss, AfterPowerLoss
<1>7. head'.seen = h /\ head'.disk = {h} /\ h \in {NoTx, head.seen} /\ h \in Heads
  BY <1>1, <1>6, CellFields, Types DEF HeadInv, CellOf
<1>8. HeadInv' /\ HeadIsWhole'
  BY <1>1, <1>5, <1>6, <1>7 DEF HeadInv, HeadIsWhole
<1>9. AckedInv'
  <2>1. \A e \in acked : e.head # NoTx
    BY <1>1, Types, CloneAssumption
  <2>2. acked' = acked
    BY DEF PowerLoss
  <2> QED
    BY <1>1, <1>5, <1>7, <2>1, <2>2 DEF AckedInv
<1>10. TypeOK'
  <2>1. marker' \in [Exchanges -> CellOf(Marks)]
    <3>1. marker' \in [Exchanges -> {Settled("none"), Settled("torn"), Settled("whole")}]
      BY DEF PowerLoss
    <3>2. {Settled("none"), Settled("torn"), Settled("whole")} \subseteq CellOf(Marks)
      BY CellTypes DEF Marks
    <3> QED
      BY <3>1, <3>2
  <2>2. temp' \in [Exchanges -> Marks]
    <3>1. PICK T : temp' = [e \in Exchanges |-> IF e \in T THEN temp[e] ELSE "none"]
      BY DEF PowerLoss
    <3> QED
      BY <1>1, <3>1, Types DEF Marks
  <2>3. vdirs' \in [seen : SUBSET {"v1", "v2"}, safe : SUBSET {"v1", "v2"}]
    <3>1. PICK V \in SUBSET vdirs.seen : vdirs' = [seen |-> V, safe |-> V]
      BY DEF PowerLoss, ShelfAfterPowerLoss
    <3> QED
      BY <1>1, <3>1, Types
  <2>4. /\ parts' \in [seen : SUBSET AllParts, safe : SUBSET AllParts]
        /\ parts'.safe \subseteq parts'.seen
    BY <1>1, <1>5, Types
  <2>5. head' \in CellOf(Heads)
    BY <1>6, <1>7, CellTypes
  <2>6. imp' \in [Importers -> ImpType]
    BY IdleType DEF PowerLoss
  <2>7. /\ user' \in [Users -> {"idle", "inside", "done"}] /\ owner' \in Importers \cup {NoOne}
        /\ UNCHANGED <<layout, acked, uses>>
    BY DEF PowerLoss
  <2>8. faults' \in 0 .. MaxFault
    BY <1>1, Types, CloneAssumption DEF PowerLoss
  <2> QED
    BY <1>1, <2>1, <2>2, <2>3, <2>4, <2>5, <2>6, <2>7, <2>8, Types, NextTypes
<1> QED
  BY <1>3, <1>4, <1>8, <1>9, <1>10 DEF Inv

\* An empty target satisfies the invariant.
LEMMA InitInv == Init => Inv
<1> SUFFICES ASSUME Init
             PROVE  Inv
  OBVIOUS
<1>1. TypeOK
  <2>1. Settled("none") \in CellOf(Marks) /\ Settled(NoTx) \in CellOf(Heads)
    BY CellTypes DEF Marks, Heads
  <2>2. marker \in [Exchanges -> CellOf(Marks)] /\ head \in CellOf(Heads)
    BY <2>1 DEF Init
  <2>3. imp \in [Importers -> ImpType]
    BY IdleType DEF Init
  <2>4. temp \in [Exchanges -> Marks]
    BY DEF Init, Marks
  <2>5. faults \in 0 .. MaxFault /\ uses \in 0 .. MaxUse
    BY CloneAssumption DEF Init
  <2> QED
    BY <2>2, <2>3, <2>4, <2>5, Types DEF Init, EmptyShelf
<1>2. UserInv /\ AckedInv
  BY DEF Init, UserInv, AckedInv
<1>3. HeadInv /\ HeadIsWhole
  <2>1. head.disk = {NoTx} /\ head.seen = NoTx
    BY CellFields DEF Init
  <2> QED
    BY <2>1, CloneAssumption DEF HeadInv, HeadIsWhole
<1>4. ASSUME NEW p \in Importers
      PROVE  ImpInv(p) /\ FileInv(p)
  <2>1. imp[p].pc = "idle" /\ imp[p].fd = "none" /\ imp[p].part = {} /\ imp[p].done = {}
    BY IdleType DEF Init
  <2> QED
    BY <2>1 DEF ImpInv, FileInv, Complete, Installing, Owning
<1> QED
  BY <1>1, <1>2, <1>3, <1>4 DEF Inv

\* Every step keeps the invariant.
LEMMA StepInv == Inv /\ [Next]_vars => Inv'
<1> SUFFICES ASSUME Inv, [Next]_vars
             PROVE  Inv'
  OBVIOUS
<1>1. ASSUME NEW p \in Importers, ImportStep(p)
      PROVE  Inv'
  BY <1>1, RefusalsKeep, CreateTempKeeps, WriteTempKeeps, RenameMarkerKeeps, TakeLockKeeps,
     OwnTargetKeeps, RefuseTargetKeeps, LinkPartKeeps, SyncPartKeeps, InstallHeadKeeps,
     SyncHeadKeeps, RemoveMarkerKeeps, FinishKeeps
  DEF ImportStep
<1>2. CASE UNCHANGED vars
  <2>1. TypeOK'
    BY <1>2 DEF Inv, TypeOK, vars
  <2>2. HeadInv' /\ HeadIsWhole' /\ AckedInv' /\ UserInv'
    BY <1>2, RootKept DEF Inv, UserInv, vars
  <2>3. ASSUME NEW q \in Importers
        PROVE  ImpInv(q)' /\ FileInv(q)'
    <3>1. Same(q) /\ Stays(q)
      BY <1>2 DEF Same, Stays, vars
    <3>2. imp[q].pc \in Owning => owner' = q
      BY <1>2 DEF Inv, ImpInv, vars
    <3> QED
      BY <1>2, <3>1, <3>2, ImpKept, FileKept DEF vars
  <2> QED
    BY <2>1, <2>2, <2>3 DEF Inv
<1> QED
  BY <1>1, <1>2, RefusalsKeep, BeginKeeps, UserKeeps, PowerLossKeeps DEF Next

\* The inductive invariant holds in every reachable state.
LEMMA Invariance == Spec => []Inv
  BY InitInv, StepInv, PTL DEF Spec

\* Marker, temporary files, parts, head and importers keep their types, and
\* nothing is durable that is not visible.
THEOREM TypeCorrect == Spec => []TypeOK
  BY Invariance, InvImplies, PTL

\* An accepted head that a power loss may leave has its whole ancestry on
\* disk, receipts and objects: initialize_trusted_clone_head comes after the
\* synced phases, and a retry syncs what it finds.
THEOREM HeadIsWholeInvariant == Spec => []HeadIsWhole
  BY Invariance, InvImplies, PTL

\* The stage marker is in place as long as an importer installs: the races
\* for the marker end before the lock, and only the owner takes it down.
THEOREM GuardHoldsInvariant == Spec => []GuardHolds
  BY Invariance, InvImplies, PTL

\* An acknowledged clone exports the exchange it was made from, nothing
\* missing and nothing besides (export_repository_exchange after
\* import_repository_exchange).
THEOREM CloneReexportsInvariant == Spec => []CloneReexports
  BY Invariance, InvImplies, PTL

\* An importer adds to a root only what belongs with all that is there: the
\* owned classification still holds at every write.
THEOREM ImportNeverGraftsStep == Spec => ImportNeverGrafts
<1>1. Inv /\ [Next]_vars =>
        [\A p \in Importers :
           (At(p, "install") /\ imp'[p].pc \in {"syncpart", "synchead"}) =>
             BelongsTo(imp[p].ex)]_vars
  BY DEF Inv, ImpInv, At, Installing, Owning
<1> QED
  BY <1>1, Invariance, PTL DEF Spec, ImportNeverGrafts
=============================================================================
