------------------------- MODULE ObjectStore_proofs -------------------------
(***************************************************************************)
(* Proofs about ObjectStore, for any number of processes and objects and   *)
(* any depth of the fan-out tree.                                          *)
(***************************************************************************)
EXTENDS ObjectStore, FiniteSetTheorems, TLAPS
-----------------------------------------------------------------------------
(* The inductive invariant.                                                *)

\* Labels of a put: at the directories; where it has seen the final name;
\* where it has synced that name.
Making == {"mkdir", "syncParent"}
Named == {"existing", "syncExistingName", "present", "syncLink", "unlink", "syncUnlink"}
Certain == {"present", "unlink", "syncUnlink"}

\* The directory components above the one that a put is at are on disk; past
\* the last one all of them are.
Walked(p) ==
  /\ level[p] \in 1 .. Depth + 1
  /\ \A d \in path[target[p]].disk : d + 1 >= level[p]
  /\ pc[p] \in Making => level[p] <= Depth
  /\ pc[p] \notin Making => level[p] = Depth + 1
  /\ pc[p] = "syncParent" => path[target[p]].seen >= level[p]

\* The stage that a put links is whole, and synced before.
Staged(p) ==
  /\ pc[p] = "syncStage" => stage[p].seen = "whole"
  /\ pc[p] = "link" => stage[p].seen = "whole" /\ "torn" \notin stage[p].disk

\* What a put has found or made of the final file.
Promoted(p) ==
  /\ pc[p] \in Named => final[target[p]].seen = "whole"
  /\ pc[p] \in Certain => final[target[p]].disk = {"whole"}

PutInv(p) == (pc[p] # "idle" => Walked(p)) /\ Staged(p) /\ Promoted(p)

\* A final file is never torn, and one that nobody sees cannot come back.
FinalFiles ==
  \A o \in Objects : /\ "torn" \notin final[o].disk
                     /\ final[o].seen = "none" => final[o].disk = {"none"}

\* Recovery owns the store, and leaves it settled.
RecoveryInv ==
  /\ recovery # "off" => \A p \in Procs : pc[p] = "idle"
  /\ recovery = "done" =>
       \A o \in Objects : remnant[o].disk = {FALSE} /\ final[o].disk = {final[o].seen}

Inv ==
  /\ TypeOK
  /\ \A p \in Procs : PutInv(p)
  /\ FinalFiles
  /\ RecoveryInv
  /\ AckedIsDurable

\* An empty store.
LEMMA InitInv == Init => Inv
<1> SUFFICES ASSUME Init PROVE Inv
  OBVIOUS
<1>1. Settled(0) \in CellOf(0 .. Depth)
  BY StoreAssumption DEF Settled, CellOf
<1>2. Settled("none") \in CellOf(Contents) /\ Settled(FALSE) \in CellOf(BOOLEAN)
  BY DEF Settled, CellOf, Contents
<1>3. TypeOK
  <2>1. 0 \in 0 .. Depth + 1
    BY StoreAssumption
  <2>2. /\ path \in [Objects -> CellOf(0 .. Depth)]
        /\ final \in [Objects -> CellOf(Contents)]
        /\ remnant \in [Objects -> CellOf(BOOLEAN)]
        /\ stage \in [Procs -> CellOf(Contents)]
    BY <1>1, <1>2 DEF Init
  <2> QED
    BY <2>1, <2>2 DEF Init, TypeOK, Labels
<1> QED
  BY <1>3 DEF Init, Inv, PutInv, Staged, Promoted, Named, Certain, FinalFiles,
    RecoveryInv, AckedIsDurable, Settled
-----------------------------------------------------------------------------
(* What a step does to the files, whoever takes it.                        *)

\* A put, and no fault, took the step.
Working(p) == PutStep(p) \/ Abandon(p) \/ \E o \in Objects : BeginPut(p, o)

\* A step of a put: the locals of the others stay.
LEMMA OthersLocal ==
  ASSUME TypeOK, NEW p \in Procs, Working(p), NEW q \in Procs \ {p}
  PROVE  pc'[q] = pc[q] /\ target'[q] = target[q] /\ level'[q] = level[q] /\ stage'[q] = stage[q]
  BY DEF TypeOK, Working, PutStep, MakeDir, SyncParent, LookPresent, LookAbsent, WriteStage,
    SyncStage, LinkFinal, LinkExists, SyncExisting, SyncExistingName, ReturnPresent, SyncLink,
    UnlinkStage, ReturnPromoted, Abandon, BeginPut, Leave, Goto

\* Directories: components are only added, and syncs only remove shorter
\* paths from what a power loss may leave.
PathKept ==
  /\ path' \in [Objects -> CellOf(0 .. Depth)]
  /\ \A o \in Objects :
       /\ path'[o].seen >= path[o].seen
       /\ \A d \in path'[o].disk : \E e \in path[o].disk : d >= e

\* A put creates and syncs directories, and removes none.
LEMMA PathStep ==
  ASSUME Inv, NEW p \in Procs, Working(p)
  PROVE  PathKept
<1>1. ASSUME path' = path PROVE PathKept
  BY <1>1 DEF PathKept, Inv, TypeOK, CellOf
<1>2. CASE MakeDir(p)
  <2> DEFINE o == target[p]
  <2>1. /\ o \in Objects /\ level[p] \in 1 .. Depth
        /\ path[o] \in CellOf(0 .. Depth)
    BY <1>2 DEF MakeDir, Inv, TypeOK, PutInv, Walked, Making
  <2>2. path' = [path EXCEPT ![o] = IF @.seen < level[p] THEN Replace(@, level[p]) ELSE @]
    BY <1>2 DEF MakeDir
  <2>3. Replace(path[o], level[p]) \in CellOf(0 .. Depth)
    BY <2>1 DEF Replace, CellOf
  <2> QED
    BY <2>1, <2>2, <2>3 DEF PathKept, Inv, TypeOK, CellOf, Replace
<1>3. CASE SyncParent(p)
  <2> DEFINE o == target[p]
  <2>1. /\ o \in Objects /\ level[p] \in 1 .. Depth
        /\ path[o] \in CellOf(0 .. Depth) /\ path[o].seen >= level[p]
    BY <1>3 DEF SyncParent, Inv, TypeOK, PutInv, Walked, Making
  <2>2. path' = [path EXCEPT ![o].disk = {d \in @ : d >= level[p]}]
    BY <1>3 DEF SyncParent
  <2>3. path'[o] \in CellOf(0 .. Depth)
    BY <2>1, <2>2 DEF CellOf, Inv, TypeOK
  <2> QED
    BY <2>1, <2>2, <2>3 DEF PathKept, Inv, TypeOK, CellOf
<1> QED
  BY <1>1, <1>2, <1>3 DEF Working, PutStep, LookPresent, LookAbsent, WriteStage,
    SyncStage, LinkFinal, LinkExists, SyncExisting, SyncExistingName, ReturnPresent, SyncLink,
    UnlinkStage, ReturnPromoted, Abandon, BeginPut, disk

\* Final files: a name appears with a whole, synced record, and then stays.
FinalKept ==
  /\ final' \in [Objects -> CellOf(Contents)]
  /\ FinalFiles'
  /\ \A o \in Objects :
       /\ final[o].seen = "whole" => final'[o].seen = "whole"
       /\ final'[o].disk \subseteq final[o].disk \cup {"whole"}
       /\ final[o].seen = "whole" => final'[o].disk \subseteq final[o].disk

\* Syncing the name of a final file.
LEMMA SyncFinalNameSettles ==
  ASSUME Inv, NEW o \in Objects
  PROVE  /\ SyncFinalName(final[o]) \in CellOf(Contents)
         /\ SyncFinalName(final[o]).seen = final[o].seen
         /\ SyncFinalName(final[o]).disk = {final[o].seen}
         /\ final[o].seen \in {"none", "whole"}
  BY DEF Inv, TypeOK, FinalFiles, SyncFinalName, CellOf, Contents

\* A put links whole data only, and unlinks no final name.
LEMMA FinalStep ==
  ASSUME Inv, NEW p \in Procs, Working(p)
  PROVE  FinalKept
<1>0. /\ final \in [Objects -> CellOf(Contents)] /\ FinalFiles
      /\ \A o \in Objects : final[o] \in CellOf(Contents)
  BY DEF Inv, TypeOK
<1>1. ASSUME final' = final PROVE FinalKept
  BY <1>0, <1>1 DEF FinalKept, FinalFiles, CellOf
<1>2. CASE LinkFinal(p)
  <2> DEFINE o == target[p]
  <2>1. /\ o \in Objects /\ stage[p] \in CellOf(Contents)
        /\ stage[p].seen = "whole" /\ "torn" \notin stage[p].disk /\ final[o].seen = "none"
    BY <1>2 DEF LinkFinal, Inv, TypeOK, PutInv, Staged
  <2> DEFINE new == [seen |-> stage[p].seen, disk |-> final[o].disk \cup (stage[p].disk \ {"none"})]
  <2>2. final' = [final EXCEPT ![o] = new]
    BY <1>2 DEF LinkFinal
  <2>3. final[o].disk = {"none"}
    BY <1>0, <2>1 DEF FinalFiles
  <2>4. new.seen = "whole" /\ new.disk = {"none", "whole"} /\ new \in CellOf(Contents)
    BY <2>1, <2>3 DEF CellOf, Contents
  <2> QED
    BY <1>0, <2>1, <2>2, <2>3, <2>4 DEF FinalKept, FinalFiles
<1>3. CASE SyncExisting(p)
  <2> DEFINE o == target[p]
  <2>1. o \in Objects /\ final[o].seen = "whole" /\ final' = [final EXCEPT ![o] = SyncData(@)]
    BY <1>3 DEF SyncExisting, Inv, TypeOK
  <2>2. /\ SyncData(final[o]).seen = "whole" /\ SyncData(final[o]).disk \subseteq final[o].disk
        /\ SyncData(final[o]) \in CellOf(Contents)
    BY <1>0, <2>1 DEF SyncData, CellOf, Contents
  <2> QED
    BY <1>0, <2>1, <2>2 DEF FinalKept, FinalFiles
<1>4. ASSUME SyncLeaf(target[p]), target[p] \in Objects PROVE FinalKept
  <2> DEFINE o == target[p]
  <2>1. final' = [final EXCEPT ![o] = SyncFinalName(@)]
    BY <1>4 DEF SyncLeaf
  <2>2. final[o].seen \in final[o].disk
    BY <1>0, <1>4 DEF CellOf
  <2> QED
    BY <1>0, <1>4, <2>1, <2>2, SyncFinalNameSettles DEF FinalKept, FinalFiles
<1>5. pc[p] # "idle" => target[p] \in Objects
  BY DEF Inv, TypeOK
<1> QED
  BY <1>1, <1>2, <1>3, <1>4, <1>5 DEF Working, PutStep, MakeDir, SyncParent, LookPresent,
    LookAbsent, WriteStage, SyncStage, LinkExists, SyncExistingName, ReturnPresent, SyncLink,
    UnlinkStage, ReturnPromoted, Abandon, BeginPut, disk
-----------------------------------------------------------------------------
(* A step of a put keeps the invariant.                                    *)

\* The types.
LEMMA PutType ==
  ASSUME Inv, NEW p \in Procs, Working(p)
  PROVE  TypeOK'
<1>1. /\ path' \in [Objects -> CellOf(0 .. Depth)]
      /\ final' \in [Objects -> CellOf(Contents)]
  BY PathStep, FinalStep DEF PathKept, FinalKept
<1>2. remnant' \in [Objects -> CellOf(BOOLEAN)]
  <2>1. ASSUME SyncLeaf(target[p]) PROVE remnant' \in [Objects -> CellOf(BOOLEAN)]
    BY <2>1 DEF SyncLeaf, SyncCell, Settled, Inv, TypeOK, CellOf
  <2>2. ASSUME Abandon(p) PROVE remnant' \in [Objects -> CellOf(BOOLEAN)]
    <3>1. [seen |-> remnant[target[p]].seen \/ stage[p].seen # "none", disk |-> {TRUE, FALSE}]
            \in CellOf(BOOLEAN)
      BY DEF CellOf
    <3> QED
      BY <2>2, <3>1 DEF Abandon, Inv, TypeOK
  <2> QED
    BY <2>1, <2>2 DEF Inv, TypeOK, Working, PutStep, MakeDir, SyncParent, LookPresent,
      LookAbsent, WriteStage, SyncStage, LinkFinal, LinkExists, SyncExisting, SyncExistingName,
      ReturnPresent, SyncLink, UnlinkStage, ReturnPromoted, BeginPut, disk
<1>3. stage' \in [Procs -> CellOf(Contents)]
  <2>1. /\ Settled("none") \in CellOf(Contents)
        /\ \A v \in Contents : Replace(stage[p], v) \in CellOf(Contents)
        /\ SyncData(stage[p]) \in CellOf(Contents)
    BY DEF Inv, TypeOK, Settled, Replace, SyncData, CellOf, Contents
  <2> QED
    BY <2>1 DEF Inv, TypeOK, Contents, Working, PutStep, MakeDir, SyncParent, LookPresent,
      LookAbsent, WriteStage, SyncStage, LinkFinal, LinkExists, SyncExisting, SyncExistingName,
      ReturnPresent, SyncLink, UnlinkStage, ReturnPromoted, BeginPut, Abandon, Leave
<1>4. pc' \in [Procs -> Labels]
  <2>1. \A l \in Labels : Goto(p, l) => pc' \in [Procs -> Labels]
    BY DEF Inv, TypeOK, Goto
  <2> QED
    BY <2>1 DEF Labels, Working, PutStep, MakeDir, SyncParent, LookPresent,
      LookAbsent, WriteStage, SyncStage, LinkFinal, LinkExists, SyncExisting, SyncExistingName,
      ReturnPresent, SyncLink, UnlinkStage, ReturnPromoted, BeginPut, Abandon, Leave
<1>t. target' \in [Procs -> Objects \cup {NoObject}]
  BY DEF Inv, TypeOK, Working, PutStep, MakeDir, SyncParent, LookPresent,
    LookAbsent, WriteStage, SyncStage, LinkFinal, LinkExists, SyncExisting, SyncExistingName,
    ReturnPresent, SyncLink, UnlinkStage, ReturnPromoted, BeginPut, Abandon, Leave
<1>5. level' \in [Procs -> 0 .. Depth + 1]
  <2>1. ASSUME pc[p] = "syncParent" PROVE level[p] + 1 \in 0 .. Depth + 1
    <3>1. Walked(p)
      BY <2>1 DEF Inv, PutInv
    <3> QED
      BY <2>1, <3>1, StoreAssumption DEF Walked, Making
  <2>2. 0 \in 0 .. Depth + 1 /\ 1 \in 0 .. Depth + 1
    BY StoreAssumption
  <2> QED
    BY <2>1, <2>2 DEF Inv, TypeOK, Working, PutStep, MakeDir, SyncParent, LookPresent,
      LookAbsent, WriteStage, SyncStage, LinkFinal, LinkExists, SyncExisting, SyncExistingName,
      ReturnPresent, SyncLink, UnlinkStage, ReturnPromoted, BeginPut, Abandon, Leave
<1>6. acked' \subseteq Objects /\ recovery' \in {"off", "remove", "done"}
  BY DEF Inv, TypeOK, Working, PutStep, MakeDir, SyncParent, LookPresent,
    LookAbsent, WriteStage, SyncStage, LinkFinal, LinkExists, SyncExisting, SyncExistingName,
    ReturnPresent, SyncLink, UnlinkStage, ReturnPromoted, BeginPut, Abandon, Leave
<1>7. \A q \in Procs : pc'[q] # "idle" => target'[q] \in Objects
  <2>1. pc'[p] # "idle" => target'[p] \in Objects
    BY DEF Inv, TypeOK, Goto, Working, PutStep, MakeDir, SyncParent, LookPresent,
      LookAbsent, WriteStage, SyncStage, LinkFinal, LinkExists, SyncExisting, SyncExistingName,
      ReturnPresent, SyncLink, UnlinkStage, ReturnPromoted, BeginPut, Abandon, Leave
  <2> QED
    BY <2>1, OthersLocal DEF Inv, TypeOK
<1> QED
  BY <1>1, <1>2, <1>3, <1>4, <1>t, <1>5, <1>6, <1>7 DEF TypeOK

\* The other puts: what they rely on is kept.
LEMMA PutOthers ==
  ASSUME Inv, NEW p \in Procs, Working(p), NEW q \in Procs \ {p}
  PROVE  PutInv(q)'
<1>1. pc'[q] = pc[q] /\ target'[q] = target[q] /\ level'[q] = level[q] /\ stage'[q] = stage[q]
  BY OthersLocal DEF Inv
<1>2. CASE pc[q] = "idle"
  BY <1>1, <1>2 DEF PutInv, Staged, Promoted, Named, Certain
<1>3. CASE pc[q] # "idle"
  <2>1. target[q] \in Objects /\ path[target[q]] \in CellOf(0 .. Depth)
    BY <1>3 DEF Inv, TypeOK
  <2>2. Walked(q)'
    <3>1. Walked(q) /\ level[q] \in Nat
      BY <1>3, StoreAssumption DEF Inv, PutInv, Walked
    <3>2. /\ path'[target[q]] \in CellOf(0 .. Depth)
          /\ path'[target[q]].seen >= path[target[q]].seen
          /\ \A d \in path'[target[q]].disk : \E e \in path[target[q]].disk : d >= e
      BY <2>1, PathStep DEF PathKept
    <3>3. \A d \in path'[target[q]].disk : d + 1 >= level[q]
      BY <2>1, <3>1, <3>2, StoreAssumption DEF Walked, CellOf
    <3> QED
      BY <1>1, <2>1, <3>1, <3>2, <3>3, StoreAssumption DEF Walked, CellOf
  <2>3. Promoted(q)'
    <3>1. final'[target[q]] \in CellOf(Contents)
      BY <2>1, FinalStep DEF FinalKept
    <3> QED
      BY <1>1, <2>1, <3>1, FinalStep DEF Inv, PutInv, Promoted, FinalKept, Named, Certain, CellOf
  <2> QED
    BY <1>1, <2>2, <2>3 DEF Inv, PutInv, Staged
<1> QED
  BY <1>2, <1>3

\* The put itself.  Its directories ...
LEMMA OwnWalked ==
  ASSUME Inv, NEW p \in Procs, Working(p), pc'[p] # "idle"
  PROVE  Walked(p)'
<1>1. CASE \E o \in Objects : BeginPut(p, o)
  <2>1. PICK o \in Objects : BeginPut(p, o)
    BY <1>1
  <2>2. pc'[p] = "mkdir" /\ target'[p] = o /\ level'[p] = 1 /\ path' = path
    BY <2>1 DEF BeginPut, Goto, disk, Inv, TypeOK
  <2>3. \A d \in path[o].disk : d \in Nat
    BY StoreAssumption DEF Inv, TypeOK, CellOf
  <2> QED
    BY <2>2, <2>3, StoreAssumption DEF Walked, Making
<1>2. CASE ~\E o \in Objects : BeginPut(p, o)
  <2>1. pc[p] # "idle" /\ ~Abandon(p)
    BY <1>2 DEF Working, PutStep, MakeDir, SyncParent, LookPresent, LookAbsent, WriteStage,
      SyncStage, LinkFinal, LinkExists, SyncExisting, SyncExistingName, ReturnPresent, SyncLink,
      UnlinkStage, ReturnPromoted, Abandon, Leave, Goto, Inv, TypeOK
  <2>2. /\ Walked(p) /\ target[p] \in Objects /\ level[p] \in Nat
        /\ path[target[p]] \in CellOf(0 .. Depth)
    BY <2>1, StoreAssumption DEF Inv, TypeOK, PutInv, Walked
  <2>3. CASE MakeDir(p)
    <3>1. /\ pc[p] = "mkdir" /\ pc'[p] = "syncParent" /\ target' = target /\ level' = level
          /\ path'[target[p]] = IF path[target[p]].seen < level[p]
                                THEN Replace(path[target[p]], level[p]) ELSE path[target[p]]
      BY <2>2, <2>3 DEF MakeDir, Goto, Inv, TypeOK
    <3> QED
      BY <2>2, <3>1, StoreAssumption DEF Walked, Making, Replace, CellOf
  <2>4. CASE SyncParent(p)
    <3>1. /\ pc[p] = "syncParent" /\ target' = target /\ level'[p] = level[p] + 1
          /\ pc'[p] = IF level[p] < Depth THEN "mkdir" ELSE "look"
          /\ path'[target[p]].disk = {d \in path[target[p]].disk : d >= level[p]}
      BY <2>2, <2>4 DEF SyncParent, Goto, Inv, TypeOK
    <3>2. \A d \in path'[target[p]].disk : d \in Nat /\ d + 1 >= level[p] + 1
      BY <2>2, <3>1, StoreAssumption DEF CellOf
    <3> QED
      BY <2>2, <3>1, <3>2, StoreAssumption DEF Walked, Making
  <2>5. ASSUME ~MakeDir(p), ~SyncParent(p) PROVE Walked(p)'
    <3>1. /\ pc[p] \notin Making /\ pc'[p] \notin Making
          /\ path' = path /\ target'[p] = target[p] /\ level'[p] = level[p]
      BY <1>2, <2>1, <2>5 DEF Working, PutStep, LookPresent, LookAbsent, WriteStage,
        SyncStage, LinkFinal, LinkExists, SyncExisting, SyncExistingName, ReturnPresent, SyncLink,
        UnlinkStage, ReturnPromoted, Leave, Goto, Inv, TypeOK, Making, disk
    <3> QED
      BY <2>2, <3>1 DEF Walked, Making
  <2> QED
    BY <2>3, <2>4, <2>5
<1> QED
  BY <1>1, <1>2

\* ... its stage ...
LEMMA OwnStaged ==
  ASSUME Inv, NEW p \in Procs, Working(p)
  PROVE  Staged(p)'
<1>0. stage[p] \in CellOf(Contents) /\ stage \in [Procs -> CellOf(Contents)]
  BY DEF Inv, TypeOK
<1>1. CASE WriteStage(p)
  <2>1. pc'[p] = "syncStage" /\ stage'[p] = Replace(stage[p], "whole")
    BY <1>0, <1>1 DEF WriteStage, Goto, Inv, TypeOK
  <2> QED
    BY <2>1 DEF Staged, Replace
<1>2. CASE SyncStage(p)
  <2>1. /\ pc'[p] = "link" /\ stage'[p] = SyncData(stage[p]) /\ stage[p].seen = "whole"
    BY <1>0, <1>2 DEF SyncStage, Goto, Inv, TypeOK, PutInv, Staged
  <2>2. SyncData(stage[p]).seen = "whole" /\ "torn" \notin SyncData(stage[p]).disk
    BY <1>0, <2>1 DEF SyncData, CellOf
  <2> QED
    BY <2>1, <2>2 DEF Staged
<1>3. ASSUME ~WriteStage(p), ~SyncStage(p) PROVE Staged(p)'
  <2>1. pc'[p] \notin {"syncStage", "link"}
    BY <1>3 DEF Working, PutStep, MakeDir, SyncParent, LookPresent, LookAbsent,
      LinkFinal, LinkExists, SyncExisting, SyncExistingName, ReturnPresent, SyncLink,
      UnlinkStage, ReturnPromoted, Abandon, BeginPut, Leave, Goto, Inv, TypeOK
  <2> QED
    BY <2>1 DEF Staged
<1> QED
  BY <1>1, <1>2, <1>3

\* ... and its final name.
LEMMA OwnPromoted ==
  ASSUME Inv, NEW p \in Procs, Working(p)
  PROVE  Promoted(p)'
<1>0. /\ pc[p] # "idle" => target[p] \in Objects
      /\ \A o \in Objects : final[o] \in CellOf(Contents)
      /\ \A o \in Objects : final'[o] \in CellOf(Contents)
      /\ \A o \in Objects : final[o].seen \in {"none", "whole"}
  BY FinalStep, SyncFinalNameSettles DEF Inv, TypeOK, FinalKept
<1>1. CASE LookPresent(p) \/ LinkExists(p)
  BY <1>0, <1>1 DEF LookPresent, LinkExists, Goto, disk, Inv, TypeOK, Promoted, Named, Certain
<1>2. CASE LinkFinal(p)
  <2>1. final'[target[p]].seen = "whole"
    BY <1>0, <1>2 DEF LinkFinal, Inv, TypeOK, PutInv, Staged
  <2> QED
    BY <1>2, <2>1 DEF LinkFinal, Goto, Inv, TypeOK, Promoted, Named, Certain
<1>3. CASE SyncExistingName(p) \/ SyncLink(p)
  <2>1. /\ pc[p] \in Named /\ target[p] \in Objects /\ target' = target
        /\ final'[target[p]] = SyncFinalName(final[target[p]])
    BY <1>0, <1>3 DEF SyncExistingName, SyncLink, SyncLeaf, Named, Inv, TypeOK
  <2>2. final[target[p]].seen = "whole"
    BY <2>1 DEF Inv, PutInv, Promoted
  <2> QED
    BY <2>1, <2>2, SyncFinalNameSettles DEF Promoted
<1>4. CASE SyncExisting(p) \/ UnlinkStage(p)
  <2>1. /\ pc[p] \in Named /\ target[p] \in Objects /\ target' = target
        /\ pc'[p] \in Certain => pc[p] \in Certain
    BY <1>0, <1>4 DEF SyncExisting, UnlinkStage, Goto, Named, Certain, Inv, TypeOK
  <2>2. /\ final[target[p]].seen = "whole"
        /\ pc[p] \in Certain => final[target[p]].disk = {"whole"}
    BY <2>1 DEF Inv, PutInv, Promoted
  <2> QED
    BY <1>0, <2>1, <2>2, FinalStep DEF Promoted, FinalKept, CellOf
<1>5. ASSUME ~LookPresent(p), ~LinkExists(p), ~LinkFinal(p), ~SyncExistingName(p), ~SyncLink(p),
             ~SyncExisting(p), ~UnlinkStage(p)
      PROVE  Promoted(p)'
  <2>1. pc'[p] \notin Named \cup Certain
    BY <1>5 DEF Working, PutStep, MakeDir, SyncParent, LookAbsent, WriteStage, SyncStage,
      ReturnPresent, ReturnPromoted, Abandon, BeginPut, Leave, Goto, Inv, TypeOK, Named, Certain
  <2> QED
    BY <2>1 DEF Promoted
<1> QED
  BY <1>1, <1>2, <1>3, <1>4, <1>5

\* A durable object is whole, and a step of a put keeps it durable.
LEMMA DurableKept ==
  ASSUME Inv, NEW p \in Procs, Working(p), NEW o \in Objects, Durable(o)
  PROVE  Durable(o)' /\ final[o].seen = "whole"
<1>1. final[o] \in CellOf(Contents) /\ path[o].disk = {Depth} /\ final[o].disk = {"whole"}
  BY DEF Inv, TypeOK, Durable
<1>2. final[o].seen = "whole"
  BY <1>1 DEF CellOf
<1>3. final'[o].disk = {"whole"}
  <2>1. final'[o] \in CellOf(Contents) /\ final'[o].disk \subseteq {"whole"}
    BY <1>1, <1>2, FinalStep DEF FinalKept
  <2> QED
    BY <2>1 DEF CellOf
<1>4. path'[o].disk = {Depth}
  <2>1. path'[o] \in CellOf(0 .. Depth) /\ \A d \in path'[o].disk : d >= Depth
    BY <1>1, PathStep DEF PathKept
  <2>2. \A d \in path'[o].disk : d = Depth
    BY <2>1, StoreAssumption DEF CellOf
  <2> QED
    BY <2>1, <2>2 DEF CellOf
<1> QED
  BY <1>2, <1>3, <1>4 DEF Durable

\* A put that is certain of the name has a durable object.
LEMMA CertainIsDurable ==
  ASSUME Inv, NEW p \in Procs, pc[p] \in Certain
  PROVE  target[p] \in Objects /\ Durable(target[p])
<1>1. /\ Walked(p) /\ target[p] \in Objects /\ pc[p] \notin Making
      /\ final[target[p]].disk = {"whole"} /\ path[target[p]] \in CellOf(0 .. Depth)
  BY DEF Inv, PutInv, Promoted, TypeOK, Certain, Making
<1>2. \A d \in path[target[p]].disk : d = Depth
  BY <1>1, StoreAssumption DEF Walked, CellOf
<1> QED
  BY <1>1, <1>2 DEF Durable, CellOf

\* Only a put that returns adds to the objects that puts returned for.
LEMMA AckedStep ==
  ASSUME Inv, NEW p \in Procs, Working(p)
  PROVE  acked' = acked \/ (pc[p] \in Certain /\ acked' = acked \cup {target[p]})
  BY DEF Working, PutStep, MakeDir, SyncParent, LookPresent, LookAbsent, WriteStage,
    SyncStage, LinkFinal, LinkExists, SyncExisting, SyncExistingName, ReturnPresent, SyncLink,
    UnlinkStage, ReturnPromoted, Abandon, BeginPut, Certain

\* Every step of a put keeps the inductive invariant.
LEMMA PutKeepsInv ==
  ASSUME Inv, NEW p \in Procs, Working(p)
  PROVE  Inv'
<1>1. TypeOK'
  BY PutType
<1>2. \A q \in Procs : PutInv(q)'
  BY PutOthers, OwnWalked, OwnStaged, OwnPromoted DEF PutInv
<1>3. FinalFiles'
  BY FinalStep DEF FinalKept
<1>4. RecoveryInv'
  <2>1. recovery = "off" /\ recovery' = recovery
    BY DEF Inv, RecoveryInv, Working, PutStep, MakeDir, SyncParent, LookPresent, LookAbsent,
      WriteStage, SyncStage, LinkFinal, LinkExists, SyncExisting, SyncExistingName,
      ReturnPresent, SyncLink, UnlinkStage, ReturnPromoted, Abandon, BeginPut
  <2> QED
    BY <2>1 DEF RecoveryInv
<1>5. AckedIsDurable'
  <2>1. \A o \in acked' : o \in Objects /\ Durable(o)
    BY AckedStep, CertainIsDurable DEF Inv, TypeOK, AckedIsDurable
  <2> QED
    BY <2>1, DurableKept DEF AckedIsDurable
<1> QED
  BY <1>1, <1>2, <1>3, <1>4, <1>5 DEF Inv
-----------------------------------------------------------------------------
(* Recovery and power loss keep the invariant.                             *)

\* The steps of recover_staged, its begin and its failures.
Recovering == BeginRecovery \/ RecoveryStep \/ AbandonRecovery

\* Syncing all leaf directories changes no final file that is seen.
LEMMA RecoveryFinal ==
  ASSUME Inv, Recovering
  PROVE  /\ path' = path /\ acked' = acked
         /\ final' \in [Objects -> CellOf(Contents)]
         /\ \A o \in Objects : /\ final'[o].seen = final[o].seen
                               /\ final'[o].disk \in {final[o].disk, {final[o].seen}}
<1>1. CASE SyncLeaves
  <2>1. path' = path /\ acked' = acked /\ final' = [o \in Objects |-> SyncFinalName(final[o])]
    BY <1>1 DEF SyncLeaves
  <2> QED
    BY <2>1, SyncFinalNameSettles
<1>2. CASE ~SyncLeaves
  BY <1>2 DEF Recovering, BeginRecovery, RecoveryStep, RemoveRemnant, EndRecovery,
    AbandonRecovery, disk, Inv, TypeOK
<1> QED
  BY <1>1, <1>2

\* So does recovery, which runs alone,
LEMMA RecoveryKeepsInv ==
  ASSUME Inv, Recovering
  PROVE  Inv'
<1>0. /\ pc' = pc /\ target' = target /\ level' = level /\ stage' = stage
      /\ \A p \in Procs : pc[p] = "idle"
  BY DEF Inv, RecoveryInv, Recovering, BeginRecovery, RecoveryStep, RemoveRemnant, SyncLeaves,
    EndRecovery, AbandonRecovery, local
<1>1. \A o \in Objects : final[o] \in CellOf(Contents) /\ remnant[o] \in CellOf(BOOLEAN)
  BY DEF Inv, TypeOK
<1>2. remnant' \in [Objects -> CellOf(BOOLEAN)]
  <2>1. \A o \in Objects : /\ Replace(remnant[o], FALSE) \in CellOf(BOOLEAN)
                           /\ SyncCell(remnant[o]) \in CellOf(BOOLEAN)
    BY <1>1 DEF Replace, SyncCell, Settled, CellOf
  <2> QED
    BY <2>1 DEF Recovering, BeginRecovery, RecoveryStep, RemoveRemnant, SyncLeaves,
      EndRecovery, AbandonRecovery, disk, Inv, TypeOK
<1>3. TypeOK'
  <2>1. recovery' \in {"off", "remove", "done"}
    BY DEF Recovering, BeginRecovery, RecoveryStep, RemoveRemnant, SyncLeaves,
      EndRecovery, AbandonRecovery, Inv, TypeOK
  <2> QED
    BY <1>0, <1>2, <2>1, RecoveryFinal DEF Inv, TypeOK
<1>4. \A p \in Procs : PutInv(p)'
  BY <1>0 DEF PutInv, Staged, Promoted, Named, Certain
<1>5. FinalFiles'
  <2>1. \A o \in Objects : final[o].seen # "torn"
    BY <1>1 DEF Inv, FinalFiles, CellOf
  <2> QED
    BY <2>1, RecoveryFinal DEF Inv, FinalFiles
<1>6. RecoveryInv'
  <2>1. CASE SyncLeaves
    <3>1. /\ final' = [o \in Objects |-> SyncFinalName(final[o])]
          /\ remnant' = [o \in Objects |-> SyncCell(remnant[o])]
          /\ \A o \in Objects : ~remnant[o].seen
      BY <2>1 DEF SyncLeaves
    <3>2. \A o \in Objects : remnant'[o].disk = {FALSE}
      <4> TAKE o \in Objects
      <4>1. remnant[o].seen = FALSE
        BY <1>1, <3>1 DEF CellOf
      <4> QED
        BY <3>1, <4>1 DEF SyncCell, Settled
    <3>3. \A o \in Objects : final'[o].disk = {final'[o].seen}
      BY <3>1, SyncFinalNameSettles
    <3> QED
      BY <1>0, <3>2, <3>3 DEF RecoveryInv
  <2>2. CASE ~SyncLeaves
    <3>1. recovery' # "done"
      BY <2>2 DEF Recovering, BeginRecovery, RecoveryStep, RemoveRemnant, EndRecovery,
        AbandonRecovery
    <3> QED
      BY <1>0, <3>1 DEF RecoveryInv
  <2> QED
    BY <2>1, <2>2
<1>7. AckedIsDurable'
  <2>1. \A o \in acked : o \in Objects /\ path[o].disk = {Depth} /\ final[o].disk = {"whole"}
    BY DEF Inv, TypeOK, AckedIsDurable, Durable
  <2>2. \A o \in acked : final[o].seen = "whole"
    BY <1>1, <2>1 DEF CellOf
  <2> QED
    BY <2>1, <2>2, RecoveryFinal DEF AckedIsDurable, Durable
<1> QED
  BY <1>3, <1>4, <1>5, <1>6, <1>7 DEF Inv

\* What a power loss leaves of one leaf directory.
LEMMA LeafLeft ==
  ASSUME Inv, PowerLoss, NEW o \in Objects
  PROVE  \E d \in path[o].disk, f \in final[o].disk, r \in BOOLEAN :
           /\ path'[o] = Settled(d)
           /\ final'[o] = Settled(IF d = Depth THEN f ELSE "none")
           /\ remnant'[o] = Settled(d = Depth /\ r)
<1>1. PICK after : /\ after[o] \in LeafAfterPowerLoss(o)
                   /\ path' = [x \in Objects |-> after[x].path]
                   /\ final' = [x \in Objects |-> after[x].final]
                   /\ remnant' = [x \in Objects |-> after[x].remnant]
  BY DEF PowerLoss
<1>2. remnant[o].disk \subseteq BOOLEAN
  BY DEF Inv, TypeOK, CellOf
<1>3. \E d \in path[o].disk, f \in final[o].disk, r \in BOOLEAN :
        after[o] = [path |-> Settled(d), final |-> Settled(IF d = Depth THEN f ELSE "none"),
                    remnant |-> Settled(d = Depth /\ r)]
  BY <1>1, <1>2 DEF LeafAfterPowerLoss
<1> QED
  BY <1>1, <1>3

\* So a final file is gone, or it is whole behind a whole path and was seen
\* before; a durable one is not gone.
LEMMA FileLeft ==
  ASSUME Inv, PowerLoss, NEW o \in Objects
  PROVE  /\ path'[o] \in CellOf(0 .. Depth) /\ remnant'[o] \in CellOf(BOOLEAN)
         /\ \/ final'[o] = Settled("none")
            \/ /\ final'[o] = Settled("whole") /\ path'[o] = Settled(Depth)
               /\ final[o].seen = "whole"
         /\ Durable(o) => final'[o] = Settled("whole")
<1>1. PICK d \in path[o].disk, f \in final[o].disk, r \in BOOLEAN :
        /\ path'[o] = Settled(d)
        /\ final'[o] = Settled(IF d = Depth THEN f ELSE "none")
        /\ remnant'[o] = Settled(d = Depth /\ r)
  BY LeafLeft
<1>2. d \in 0 .. Depth /\ f \in {"none", "whole"} /\ (f = "whole" => final[o].seen = "whole")
  BY SyncFinalNameSettles DEF Inv, TypeOK, FinalFiles, CellOf, Contents
<1>3. \A v \in 0 .. Depth : Settled(v) \in CellOf(0 .. Depth)
  BY DEF Settled, CellOf
<1>4. Settled(d = Depth /\ r) \in CellOf(BOOLEAN)
  <2>1. (d = Depth /\ r) \in BOOLEAN
    OBVIOUS
  <2>2. \A b \in BOOLEAN : Settled(b) \in CellOf(BOOLEAN)
    BY DEF Settled, CellOf
  <2> QED
    BY <2>1, <2>2
<1>5. CASE d = Depth
  BY <1>1, <1>2, <1>3, <1>4, <1>5 DEF Durable
<1>6. CASE d # Depth
  BY <1>1, <1>2, <1>3, <1>4, <1>6 DEF Durable
<1> QED
  BY <1>5, <1>6

\* and a power loss.
LEMMA PowerLossKeepsInv ==
  ASSUME Inv, PowerLoss
  PROVE  Inv'
<1>0. /\ \A p \in Procs : pc'[p] = "idle"
      /\ pc' = [p \in Procs |-> "idle"] /\ target' = [p \in Procs |-> NoObject]
      /\ level' = [p \in Procs |-> 0] /\ stage' = [p \in Procs |-> Settled("none")]
      /\ recovery' = "off" /\ acked' = acked
  BY DEF PowerLoss
<1>2. \A o \in Objects : path'[o] \in CellOf(0 .. Depth)
  BY FileLeft
<1>3. \A o \in Objects : final'[o] \in {Settled("none"), Settled("whole")}
  BY FileLeft
<1>4. \A o \in Objects : remnant'[o] \in CellOf(BOOLEAN)
  BY FileLeft
<1>5. Settled("none") \in CellOf(Contents) /\ Settled("whole") \in CellOf(Contents)
  BY DEF Settled, CellOf, Contents
<1>6. TypeOK'
  <2>1. /\ DOMAIN path' = Objects /\ DOMAIN final' = Objects /\ DOMAIN remnant' = Objects
        /\ path' = [o \in Objects |-> path'[o]]
        /\ final' = [o \in Objects |-> final'[o]]
        /\ remnant' = [o \in Objects |-> remnant'[o]]
    BY DEF PowerLoss
  <2>2. path' \in [Objects -> CellOf(0 .. Depth)]
    BY <1>2, <2>1
  <2>3. final' \in [Objects -> CellOf(Contents)]
    BY <1>3, <1>5, <2>1
  <2>4. remnant' \in [Objects -> CellOf(BOOLEAN)]
    BY <1>4, <2>1
  <2>5. level' \in [Procs -> 0 .. Depth + 1]
    BY <1>0, StoreAssumption
  <2>6. pc' \in [Procs -> Labels]
    BY <1>0 DEF Labels
  <2>7. stage' \in [Procs -> CellOf(Contents)]
    BY <1>0, <1>5
  <2> QED
    BY <1>0, <2>2, <2>3, <2>4, <2>5, <2>6, <2>7 DEF Inv, TypeOK
<1>7. \A p \in Procs : PutInv(p)'
  BY <1>0 DEF PutInv, Staged, Promoted, Named, Certain
<1>8. FinalFiles'
  BY <1>3 DEF FinalFiles, Settled
<1>9. AckedIsDurable'
  <2> SUFFICES ASSUME NEW o \in acked PROVE Durable(o)'
    BY <1>0 DEF AckedIsDurable
  <2>1. o \in Objects /\ Durable(o) /\ Settled("none") # Settled("whole")
    BY DEF Inv, TypeOK, AckedIsDurable, Settled
  <2>2. path'[o] = Settled(Depth) /\ final'[o] = Settled("whole")
    BY <2>1, FileLeft
  <2> QED
    BY <2>2 DEF Durable, Settled
<1> QED
  BY <1>0, <1>6, <1>7, <1>8, <1>9 DEF Inv, RecoveryInv
-----------------------------------------------------------------------------
(* The theorems.                                                           *)

\* Every step keeps the inductive invariant.
LEMMA StepInv == Inv /\ [Next]_vars => Inv'
<1> SUFFICES ASSUME Inv, [Next]_vars PROVE Inv'
  OBVIOUS
<1>1. CASE UNCHANGED vars
  BY <1>1 DEF vars, disk, local, Inv, TypeOK, PutInv, Walked, Staged, Promoted, FinalFiles,
    RecoveryInv, AckedIsDurable, Durable
<1>2. CASE Next
  BY <1>2, PutKeepsInv, RecoveryKeepsInv, PowerLossKeepsInv DEF Next, Working, Recovering
<1> QED
  BY <1>1, <1>2

\* It holds in every reachable state.
LEMMA Invariance == Spec => []Inv
  BY InitInv, StepInv, PTL DEF Spec

\* A put that returned, Promoted or Present, returned for an object whose
\* directories, name and data are all on disk, however many puts of it raced,
\* failed between link and sync, or were cut by a power loss.
THEOREM AckedIsDurableInvariant == Spec => []AckedIsDurable
<1>1. Inv => AckedIsDurable
  BY DEF Inv
<1> QED
  BY <1>1, Invariance, PTL

\* A final name never holds a partly written record, now or after a power
\* loss: the stage is synced before hard_link.
THEOREM FinalIsWholeInvariant == Spec => []FinalIsWhole
<1>1. Inv => FinalIsWhole
  BY DEF Inv, FinalFiles, FinalIsWhole
<1> QED
  BY <1>1, Invariance, PTL

\* recover_staged leaves no remnant that could come back and no visible final
\* name that could vanish.
THEOREM RecoverySettlesInvariant == Spec => []RecoverySettles
<1>1. Inv => RecoverySettles
  BY FS_Singleton DEF Inv, RecoveryInv, RecoverySettles
<1> QED
  BY <1>1, Invariance, PTL
-----------------------------------------------------------------------------
(* Refinement.                                                             *)

\* What the shelf shows and what it cannot lose.
SeenWhole == {o \in Objects : final[o].seen = "whole"}
SafeWhole == {o \in Objects : Durable(o)}

\* A step that shows the same objects and loses none secures some of them.
LEMMA Securing ==
  ASSUME Inv, Inv', SeenWhole' = SeenWhole, SafeWhole \subseteq SafeWhole', acked' = acked
  PROVE  Shelf!Next
<1>1. SafeWhole' \subseteq SeenWhole
  <2>1. Inv' => SafeWhole' \subseteq SeenWhole'
    BY DEF Inv, TypeOK, SafeWhole, SeenWhole, Durable, CellOf
  <2> QED
    BY <2>1
<1>2. PICK S : S = SafeWhole'
  OBVIOUS
<1>3. Shelf!Secure(S)
  <2>1. SafeWhole \cup S = SafeWhole'
    BY <1>2
  <2>2. [seen |-> SeenWhole', safe |-> SafeWhole']
          = [[seen |-> SeenWhole, safe |-> SafeWhole] EXCEPT !.safe = @ \cup S]
    BY <2>1
  <2> QED
    BY <2>2 DEF Shelf!Secure, SeenWhole, SafeWhole
<1> QED
  BY <1>1, <1>2, <1>3 DEF Shelf!Next, SeenWhole

\* Every behaviour of the store is one of the shelf: hard_link makes an object
\* appear, a sync secures objects that are seen, a put returns only for an
\* object that is already secured, a power loss takes only unsecured ones
\* away, and nothing else is visible.
THEOREM Refinement == Spec => RefinesShelf
<1>1. Init => Shelf!Init
  <2> SUFFICES ASSUME Init PROVE Shelf!Init
    OBVIOUS
  <2>1. SeenWhole = {} /\ SafeWhole = {} /\ acked = {}
    BY DEF Init, SeenWhole, SafeWhole, Durable, Settled
  <2> QED
    BY <2>1 DEF Shelf!Init, Shelf!EmptyShelf, SeenWhole, SafeWhole
<1>2. Inv /\ Inv' /\ [Next]_vars => [Shelf!Next]_(Shelf!shelfvars)
  <2> SUFFICES ASSUME Inv, Inv', [Next]_vars PROVE [Shelf!Next]_(Shelf!shelfvars)
    OBVIOUS
  <2>0. SUFFICES ASSUME Next PROVE [Shelf!Next]_(Shelf!shelfvars)
    BY DEF vars, disk, Durable, Shelf!shelfvars
  <2>1. ASSUME NEW p \in Procs, LinkFinal(p) PROVE Shelf!Next
    <3>1. /\ target[p] \in Objects /\ stage[p].seen = "whole" /\ acked' = acked
          /\ final[target[p]].seen = "none" /\ path' = path
          /\ final' = [final EXCEPT ![target[p]] =
               [seen |-> stage[p].seen, disk |-> @.disk \cup (stage[p].disk \ {"none"})]]
      BY <2>1 DEF LinkFinal, Inv, TypeOK, PutInv, Staged
    <3>2. final[target[p]].disk = {"none"} /\ "none" \in final'[target[p]].disk
      BY <3>1 DEF Inv, FinalFiles, TypeOK
    <3>3. SeenWhole' = SeenWhole \cup {target[p]}
      BY <3>1 DEF SeenWhole, Inv, TypeOK
    <3>4. SafeWhole' = SafeWhole
      BY <3>1, <3>2 DEF SafeWhole, Durable, Inv, TypeOK
    <3>5. PICK o \in Objects : o = target[p]
      BY <3>1
    <3>6. [seen |-> SeenWhole', safe |-> SafeWhole']
            = [[seen |-> SeenWhole, safe |-> SafeWhole] EXCEPT !.seen = @ \cup {o}]
      BY <3>3, <3>4, <3>5
    <3>7. Shelf!Appear(o)
      BY <3>1, <3>6 DEF Shelf!Appear, Shelf!Link, SeenWhole, SafeWhole
    <3> QED
      BY <3>7 DEF Shelf!Next
  <2>2. ASSUME NEW p \in Procs, Working(p), ~LinkFinal(p) PROVE Shelf!Next
    <3>1. SeenWhole' = SeenWhole
      <4>1. ASSUME SyncLeaf(target[p]), target[p] \in Objects PROVE SeenWhole' = SeenWhole
        BY <4>1, SyncFinalNameSettles DEF SyncLeaf, SeenWhole, Inv, TypeOK
      <4>2. CASE SyncExisting(p)
        BY <4>2 DEF SyncExisting, SyncData, SeenWhole, Inv, TypeOK
      <4>3. pc[p] # "idle" => target[p] \in Objects
        BY DEF Inv, TypeOK
      <4> QED
        BY <2>2, <4>1, <4>2, <4>3 DEF SeenWhole, Working, PutStep, MakeDir, SyncParent,
          LookPresent, LookAbsent, WriteStage, SyncStage, LinkExists, SyncExistingName,
          ReturnPresent, SyncLink, UnlinkStage, ReturnPromoted, Abandon, BeginPut, disk
    <3>2. SafeWhole \subseteq SafeWhole'
      BY <2>2, DurableKept DEF SafeWhole
    <3>3. CASE acked' = acked
      BY <3>1, <3>2, <3>3, Securing
    <3>4. CASE acked' # acked
      <4>1. /\ pc[p] \in Certain /\ acked' = acked \cup {target[p]}
            /\ target[p] \in Objects /\ Durable(target[p])
        BY <2>2, <3>4, AckedStep, CertainIsDurable
      <4>2. SafeWhole' = SafeWhole
        <5>1. CASE ReturnPresent(p)
          BY <5>1 DEF ReturnPresent, disk, SafeWhole, Durable
        <5>2. CASE ReturnPromoted(p)
          <6>1. path' = path /\ final' = [final EXCEPT ![target[p]] = SyncFinalName(@)]
            BY <5>2 DEF ReturnPromoted, SyncLeaf
          <6>2. SyncFinalName(final[target[p]]).disk = final[target[p]].disk
            BY <4>1, SyncFinalNameSettles DEF Durable, Inv, TypeOK, CellOf
          <6> QED
            BY <4>1, <6>1, <6>2 DEF SafeWhole, Durable, Inv, TypeOK
        <5> QED
          BY <2>2, <3>4, <5>1, <5>2 DEF Working, PutStep, MakeDir, SyncParent, LookPresent,
            LookAbsent, WriteStage, SyncStage, LinkFinal, LinkExists, SyncExisting,
            SyncExistingName, SyncLink, UnlinkStage, Abandon, BeginPut
      <4>3. Shelf!Return(target[p])
        BY <3>1, <4>1, <4>2 DEF Shelf!Return, SeenWhole, SafeWhole
      <4> QED
        BY <4>1, <4>3 DEF Shelf!Next
    <3> QED
      BY <3>3, <3>4
  <2>3. ASSUME Recovering PROVE Shelf!Next
    <3>1. SeenWhole' = SeenWhole /\ acked' = acked
      BY <2>3, RecoveryFinal DEF SeenWhole
    <3>2. SafeWhole \subseteq SafeWhole'
      <4> SUFFICES ASSUME NEW o \in Objects, Durable(o) PROVE Durable(o)'
        BY DEF SafeWhole
      <4>1. final[o].seen = "whole"
        BY DEF Durable, Inv, TypeOK, CellOf
      <4> QED
        BY <2>3, <4>1, RecoveryFinal DEF Durable
    <3> QED
      BY <3>1, <3>2, Securing
  <2>4. ASSUME PowerLoss PROVE Shelf!Next
    <3>1. SeenWhole' \subseteq SeenWhole
      BY <2>4, FileLeft DEF SeenWhole, Settled
    <3>2. SafeWhole' = SeenWhole'
      <4> SUFFICES ASSUME NEW o \in Objects PROVE Durable(o)' <=> final'[o].seen = "whole"
        BY DEF SafeWhole, SeenWhole
      <4> QED
        BY <2>4, FileLeft DEF Durable, Settled
    <3>3. SafeWhole \subseteq SeenWhole'
      BY <2>4, FileLeft DEF SafeWhole, SeenWhole, Settled
    <3>4. acked' = acked
      BY <2>4 DEF PowerLoss
    <3>5. Shelf!PowerLoss
      BY <3>1, <3>2, <3>3, <3>4 DEF Shelf!PowerLoss, Shelf!ShelfAfterPowerLoss, SafeWhole, SeenWhole
    <3> QED
      BY <3>5 DEF Shelf!Next
  <2> QED
    BY <2>0, <2>1, <2>2, <2>3, <2>4 DEF Next, Working, Recovering
<1> QED
  BY <1>1, <1>2, Invariance, PTL DEF Spec, RefinesShelf, Shelf!Spec
=============================================================================
