---------------------------- MODULE ObjectStore ----------------------------
(***************************************************************************)
(* sley-store: promotion of content-addressed objects from stage files to  *)
(* final names by concurrent puts, and removal of stage remnants at        *)
(* startup.                                                                *)
(*                                                                         *)
(* Every object has a leaf directory, reached through Depth directory      *)
(* components below the store root (objects, scb1 and the two fan-out      *)
(* levels in the code).  A file holds nothing, a torn or the whole record; *)
(* data that was not synced may be torn after a power loss.                *)
(***************************************************************************)
EXTENDS StableStorage, Naturals, FiniteSets

CONSTANTS
  Procs,      \* processes or threads that put objects
  Objects,    \* object ids
  NoObject,   \* no object
  Depth       \* directory components between the root and a final file

ASSUME StoreAssumption ==
  /\ NoObject \notin Objects
  /\ Depth \in Nat \ {0}

Contents == {"none", "torn", "whole"}

VARIABLES
  path,       \* per object: how many directory components exist
  final,      \* per object: content of the final file
  remnant,    \* per object: a stage file without a running put exists
  pc,         \* per process: next step of its put
  target,     \* per process: the object it puts
  level,      \* per process: the directory component it is at
  stage,      \* per process: content of its stage file
  recovery,   \* progress of recover_staged
  acked       \* objects that some put returned for

disk == <<path, final, remnant>>
local == <<pc, target, level, stage>>
vars == <<disk, local, recovery, acked>>

Init ==
  /\ path = [o \in Objects |-> Settled(0)]
  /\ final = [o \in Objects |-> Settled("none")]
  /\ remnant = [o \in Objects |-> Settled(FALSE)]
  /\ pc = [p \in Procs |-> "idle"]
  /\ target = [p \in Procs |-> NoObject]
  /\ level = [p \in Procs |-> 0]
  /\ stage = [p \in Procs |-> Settled("none")]
  /\ recovery = "off"
  /\ acked = {}

Goto(p, label) == pc' = [pc EXCEPT ![p] = label]

\* The put is over; its stage file, if it still has one, is now a remnant.
Leave(p) ==
  /\ Goto(p, "idle")
  /\ target' = [target EXCEPT ![p] = NoObject]
  /\ level' = [level EXCEPT ![p] = 0]
  /\ stage' = [stage EXCEPT ![p] = Settled("none")]

\* fsync of a file: its data is whole or torn as seen, its name may be lost.
SyncData(file) == [file EXCEPT !.disk = (@ \cap {"none"}) \cup {file.seen}]

\* fsync of the leaf directory, for a final name: an existing name stays.
SyncFinalName(file) ==
  [file EXCEPT !.disk = IF file.seen = "none" THEN {"none"} ELSE @ \ {"none"}]

SyncLeaf(o) ==
  /\ final' = [final EXCEPT ![o] = SyncFinalName(@)]
  /\ remnant' = [remnant EXCEPT ![o] = SyncCell(@)]
-----------------------------------------------------------------------------
\* put: the record was verified against its id before anything is written.
\* The caller excludes recovery.
BeginPut(p, o) ==
  /\ pc[p] = "idle" /\ recovery = "off"
  /\ target' = [target EXCEPT ![p] = o]
  /\ level' = [level EXCEPT ![p] = 1]
  /\ Goto(p, "mkdir")
  /\ UNCHANGED <<disk, stage, recovery, acked>>

\* Mutant of MakeDir: a component that exists is taken as durable.
MakeDirTrusting(p) ==
  LET o == target[p] IN
  /\ pc[p] = "mkdir"
  /\ IF path[o].seen < level[p]
       THEN /\ path' = [path EXCEPT ![o] = Replace(@, level[p])]
            /\ Goto(p, "syncParent")
            /\ UNCHANGED level
       ELSE /\ level' = [level EXCEPT ![p] = @ + 1]
            /\ Goto(p, IF level[p] < Depth THEN "mkdir" ELSE "look")
            /\ UNCHANGED path
  /\ UNCHANGED <<final, remnant, target, stage, recovery, acked>>

\* create_dir_component: the component is created, or is there ...
MakeDir(p) ==
  LET o == target[p] IN
  /\ pc[p] = "mkdir"
  /\ path' = [path EXCEPT ![o] = IF @.seen < level[p] THEN Replace(@, level[p]) ELSE @]
  /\ Goto(p, "syncParent")
  /\ UNCHANGED <<final, remnant, target, level, stage, recovery, acked>>

\* ... and its parent is synced in both cases.
SyncParent(p) ==
  LET o == target[p] IN
  /\ pc[p] = "syncParent"
  /\ path' = [path EXCEPT ![o].disk = {d \in @ : d >= level[p]}]
  /\ level' = [level EXCEPT ![p] = @ + 1]
  /\ Goto(p, IF level[p] < Depth THEN "mkdir" ELSE "look")
  /\ UNCHANGED <<final, remnant, target, stage, recovery, acked>>

\* The final name exists: handle_existing.
LookPresent(p) ==
  /\ pc[p] = "look"
  /\ final[target[p]].seen # "none"
  /\ Goto(p, "existing")
  /\ UNCHANGED <<disk, target, level, stage, recovery, acked>>

\* It does not: reserve_stage_file.
LookAbsent(p) ==
  /\ pc[p] = "look"
  /\ final[target[p]].seen = "none"
  /\ stage' = [stage EXCEPT ![p] = Replace(@, "torn")]
  /\ Goto(p, "write")
  /\ UNCHANGED <<disk, target, level, recovery, acked>>

WriteStage(p) ==
  /\ pc[p] = "write"
  /\ stage' = [stage EXCEPT ![p] = Replace(@, "whole")]
  /\ Goto(p, "syncStage")
  /\ UNCHANGED <<disk, target, level, recovery, acked>>

\* Mutant of SyncStage: the stage is flushed and not synced.
SyncStageSkipped(p) ==
  /\ pc[p] = "syncStage"
  /\ Goto(p, "link")
  /\ UNCHANGED <<disk, target, level, stage, recovery, acked>>

\* The stage is synced, read back and verified.
SyncStage(p) ==
  /\ pc[p] = "syncStage"
  /\ stage' = [stage EXCEPT ![p] = SyncData(@)]
  /\ Goto(p, "link")
  /\ UNCHANGED <<disk, target, level, recovery, acked>>

\* hard_link of the stage to the final name.
LinkFinal(p) ==
  LET o == target[p] IN
  /\ pc[p] = "link"
  /\ final[o].seen = "none"
  /\ final' = [final EXCEPT
       ![o] = [seen |-> stage[p].seen, disk |-> @.disk \cup (stage[p].disk \ {"none"})]]
  /\ Goto(p, "syncLink")
  /\ UNCHANGED <<path, remnant, target, level, stage, recovery, acked>>

\* Another put was faster.
LinkExists(p) ==
  /\ pc[p] = "link"
  /\ final[target[p]].seen # "none"
  /\ Goto(p, "existing")
  /\ UNCHANGED <<disk, target, level, stage, recovery, acked>>

\* handle_existing: the file is verified and synced ...
SyncExisting(p) ==
  LET o == target[p] IN
  /\ pc[p] = "existing"
  /\ final[o].seen = "whole"
  /\ final' = [final EXCEPT ![o] = SyncData(@)]
  /\ Goto(p, "syncExistingName")
  /\ UNCHANGED <<path, remnant, target, level, stage, recovery, acked>>

\* Mutant of SyncExistingName: a name that is visible is taken as durable.
SyncExistingNameSkipped(p) ==
  /\ pc[p] = "syncExistingName"
  /\ Goto(p, IF stage[p].seen = "none" THEN "present" ELSE "unlink")
  /\ UNCHANGED <<disk, target, level, stage, recovery, acked>>

\* ... and so is its name, because the put that linked it may not have come
\* to that.
SyncExistingName(p) ==
  /\ pc[p] = "syncExistingName"
  /\ SyncLeaf(target[p])
  /\ Goto(p, IF stage[p].seen = "none" THEN "present" ELSE "unlink")
  /\ UNCHANGED <<path, target, level, stage, recovery, acked>>

\* PutStatus::Present, without a stage file to remove.
ReturnPresent(p) ==
  /\ pc[p] = "present"
  /\ acked' = acked \cup {target[p]}
  /\ Leave(p)
  /\ UNCHANGED <<disk, recovery>>

\* First leaf sync after the link.
SyncLink(p) ==
  /\ pc[p] = "syncLink"
  /\ SyncLeaf(target[p])
  /\ Goto(p, "unlink")
  /\ UNCHANGED <<path, target, level, stage, recovery, acked>>

UnlinkStage(p) ==
  /\ pc[p] = "unlink"
  /\ stage' = [stage EXCEPT ![p] = Replace(@, "none")]
  /\ Goto(p, "syncUnlink")
  /\ UNCHANGED <<disk, target, level, recovery, acked>>

\* Second leaf sync; the final file is read back and the put returns.
ReturnPromoted(p) ==
  /\ pc[p] = "syncUnlink"
  /\ final[target[p]].seen = "whole"
  /\ SyncLeaf(target[p])
  /\ acked' = acked \cup {target[p]}
  /\ Leave(p)
  /\ UNCHANGED <<path, recovery>>
-----------------------------------------------------------------------------
\* recover_staged: the caller owns the store exclusively.
BeginRecovery ==
  /\ recovery = "off"
  /\ \A p \in Procs : pc[p] = "idle"
  /\ recovery' = "remove"
  /\ UNCHANGED <<disk, local, acked>>

RemoveRemnant(o) ==
  /\ recovery = "remove"
  /\ remnant[o].seen
  /\ remnant' = [remnant EXCEPT ![o] = Replace(@, FALSE)]
  /\ UNCHANGED <<path, final, local, recovery, acked>>

\* Mutant of SyncLeaves: the removals are not synced.
SyncLeavesSkipped ==
  /\ recovery = "remove"
  /\ \A o \in Objects : ~remnant[o].seen
  /\ recovery' = "done"
  /\ UNCHANGED <<disk, local, acked>>

\* Every leaf directory is synced, whether or not something was removed.
SyncLeaves ==
  /\ recovery = "remove"
  /\ \A o \in Objects : ~remnant[o].seen
  /\ final' = [o \in Objects |-> SyncFinalName(final[o])]
  /\ remnant' = [o \in Objects |-> SyncCell(remnant[o])]
  /\ recovery' = "done"
  /\ UNCHANGED <<path, local, acked>>

EndRecovery ==
  /\ recovery = "done"
  /\ recovery' = "off"
  /\ UNCHANGED <<disk, local, acked>>
-----------------------------------------------------------------------------
\* The put fails or its process dies.
Abandon(p) ==
  /\ pc[p] # "idle"
  /\ remnant' = IF stage[p].disk = {"none"} THEN remnant
                ELSE [remnant EXCEPT ![target[p]] =
                        [seen |-> @.seen \/ stage[p].seen # "none", disk |-> {TRUE, FALSE}]]
  /\ Leave(p)
  /\ UNCHANGED <<path, final, recovery, acked>>

\* Recovery fails or its process dies.
AbandonRecovery ==
  /\ recovery # "off"
  /\ recovery' = "off"
  /\ UNCHANGED <<disk, local, acked>>

\* What a power loss may leave of a leaf directory and of the path to it.
LeafAfterPowerLoss(o) ==
  LET staged == \E p \in Procs : target[p] = o /\ stage[p].disk # {"none"} IN
  {[path |-> Settled(d), final |-> Settled(IF d = Depth THEN f ELSE "none"),
    remnant |-> Settled(d = Depth /\ r)] :
      d \in path[o].disk, f \in final[o].disk,
      r \in IF staged THEN BOOLEAN ELSE remnant[o].disk}

PowerLoss ==
  /\ \E after \in [Objects -> UNION {LeafAfterPowerLoss(o) : o \in Objects}] :
       /\ \A o \in Objects : after[o] \in LeafAfterPowerLoss(o)
       /\ path' = [o \in Objects |-> after[o].path]
       /\ final' = [o \in Objects |-> after[o].final]
       /\ remnant' = [o \in Objects |-> after[o].remnant]
  /\ pc' = [p \in Procs |-> "idle"]
  /\ target' = [p \in Procs |-> NoObject]
  /\ level' = [p \in Procs |-> 0]
  /\ stage' = [p \in Procs |-> Settled("none")]
  /\ recovery' = "off"
  /\ UNCHANGED acked

PutStep(p) ==
  \/ MakeDir(p) \/ SyncParent(p)
  \/ LookPresent(p) \/ LookAbsent(p) \/ WriteStage(p) \/ SyncStage(p)
  \/ LinkFinal(p) \/ LinkExists(p) \/ SyncExisting(p)
  \/ SyncExistingName(p) \/ ReturnPresent(p)
  \/ SyncLink(p) \/ UnlinkStage(p) \/ ReturnPromoted(p)

RecoveryStep ==
  \/ \E o \in Objects : RemoveRemnant(o)
  \/ SyncLeaves
  \/ EndRecovery

Next ==
  \/ \E p \in Procs : PutStep(p) \/ Abandon(p) \/ \E o \in Objects : BeginPut(p, o)
  \/ BeginRecovery \/ RecoveryStep \/ AbandonRecovery
  \/ PowerLoss

Spec == Init /\ [][Next]_vars
-----------------------------------------------------------------------------
Labels ==
  {"idle", "mkdir", "syncParent", "look", "write", "syncStage", "link", "existing",
   "syncExistingName", "present", "syncLink", "unlink", "syncUnlink"}

TypeOK ==
  /\ path \in [Objects -> CellOf(0 .. Depth)]
  /\ final \in [Objects -> CellOf(Contents)]
  /\ remnant \in [Objects -> CellOf(BOOLEAN)]
  /\ pc \in [Procs -> Labels]
  /\ target \in [Procs -> Objects \cup {NoObject}]
  /\ level \in [Procs -> 0 .. Depth + 1]
  /\ stage \in [Procs -> CellOf(Contents)]
  /\ recovery \in {"off", "remove", "done"}
  /\ acked \subseteq Objects
  /\ \A p \in Procs : pc[p] # "idle" => target[p] \in Objects

\* An object that survives every power loss: its directories, its name and
\* its data are all on disk.
Durable(o) == path[o].disk = {Depth} /\ final[o].disk = {"whole"}

\* A put that returned, Promoted or Present, returned for a durable object,
\* although the directories, the name and the data may each have been written
\* by a different process that died before its sync.
AckedIsDurable == \A o \in acked : Durable(o)

\* No power loss ever uncovers a partly written record under a final name.
FinalIsWhole == \A o \in Objects : "torn" \notin final[o].disk

\* After recover_staged no remnant is left that could come back, and no final
\* name that was visible can vanish.
RecoverySettles ==
  recovery = "done" =>
    \A o \in Objects :
      remnant[o].disk = {FALSE} /\ Cardinality(final[o].disk) = 1

\* The store is the shelf that the transaction repository builds on.
Shelf ==
  INSTANCE ObjectShelf
    WITH shelf <- [seen |-> {o \in Objects : final[o].seen = "whole"},
                   safe |-> {o \in Objects : Durable(o)}],
         returned <- acked

RefinesShelf == Shelf!Spec
=============================================================================
