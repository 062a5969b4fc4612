------------------------ MODULE TestSupervisor_proofs ------------------------
(***************************************************************************)
(* Proofs about TestSupervisor, for any number of nonces, launches and     *)
(* daemon deaths.                                                          *)
(***************************************************************************)
EXTENDS TestSupervisor, TLAPS

USE DEF Process, UnitState
-----------------------------------------------------------------------------
(* The inductive invariant.                                                *)

\* A unit carries the launch that made it, and its phase tells how far the
\* process of that launch is; two units never carry the same launch.
UnitInv ==
  /\ \A n \in Nonces :
       /\ unit[n].phase # "absent" => unit[n].launch \in 1 .. launch
       /\ unit[n].phase = "requested" => proc[unit[n].launch].step = "none"
       /\ unit[n].phase = "active" =>
            proc[unit[n].launch].step \in {"blocked", "working", "reported"}
       /\ unit[n].phase \in {"stopping", "failed"} => proc[unit[n].launch].step = "exited"
  /\ \A n, m \in Nonces :
       n # m /\ unit[n].phase # "absent" /\ unit[m].phase # "absent"
         => unit[n].launch # unit[m].launch

\* The processes that run.
LiveProcess == {p \in Process : p.step \in {"blocked", "working", "reported"}}

\* Only a process that exited has a cause, and only launches have processes.
ProcInv ==
  \A k \in Launches : /\ proc[k].step # "exited" => proc[k].cause = "none"
                      /\ k > launch => proc[k] = NoProcess

\* No process: free, failed, or a launch that is still pending.
Still(n) == unit[n].phase \in {"absent", "failed", "requested"}

\* Which names may still have a process: none while the daemon accepts work,
\* only the current one in an attempt, only listed ones at start-up.  Only the
\* current name has an input to start with.
QuietInv ==
  /\ pc \notin Attempt => staged = {}
  /\ pc = "reaping" => \A n \in Nonces \ orphans : Still(n)
  /\ pc \in {"serving", "staged"} => \A n \in Nonces : Still(n)
  /\ pc = "staged" => unit[att.nonce].phase # "requested"
  /\ pc \in Attempt => /\ att.nonce \in Nonces /\ staged \subseteq {att.nonce}
                       /\ \A n \in Nonces \ {att.nonce} : Still(n)
  /\ pc = "responding" /\ att.result \in Kinds \cup {"occupied"} => Empty(att.nonce)

\* Once its cgroup was bound, the process of the launch is in the unit or gone.
BoundInv ==
  /\ pc \in {"staged", "observing", "binding"} => ~att.bound
  /\ att.bound =>
       \/ \E n \in Nonces : n = att.nonce /\ Sampled(n)
       \/ launch \in Launches /\ proc[launch].step = "exited"

\* What the daemon knows of the process at each step of the run.
RunInv ==
  /\ pc \in Attempt \ {"staged", "responding"} => launch \in Launches
  /\ pc = "reading" => gate = "start"
  /\ pc \in {"sampling", "draining", "finishing"} =>
       proc[launch].step \in {"reported", "exited"}
  /\ pc \in {"draining", "finishing"} => proc[launch].dirty # "run"
  /\ pc = "finishing" => proc[launch].step = "exited"

\* What the deadline has left on the process of the run.
OverdueInv ==
  /\ pc \in Running /\ ~att.late => proc[launch].overdue = "no"
  /\ pc \in Running /\ gate # "shut" /\ att.late /\ proc[launch].step # "exited" =>
       proc[launch].overdue = "started"
  /\ pc \in {"observing", "binding", "starting"} => gate = "shut"

\* What a result that will be signed stands for.
ResultInv ==
  /\ pc \in {"aborting", "confirming", "responding"} /\ att.result = "timeout" =>
       gate # "release" /\ proc[launch].cause # "ok" /\ proc[launch].overdue = "started"
  /\ pc = "responding" /\ att.result \in Kinds =>
       launch \in Launches /\ proc[launch].step = "exited"
  /\ pc = "responding" /\ att.result = "complete" =>
       proc[launch].cause = "ok" /\ proc[launch].dirty # "run" /\ proc[launch].overdue = "no"
  /\ pc = "responding" /\ att.result = "oom" => proc[launch].cause = "oom"

Inv ==
  /\ TypeOK /\ UnitInv /\ ProcInv
  /\ QuietInv /\ BoundInv /\ RunInv /\ OverdueInv /\ ResultInv
  /\ EvidenceIsTrue

\* A manager that has forgotten everything.
LEMMA InitInv == Init => Inv
<1> SUFFICES ASSUME Init PROVE Inv
  OBVIOUS
<1>1. TypeOK
  <2>1. 0 \in 0 .. MaxLaunch /\ 0 \in 0 .. MaxCrash
    BY SupervisorAssumption
  <2>2. att \in [nonce : Nonces \cup {NoNonce}, inv : BOOLEAN, bound : BOOLEAN,
                result : Kinds \cup {"none", "occupied", "error", "unconfirmed"},
                late : BOOLEAN, peer : BOOLEAN]
    BY DEF Init, NoAttempt
  <2>3. unit \in [Nonces -> UnitState]
    BY <2>1 DEF Init, AbsentUnit
  <2>4. proc \in [Launches -> Process]
    BY DEF Init, NoProcess
  <2> QED
    BY <2>1, <2>2, <2>3, <2>4 DEF Init, TypeOK, Stopped
<1> QED
  BY <1>1 DEF Init, Inv, UnitInv, ProcInv, QuietInv, BoundInv, RunInv, OverdueInv,
    ResultInv, EvidenceIsTrue, NoAttempt, NoProcess, AbsentUnit, Still, Startup, Attempt, Running
-----------------------------------------------------------------------------
(* What a step other than a launch does to the units and the processes.    *)

\* Nothing comes back to life, a report stays a report until the exit, and
\* an exit with status zero takes an open release gate.
Settling ==
  /\ unit' \in [Nonces -> UnitState]
  /\ proc' \in [Launches -> Process]
  /\ launch' = launch /\ UnitInv' /\ ProcInv'
  /\ \A n \in Nonces :
       /\ Empty(n) => Empty(n)'
       /\ unit[n].phase # "requested" => unit'[n].phase # "requested"
       /\ Still(n) => Still(n)' \/ n \in staged \/ pc \in Stopped
       /\ unit[n].phase = "active" =>
            unit'[n] = unit[n] \/ proc'[unit[n].launch].step = "exited"
  /\ \A k \in Launches :
       /\ proc'[k].overdue # proc[k].overdue => PassDeadline
       /\ proc[k].step = "exited" => proc'[k] = proc[k]
       /\ proc[k].step = "reported" =>
            /\ proc'[k].step \in {"reported", "exited"}
            /\ proc[k].dirty # "run" => proc'[k].dirty # "run"
       /\ proc'[k].cause = "ok" => proc[k].cause = "ok" \/ GateOf(k) = "release"

\* The launch of a unit that is there is one of the launches.
LEMMA UnitLaunch ==
  ASSUME Inv, NEW n \in Nonces, unit[n].phase # "absent"
  PROVE  unit[n].launch \in Launches /\ unit[n].launch <= launch
  BY SupervisorAssumption DEF Inv, TypeOK, UnitInv, Launches

\* Units and processes that do not move stay settled.
LEMMA NothingMoves ==
  ASSUME Inv, UNCHANGED <<launch, unit, proc>>
  PROVE  Settling
  BY DEF Inv, TypeOK, UnitInv, ProcInv, Settling, Empty, Still

\* SIGKILL, an exit, an OOM kill.
LEMMA KillSettles ==
  ASSUME Inv, launch' = launch, NEW S \in SUBSET Nonces,
         NEW cause \in {"ok", "fail", "oom"}, Kill(S, cause),
         cause = "ok" => \A n \in S : GateOf(unit[n].launch) = "release"
  PROVE  Settling
<1> DEFINE Hit(n) == n \in S /\ unit[n].phase = "active"
<1>0. /\ unit \in [Nonces -> UnitState]
      /\ proc \in [Launches -> Process]
      /\ UnitInv /\ ProcInv
  BY DEF Inv, TypeOK
<1>1. /\ unit' \in [Nonces -> UnitState]
      /\ \A n \in Nonces : /\ unit'[n].launch = unit[n].launch
                           /\ Hit(n) => unit'[n].phase = "stopping"
                           /\ ~Hit(n) => unit'[n] = unit[n]
  BY <1>0 DEF Kill, KilledUnits
<1>2. /\ proc' \in [Launches -> Process]
      /\ \A k \in Launches :
           /\ (\E n \in Nonces : Hit(n) /\ unit[n].launch = k) =>
                /\ proc'[k].step = "exited" /\ proc'[k].cause = cause
                /\ proc'[k].dirty \in {"no", proc[k].dirty} /\ proc'[k].overdue = proc[k].overdue
           /\ ~(\E n \in Nonces : Hit(n) /\ unit[n].launch = k) => proc'[k] = proc[k]
  <2> DEFINE Dead(k) == \E n \in S : unit[n].phase = "active" /\ unit[n].launch = k
             New(k) == [proc[k] EXCEPT !.step = "exited", !.cause = cause,
                                       !.dirty = IF cause = "ok" THEN @ ELSE "no"]
  <2>1. proc' = [k \in Launches |-> IF Dead(k) THEN New(k) ELSE proc[k]]
    BY DEF Kill, KilledProcs
  <2>2. \A k \in Launches :
          /\ New(k) \in Process
          /\ New(k).step = "exited" /\ New(k).cause = cause
          /\ New(k).dirty \in {"no", proc[k].dirty} /\ New(k).overdue = proc[k].overdue
    BY <1>0
  <2>3. \A k \in Launches : Dead(k) <=> \E n \in Nonces : Hit(n) /\ unit[n].launch = k
    OBVIOUS
  <2> HIDE DEF Dead, New, Hit
  <2> QED
    BY <1>0, <2>1, <2>2, <2>3
<1>3. \A n \in Nonces : unit[n].phase # "absent" => unit[n].launch \in Launches
  BY UnitLaunch
<1>4. UnitInv'
  <2>1. \A n \in Nonces : unit'[n].phase # "absent" <=> unit[n].phase # "absent"
    BY <1>1
  <2>2. \A n \in Nonces : Hit(n) => proc'[unit[n].launch].step = "exited"
    BY <1>2, <1>3
  <2>3. \A n \in Nonces : ~Hit(n) /\ unit[n].phase # "absent" =>
          proc'[unit[n].launch] = proc[unit[n].launch]
    BY <1>0, <1>2, <1>3 DEF UnitInv
  <2> QED
    BY <1>0, <1>1, <1>3, <2>1, <2>2, <2>3 DEF UnitInv
<1>5. ProcInv'
  <2>1. \A k \in Launches : k > launch => ~\E n \in Nonces : Hit(n) /\ unit[n].launch = k
    BY UnitLaunch, SupervisorAssumption DEF Launches, Inv, TypeOK
  <2> QED
    BY <1>0, <1>2, <2>1 DEF ProcInv
<1>6. \A k \in Launches : (\E n \in Nonces : Hit(n) /\ unit[n].launch = k) =>
        proc[k].step # "exited" /\ (cause = "ok" => GateOf(k) = "release")
  BY <1>0 DEF UnitInv
<1> HIDE DEF Hit
<1>7. \A n \in Nonces :
       /\ Empty(n) => Empty(n)'
       /\ unit[n].phase # "requested" => unit'[n].phase # "requested"
       /\ Still(n) => Still(n)'
       /\ unit[n].phase = "active" =>
            unit'[n] = unit[n] \/ proc'[unit[n].launch].step = "exited"
  BY <1>1, <1>2, <1>3 DEF Empty, Still, Hit
<1>8. \A k \in Launches :
       /\ proc'[k].overdue = proc[k].overdue
       /\ proc[k].step = "exited" => proc'[k] = proc[k]
       /\ proc[k].step = "reported" =>
            /\ proc'[k].step \in {"reported", "exited"}
            /\ proc[k].dirty # "run" => proc'[k].dirty # "run"
       /\ proc'[k].cause = "ok" => proc[k].cause = "ok" \/ GateOf(k) = "release"
  BY <1>2, <1>6
<1> QED
  BY <1>1, <1>2, <1>4, <1>5, <1>7, <1>8 DEF Settling

\* A live process goes on: its unit stays, and so does a report.
LEMMA LiveProcessSettles ==
  ASSUME Inv, UNCHANGED <<launch, unit>>, NEW n \in Nonces, unit[n].phase = "active",
         NEW r \in LiveProcess,
         r.cause = proc[unit[n].launch].cause,
         r.overdue # proc[unit[n].launch].overdue => PassDeadline,
         proc[unit[n].launch].step = "reported" =>
           r.step = "reported" /\ (proc[unit[n].launch].dirty # "run" => r.dirty # "run"),
         proc' = [proc EXCEPT ![unit[n].launch] = r]
  PROVE  Settling
<1> DEFINE k == unit[n].launch
<1>0. k \in Launches /\ k <= launch
  BY UnitLaunch
<1>1. /\ proc' \in [Launches -> Process] /\ r.step \in {"blocked", "working", "reported"}
      /\ proc'[k] = r /\ \A j \in Launches \ {k} : proc'[j] = proc[j]
  BY <1>0 DEF Inv, TypeOK, LiveProcess
<1>2. proc[k].step \in {"blocked", "working", "reported"} /\ proc[k].cause = "none"
  BY <1>0 DEF Inv, UnitInv, ProcInv
<1>3. \A m \in Nonces \ {n} : unit[m].phase # "absent" => unit[m].launch \in Launches \ {k}
  BY UnitLaunch DEF Inv, UnitInv
<1>4. UnitInv'
  BY <1>1, <1>3 DEF Inv, UnitInv
<1>5. ProcInv'
  <2>1. ~(k > launch)
    BY <1>0 DEF Inv, TypeOK, Launches
  <2> QED
    BY <1>1, <1>2, <2>1 DEF Inv, ProcInv
<1> HIDE DEF k
<1>6. \A j \in Launches :
       /\ proc'[j].overdue # proc[j].overdue => PassDeadline
       /\ proc[j].step = "exited" => proc'[j] = proc[j]
       /\ proc[j].step = "reported" =>
            /\ proc'[j].step \in {"reported", "exited"}
            /\ proc[j].dirty # "run" => proc'[j].dirty # "run"
       /\ proc'[j].cause = "ok" => proc[j].cause = "ok" \/ GateOf(j) = "release"
  BY <1>1, <1>2 DEF k
<1> QED
  BY <1>1, <1>4, <1>5, <1>6 DEF Settling, Inv, TypeOK, Empty, Still

\* The worker moves or the memory controller acts.
LEMMA WorkerSettles ==
  ASSUME Inv, NEW n \in Nonces, Worker(n) \/ MemoryEvent(n)
  PROVE  Settling
<1> DEFINE k == unit[n].launch
<1>0. /\ launch' = launch /\ unit[n].phase = "active"
  BY DEF Worker, MemoryEvent, WorkerMoves, WorkerEnds
<1>1. /\ k \in Launches /\ proc[k].cause = "none" /\ DOMAIN proc = Launches
      /\ proc[k].step \in {"blocked", "working", "reported"}
      /\ proc[k] \in LiveProcess
  BY <1>0, UnitLaunch DEF Inv, UnitInv, ProcInv, TypeOK, LiveProcess
<1>2. ASSUME NEW from, NEW to, <<from, to>> \in {<<"blocked", "working">>, <<"working", "reported">>},
             WorkerMoves(n, from, to)
      PROVE  Settling
  <2> DEFINE r == [proc[k] EXCEPT !.step = to]
  <2>1. /\ r \in LiveProcess
        /\ r.cause = proc[k].cause /\ proc[k].step = from /\ from # "reported"
        /\ r.overdue = proc[k].overdue /\ unit' = unit /\ proc' = [proc EXCEPT ![k] = r]
    BY <1>1, <1>2 DEF WorkerMoves, LiveProcess
  <2> HIDE DEF r
  <2> QED
    BY <1>0, <2>1, LiveProcessSettles
<1>3. ASSUME NEW cause \in {"ok", "fail", "oom"}, WorkerEnds(n, cause),
             cause = "ok" => GateOf(k) = "release"
      PROVE  Settling
  <2>1. Kill({n}, cause) /\ {n} \in SUBSET Nonces
    BY <1>3 DEF WorkerEnds
  <2> QED
    BY <1>0, <1>3, <2>1, KillSettles
<1>4. CASE MemoryEvent(n) /\ UNCHANGED unit
  <2> DEFINE r == [proc[k] EXCEPT !.dirty = IF proc[k].step = "reported" THEN "after" ELSE "run"]
  <2>1. CASE WorkerEnds(n, "oom")
    BY <1>3, <2>1
  <2>2. CASE ~WorkerEnds(n, "oom")
    <3>1. proc' = [proc EXCEPT ![k].dirty = IF proc[k].step = "reported" THEN "after" ELSE "run"]
      BY <1>4, <2>2 DEF MemoryEvent
    <3>2. /\ r \in LiveProcess
          /\ r.cause = proc[k].cause /\ r.step = proc[k].step /\ r.overdue = proc[k].overdue
          /\ proc[k].step = "reported" => r.dirty = "after"
          /\ unit' = unit /\ proc' = [proc EXCEPT ![k] = r]
      BY <1>1, <1>4, <3>1 DEF LiveProcess
    <3> HIDE DEF r
    <3> QED
      BY <1>0, <3>2, LiveProcessSettles
  <2> QED
    BY <2>1, <2>2
<1>5. MemoryEvent(n) => UNCHANGED unit \/ WorkerEnds(n, "oom")
  BY DEF MemoryEvent
<1>6. Worker(n) => \/ WorkerMoves(n, "blocked", "working") \/ WorkerMoves(n, "working", "reported")
                   \/ GateOf(k) = "release" /\ WorkerEnds(n, "ok")
                   \/ WorkerEnds(n, "fail")
  BY DEF Worker
<1> HIDE DEF k
<1> QED
  BY <1>2, <1>3, <1>4, <1>5, <1>6

\* A name that is free.
LEMMA AbsentUnitType ==
  /\ AbsentUnit \in UnitState
  /\ AbsentUnit.phase = "absent"
  BY SupervisorAssumption DEF AbsentUnit

\* The manager starts a unit that was requested, fails to, or drops the
\* request.
LEMMA ManagerStartsSettles ==
  ASSUME Inv, NEW n \in Nonces, ManagerStarts(n)
  PROVE  Settling
<1> DEFINE k == unit[n].launch
<1>0. k \in Launches /\ k <= launch /\ launch' = launch /\ unit[n].phase = "requested"
  BY UnitLaunch DEF ManagerStarts
<1>1. proc[k].step = "none" /\ proc[k].cause = "none"
  BY <1>0 DEF Inv, UnitInv, ProcInv
<1>2. \A m \in Nonces \ {n} : unit[m].phase # "absent" => unit[m].launch \in Launches \ {k}
  BY <1>0, UnitLaunch DEF Inv, UnitInv
<1>3. CASE unit' = [unit EXCEPT ![n] = AbsentUnit] /\ UNCHANGED proc
  <2>1. /\ unit' \in [Nonces -> UnitState]
        /\ unit'[n].phase = "absent"
        /\ \A m \in Nonces \ {n} : unit'[m] = unit[m]
    BY <1>3, AbsentUnitType DEF Inv, TypeOK
  <2>2. UnitInv' /\ ProcInv'
    BY <1>0, <1>3, <2>1 DEF Inv, UnitInv, ProcInv
  <2> QED
    BY <1>0, <1>3, <2>1, <2>2 DEF Settling, Inv, TypeOK, Empty, Still
<1>4. ASSUME NEW to, NEW e \in Process, e.overdue = proc[k].overdue,
             \/ to = "active" /\ e.step = "blocked" /\ e.cause = "none"
                  /\ (n \in staged \/ pc \in Stopped)
             \/ to = "failed" /\ e.step = "exited" /\ e.cause = "fail",
             unit' = [unit EXCEPT ![n].phase = to], proc' = [proc EXCEPT ![k] = e]
      PROVE  Settling
  <2>1. /\ unit' \in [Nonces -> UnitState]
        /\ unit'[n].phase = to /\ unit'[n].launch = k
        /\ \A m \in Nonces \ {n} : unit'[m] = unit[m]
    BY <1>4 DEF Inv, TypeOK
  <2>2. /\ proc' \in [Launches -> Process] /\ proc'[k] = e
        /\ \A j \in Launches \ {k} : proc'[j] = proc[j]
    BY <1>0, <1>4 DEF Inv, TypeOK
  <2>3. UnitInv'
    BY <1>0, <1>2, <1>4, <2>1, <2>2 DEF Inv, UnitInv
  <2>4. ProcInv'
    <3>1. ~(k > launch)
      BY <1>0 DEF Inv, TypeOK, Launches
    <3> QED
      BY <1>0, <1>4, <2>2, <3>1 DEF Inv, ProcInv
  <2>5. \A m \in Nonces :
       /\ Empty(m) => Empty(m)'
       /\ unit[m].phase # "requested" => unit'[m].phase # "requested"
       /\ Still(m) => Still(m)' \/ m \in staged \/ pc \in Stopped
       /\ unit[m].phase = "active" => unit'[m] = unit[m]
    BY <1>0, <1>4, <2>1 DEF Empty, Still
  <2>6. \A j \in Launches :
       /\ proc'[j].overdue = proc[j].overdue
       /\ proc[j].step \in {"exited", "reported"} => proc'[j] = proc[j]
       /\ proc'[j].cause = "ok" => proc[j].cause = "ok"
    BY <1>1, <1>4, <2>2
  <2> QED
    BY <1>0, <2>1, <2>2, <2>3, <2>4, <2>5, <2>6 DEF Settling
<1>5. CASE /\ n \in staged \/ pc \in Stopped
           /\ unit' = [unit EXCEPT ![n].phase = "active"]
           /\ proc' = [proc EXCEPT ![k].step = "blocked"]
  <2> DEFINE e == [proc[k] EXCEPT !.step = "blocked"]
  <2>0. proc \in [Launches -> Process]
    BY DEF Inv, TypeOK
  <2>1. e \in Process /\ e.step = "blocked" /\ e.cause = "none" /\ e.overdue = proc[k].overdue
    BY <1>0, <1>1, <2>0
  <2>2. proc' = [proc EXCEPT ![k] = e]
    BY <1>5
  <2> HIDE DEF e
  <2> QED
    BY <1>4, <1>5, <2>1, <2>2
<1>6. CASE /\ unit' = [unit EXCEPT ![n].phase = "failed"]
           /\ proc' = [proc EXCEPT ![k].step = "exited", ![k].cause = "fail"]
  <2> DEFINE e == [proc[k] EXCEPT !.step = "exited", !.cause = "fail"]
  <2>1. /\ e \in Process /\ e.step = "exited" /\ e.cause = "fail" /\ e.overdue = proc[k].overdue
        /\ proc' = [proc EXCEPT ![k] = e]
    BY <1>0, <1>1, <1>6 DEF Inv, TypeOK
  <2> HIDE DEF e
  <2> QED
    BY <1>4, <1>6, <2>1
<1> QED
  BY <1>3, <1>5, <1>6 DEF ManagerStarts

\* The deadline marks the process of the run, if there still is one.
LEMMA DeadlineSettles ==
  ASSUME Inv, PassDeadline
  PROVE  Settling
<1>1. launch' = launch /\ unit' = unit
  BY DEF PassDeadline
<1>2. /\ proc' \in [Launches -> Process]
      /\ \A k \in Launches :
           /\ proc'[k].step = proc[k].step /\ proc'[k].cause = proc[k].cause
           /\ proc'[k].dirty = proc[k].dirty
           /\ proc[k].step = "exited" \/ k # launch => proc'[k] = proc[k]
  <2> DEFINE New(k) == [proc[k] EXCEPT !.overdue = IF gate = "shut" THEN "waiting" ELSE "started"]
             Due(k) == pc \in Running /\ k = launch /\ proc[k].step # "exited"
  <2>1. proc' = [k \in Launches |-> IF Due(k) THEN New(k) ELSE proc[k]]
    BY DEF PassDeadline
  <2>2. \A k \in Launches : /\ New(k) \in Process /\ proc[k] \in Process
                            /\ New(k).step = proc[k].step /\ New(k).cause = proc[k].cause
                            /\ New(k).dirty = proc[k].dirty
    BY DEF Inv, TypeOK
  <2>3. \A k \in Launches : Due(k) => proc[k].step # "exited" /\ k = launch
    OBVIOUS
  <2> HIDE DEF New, Due
  <2> QED
    BY <2>1, <2>2, <2>3
<1>3. \A n \in Nonces : unit[n].phase # "absent" => unit[n].launch \in Launches
  BY UnitLaunch
<1>4. UnitInv'
  BY <1>1, <1>2, <1>3 DEF Inv, UnitInv
<1>5. ProcInv'
  BY <1>1, <1>2 DEF Inv, ProcInv, TypeOK, Launches
<1> QED
  BY <1>1, <1>2, <1>4, <1>5 DEF Settling, Inv, TypeOK, Empty, Still

\* The manager removes a cgroup, or forgets a failed unit.
LEMMA ManagerReapsSettles ==
  ASSUME Inv, NEW n \in Nonces, ManagerReaps(n)
  PROVE  Settling
<1>1. /\ unit' \in [Nonces -> UnitState]
      /\ unit'[n] = AbsentUnit \/ (/\ unit'[n].phase = "failed" /\ unit[n].phase = "stopping"
                                   /\ unit'[n].launch = unit[n].launch)
      /\ \A m \in Nonces \ {n} : unit'[m] = unit[m]
      /\ unit[n].phase \in {"stopping", "failed"}
  <2>0. unit \in [Nonces -> UnitState]
    BY DEF Inv, TypeOK
  <2>1. /\ unit[n].phase \in {"stopping", "failed"}
        /\ \/ unit' = [unit EXCEPT ![n] = AbsentUnit]
           \/ unit[n].phase = "stopping" /\ unit' = [unit EXCEPT ![n].phase = "failed"]
    BY <2>0 DEF ManagerReaps
  <2> QED
    BY <2>0, <2>1, AbsentUnitType
<1>2. launch' = launch /\ proc' = proc
  BY DEF ManagerReaps
<1>3. UnitInv' /\ ProcInv'
  BY <1>1, <1>2 DEF AbsentUnit, Inv, UnitInv, ProcInv
<1> QED
  BY <1>1, <1>2, <1>3 DEF AbsentUnit, Settling, Inv, TypeOK, Empty, Still

\* Every step but a launch.
LEMMA NextSettles ==
  ASSUME Inv, Next, ~Launch
  PROVE  Settling
<1>1. CASE UNCHANGED <<launch, unit, proc>>
  BY <1>1, NothingMoves
<1>2. CASE ListOrphans
  <2>1. \E S \in SUBSET Nonces : Kill(S, "fail")
    BY <1>2 DEF ListOrphans
  <2> QED
    BY <1>2, <2>1, KillSettles DEF ListOrphans
<1>3. CASE Abort \/ ManagerFails
  <2>1. launch' = launch /\ (\/ UNCHANGED <<unit, proc>>
                             \/ att.bound /\ \E S \in SUBSET {att.nonce} : Kill(S, "fail")
                             \/ \E S \in SUBSET {} : Kill(S, "fail"))
    BY <1>3 DEF Abort, ManagerFails
  <2>3. pc \in Attempt => att.nonce \in Nonces
    BY DEF Inv, QuietInv
  <2>4. pc \in Attempt
    BY <1>3 DEF Abort, ManagerFails, Attempt, Running
  <2> QED
    BY <2>1, <2>3, <2>4, NothingMoves, KillSettles
<1>4. ASSUME NEW n \in Nonces, RuntimeMax(n) \/ StopWithSupervisor(n) PROVE Settling
  BY <1>4, KillSettles DEF RuntimeMax, StopWithSupervisor, WorkerEnds
<1> QED
  BY <1>1, <1>2, <1>3, <1>4, WorkerSettles, ManagerStartsSettles, ManagerReapsSettles,
     DeadlineSettles
  DEF Next, StartDaemon, CrashDaemon, Daemon, FinishReconcile, FailReconcile, RefuseLaunch,
    Observe, BindLive, OpenStartGate, ReadReport, MeasureTimeout, FinalSample, DrainOutput,
    FinishRun, RefuseRun, ConfirmReap, CleanupUnconfirmed, Diagnose, Fail, Respond, Clock,
    PassDeadline, PassReapDeadline, PeerLeaves, StageRequest, Manager
-----------------------------------------------------------------------------
(* The types, the signatures, and the steps that only move the world.      *)

\* The records of an attempt.
AttemptType ==
  [nonce : Nonces \cup {NoNonce}, inv : BOOLEAN, bound : BOOLEAN,
   result : Kinds \cup {"none", "occupied", "error", "unconfirmed"},
   late : BOOLEAN, peer : BOOLEAN]

\* Every step keeps the types of the daemon.
LEMMA NextTypes ==
  ASSUME Inv, Next
  PROVE  /\ att' \in AttemptType
         /\ pc' \in Stopped \cup Startup \cup Attempt \cup {"serving"}
         /\ gate' \in {"shut", "start", "release"}
<1>0. /\ att \in AttemptType /\ gate \in {"shut", "start", "release"}
      /\ pc \in Stopped \cup Startup \cup Attempt \cup {"serving"}
  BY DEF Inv, TypeOK, AttemptType
<1>1. NoAttempt \in AttemptType
  BY DEF NoAttempt, AttemptType
<1>2. \A r \in Kinds \cup {"none", "occupied", "error", "unconfirmed"} :
        /\ [NoAttempt EXCEPT !.nonce = att.nonce, !.result = r] \in AttemptType
        /\ [att EXCEPT !.result = r, !.late = FALSE, !.peer = FALSE] \in AttemptType
  BY <1>0, <1>1 DEF AttemptType
<1>3. /\ \A n \in Nonces : [NoAttempt EXCEPT !.nonce = n, !.peer = TRUE] \in AttemptType
      /\ [att EXCEPT !.inv = TRUE] \in AttemptType /\ [att EXCEPT !.bound = TRUE] \in AttemptType
      /\ [att EXCEPT !.late = TRUE] \in AttemptType /\ [att EXCEPT !.peer = FALSE] \in AttemptType
  BY <1>0, <1>1 DEF AttemptType
<1>4. \A r \in Kinds \cup {"none", "occupied", "error", "unconfirmed"} :
        Answer(r) \/ GiveUp(r) => /\ att' \in AttemptType
                                  /\ pc' \in Attempt
  BY <1>2 DEF Answer, GiveUp, Attempt
<1>5. att' \in AttemptType
  BY <1>0, <1>1, <1>3, <1>4 DEF Kinds, Next, StartDaemon, CrashDaemon, ServiceEnds, Daemon,
    ListOrphans, FinishReconcile, FailReconcile, RefuseLaunch, Launch, Observe, BindLive,
    OpenStartGate, ReadReport, MeasureTimeout, FinalSample, DrainOutput, FinishRun, RefuseRun,
    Abort, ConfirmReap, CleanupUnconfirmed, Diagnose, ManagerFails, Fail, Respond, Clock,
    PassDeadline, PassReapDeadline, PeerLeaves, StageRequest, Worker, MemoryEvent, Manager,
    ManagerStarts, RuntimeMax, StopWithSupervisor, ManagerReaps
<1>6. pc' \in Stopped \cup Startup \cup Attempt \cup {"serving"}
  BY <1>0, <1>4 DEF Kinds, Stopped, Startup, Attempt, Running, Next, StartDaemon, CrashDaemon,
    ServiceEnds, Daemon, ListOrphans, FinishReconcile, FailReconcile, RefuseLaunch, Launch,
    Observe, BindLive, OpenStartGate, ReadReport, MeasureTimeout, FinalSample, DrainOutput,
    FinishRun, RefuseRun, Abort, ConfirmReap, CleanupUnconfirmed, Diagnose, ManagerFails, Fail,
    Respond, Clock, PassDeadline, PassReapDeadline, PeerLeaves, StageRequest, Worker,
    MemoryEvent, Manager, ManagerStarts, RuntimeMax, StopWithSupervisor, ManagerReaps
<1>7. gate' \in {"shut", "start", "release"}
  BY <1>0 DEF Next, StartDaemon, CrashDaemon, ServiceEnds, Daemon, ListOrphans, FinishReconcile,
    FailReconcile, RefuseLaunch, Launch, Observe, BindLive, OpenStartGate, ReadReport,
    MeasureTimeout, FinalSample, DrainOutput, FinishRun, RefuseRun, Abort, ConfirmReap,
    CleanupUnconfirmed, Diagnose, ManagerFails, Fail, Respond, Clock, PassDeadline,
    PassReapDeadline, PeerLeaves, StageRequest, Worker, MemoryEvent, Manager, ManagerStarts,
    RuntimeMax, StopWithSupervisor, ManagerReaps
<1> QED
  BY <1>5, <1>6, <1>7

\* The books of the daemon: staged inputs, orphans, deadlines, signatures.
LEMMA NextBooks ==
  ASSUME Inv, Next
  PROVE  /\ staged' \subseteq Nonces /\ orphans' \subseteq Nonces /\ reapLate' \in BOOLEAN
         /\ crashes' \in 0 .. MaxCrash
         /\ signed' = signed \/ (/\ Respond /\ att.result \in Kinds
                                 /\ signed' = signed \cup {[launch |-> launch, kind |-> att.result]})
<1>0. /\ staged \subseteq Nonces /\ orphans \subseteq Nonces /\ reapLate \in BOOLEAN
      /\ crashes \in 0 .. MaxCrash
  BY DEF Inv, TypeOK
<1>1. crashes' = crashes \/ (crashes < MaxCrash /\ crashes' = crashes + 1)
  BY DEF Next, StartDaemon, CrashDaemon, Daemon, ListOrphans, FinishReconcile,
    FailReconcile, RefuseLaunch, Launch, Observe, BindLive, OpenStartGate, ReadReport,
    MeasureTimeout, FinalSample, DrainOutput, FinishRun, RefuseRun, Abort, ConfirmReap,
    CleanupUnconfirmed, Diagnose, ManagerFails, Fail, Respond, Clock, PassDeadline,
    PassReapDeadline, PeerLeaves, StageRequest, Worker, MemoryEvent, Manager, ManagerStarts,
    RuntimeMax, StopWithSupervisor, ManagerReaps
<1>2. /\ staged' \subseteq Nonces /\ orphans' \subseteq Nonces /\ reapLate' \in BOOLEAN
      /\ signed' = signed \/ (/\ Respond /\ att.result \in Kinds
                              /\ signed' = signed \cup {[launch |-> launch, kind |-> att.result]})
  BY <1>0 DEF Next, StartDaemon, CrashDaemon, ServiceEnds, Daemon, ListOrphans, FinishReconcile,
    FailReconcile, RefuseLaunch, Launch, Observe, BindLive, OpenStartGate, ReadReport,
    MeasureTimeout, FinalSample, DrainOutput, FinishRun, RefuseRun, Abort, ConfirmReap,
    CleanupUnconfirmed, Diagnose, ManagerFails, Fail, Respond, Clock, PassDeadline,
    PassReapDeadline, PeerLeaves, StageRequest, Worker, MemoryEvent, Manager, ManagerStarts,
    RuntimeMax, StopWithSupervisor, ManagerReaps
<1> QED
  BY <1>0, <1>1, <1>2, SupervisorAssumption

\* A step in which the daemon stands still: the others move, a deadline passes,
\* the peer leaves.
Standing ==
  /\ pc' = pc /\ gate' = gate /\ orphans' = orphans /\ staged' = staged
  /\ att'.nonce = att.nonce /\ att'.bound = att.bound /\ att'.result = att.result

\* A process that was gone stays as it was; one that had reported stays so.
LEMMA StandingKeeps ==
  ASSUME Inv, Settling, Standing
  PROVE  QuietInv' /\ BoundInv' /\ RunInv' /\ ResultInv'
<1>1. QuietInv'
  <2>1. \A n \in Nonces : /\ Empty(n) => Empty(n)'
                          /\ unit[n].phase # "requested" => unit'[n].phase # "requested"
                          /\ Still(n) /\ n \notin staged /\ pc \notin Stopped => Still(n)'
    BY DEF Settling
  <2>2. /\ pc' = pc /\ orphans' = orphans /\ att'.nonce = att.nonce /\ att'.result = att.result
        /\ staged' = staged /\ QuietInv /\ (pc = "responding" => pc \in Attempt)
    BY DEF Inv, Standing, Attempt
  <2>3. /\ pc \in Attempt \cup {"reaping", "serving"} => pc \notin Stopped
        /\ pc \in {"reaping", "serving"} => pc \notin Attempt
        /\ pc = "staged" => pc \in Attempt
    BY DEF Attempt, Running, Stopped
  <2>4. pc = "staged" => Still(att.nonce)'
    <3>1. pc = "staged" => att.nonce \in Nonces /\ Empty(att.nonce)
      BY <2>2, <2>3 DEF QuietInv, Still, Empty
    <3> QED
      BY <2>1, <2>2, <3>1 DEF Still, Empty
  <2> QED
    BY <2>1, <2>2, <2>3, <2>4 DEF QuietInv
<1>2. BoundInv'
  <2>1. CASE ~att.bound
    BY <2>1 DEF BoundInv, Standing
  <2>2. CASE launch \in Launches /\ proc[launch].step = "exited"
    BY <2>2 DEF Inv, BoundInv, Standing, Settling
  <2>3. ASSUME NEW n \in Nonces, n = att.nonce, Sampled(n), att.bound PROVE BoundInv'
    <3>1. launch \in Launches
      BY <2>3, UnitLaunch DEF Sampled
    <3>2. unit'[n] = unit[n] \/ proc'[launch].step = "exited"
      BY <2>3 DEF Settling, Sampled
    <3> QED
      BY <2>3, <3>1, <3>2 DEF Inv, BoundInv, Standing, Settling, Sampled
  <2> QED
    BY <2>1, <2>2, <2>3 DEF Inv, BoundInv
<1>3. RunInv'
  BY DEF Inv, RunInv, Standing, Settling, Attempt, Running
<1>4. ResultInv'
  <2>1. pc \in {"aborting", "confirming"} => launch \in Launches
    BY DEF Inv, RunInv, Attempt
  <2>2. pc \in {"aborting", "confirming", "responding"} => ~PassDeadline
    BY DEF PassDeadline, Running
  <2> QED
    BY <2>1, <2>2 DEF Inv, ResultInv, Standing, Settling, GateOf, Kinds
<1> QED
  BY <1>1, <1>2, <1>3, <1>4
-----------------------------------------------------------------------------
(* The steps of the daemon.                                                *)

\* Start, end and death of the service; the staging of a request.
LEMMA ServiceKeeps ==
  ASSUME Inv, Settling,
         \/ StartDaemon \/ CrashDaemon \/ FailReconcile \/ Fail \/ ListOrphans \/ FinishReconcile
         \/ Respond \/ \E n \in Nonces : StageRequest(n)
  PROVE  QuietInv' /\ BoundInv' /\ RunInv' /\ ResultInv'
<1> USE DEF Stopped, Startup, Attempt, Running
<1>0. pc' \in {"down", "held", "listing", "reaping", "serving", "staged"}
  BY DEF StartDaemon, CrashDaemon, FailReconcile, Fail, ServiceEnds, ListOrphans,
    FinishReconcile, Respond, StageRequest
<1>1. RunInv' /\ ResultInv'
  BY <1>0 DEF RunInv, ResultInv
<1>2. BoundInv'
  <2>1. CASE att' = NoAttempt \/ \E n \in Nonces : StageRequest(n)
    <3>1. att'.bound = FALSE
      <4>1. NoAttempt.bound = FALSE
        BY DEF NoAttempt
      <4>2. \A n \in Nonces : [NoAttempt EXCEPT !.nonce = n, !.peer = TRUE].bound = FALSE
        BY DEF NoAttempt
      <4> QED
        BY <2>1, <4>1, <4>2 DEF StageRequest
    <3> QED
      BY <3>1 DEF BoundInv
  <2>2. CASE StartDaemon \/ ListOrphans \/ FinishReconcile
    <3>1. att' = att /\ pc' \notin {"staged", "observing", "binding"}
      BY <2>2 DEF StartDaemon, ListOrphans, FinishReconcile
    <3>2. CASE ~att.bound
      BY <3>1, <3>2 DEF BoundInv
    <3>3. CASE att.bound
      <4>1. CASE launch \in Launches /\ proc[launch].step = "exited"
        BY <3>1, <4>1 DEF BoundInv, Settling
      <4>2. ASSUME NEW n \in Nonces, n = att.nonce, Sampled(n) PROVE BoundInv'
        <5>1. launch \in Launches
          BY <4>2, UnitLaunch DEF Sampled
        <5>2. unit'[n] = unit[n] \/ proc'[launch].step = "exited"
          BY <4>2 DEF Settling, Sampled
        <5> QED
          BY <3>1, <4>2, <5>1, <5>2 DEF BoundInv, Settling, Sampled
      <4> QED
        BY <3>3, <4>1, <4>2 DEF Inv, BoundInv
    <3> QED
      BY <3>2, <3>3
  <2> QED
    BY <2>1, <2>2 DEF CrashDaemon, FailReconcile, Fail, ServiceEnds, Respond
<1>3. QuietInv'
  <2>1. CASE StartDaemon
    BY <2>1 DEF StartDaemon, Inv, QuietInv
  <2>2. CASE ListOrphans
    <3>1. /\ pc' = "reaping" /\ orphans' = {n \in Nonces : Loaded(n)}
          /\ staged' = staged /\ staged = {} /\ pc \notin Stopped
      BY <2>2 DEF ListOrphans, Inv, QuietInv
    <3>2. \A n \in Nonces \ orphans' : Still(n)
      BY <3>1 DEF Loaded, Still, Inv, TypeOK
    <3>3. \A n \in Nonces \ orphans' : Still(n)'
      BY <3>1, <3>2 DEF Settling
    <3> QED
      BY <3>1, <3>3 DEF QuietInv
  <2>3. CASE FinishReconcile
    BY <2>3 DEF FinishReconcile, Inv, QuietInv, Empty, Still
  <2>4. ASSUME NEW n \in Nonces, StageRequest(n) PROVE QuietInv'
    <3>1. /\ pc' = "staged" /\ att'.nonce = n /\ unit' = unit /\ pc = "serving"
          /\ staged' = staged \cup {n} /\ unit[n].phase # "requested"
      BY <2>4 DEF StageRequest, NoAttempt
    <3> QED
      BY <3>1 DEF Inv, QuietInv, Still
  <2>5. CASE Respond
    <3>1. /\ pc = "responding" /\ pc' = "serving" /\ unit' = unit
          /\ staged' = staged \ {att.nonce} /\ Empty(att.nonce)
      BY <2>5 DEF Respond, Inv, QuietInv
    <3>2. staged' = {} /\ \A n \in Nonces : Still(n)
      BY <3>1 DEF Inv, QuietInv, Empty, Still
    <3> QED
      BY <3>1, <3>2 DEF QuietInv, Still
  <2>6. CASE pc' \in Stopped /\ staged' = {}
    BY <2>6 DEF QuietInv
  <2> QED
    BY <2>1, <2>2, <2>3, <2>4, <2>5, <2>6 DEF CrashDaemon, FailReconcile, Fail, ServiceEnds
<1> QED
  BY <1>1, <1>2, <1>3

\* In an attempt only the current name can have a process, whatever the step.
LEMMA OthersStayStill ==
  ASSUME Inv, Settling, pc \in Attempt, att'.nonce = att.nonce, staged' = staged
  PROVE  /\ att'.nonce \in Nonces /\ staged' \subseteq {att'.nonce}
         /\ \A n \in Nonces \ {att'.nonce} : Still(n)'
<1>1. pc \notin Stopped
  BY DEF Attempt, Running, Stopped
<1> QED
  BY <1>1 DEF Inv, QuietInv, Settling

\* The answers: of an attempt that ends here nothing but the result is kept.
LEMMA AnswerKeeps ==
  ASSUME Inv, Settling, pc \in Attempt, staged' = staged,
         NEW r \in {"occupied", "error", "unconfirmed", "complete", "oom"}, Answer(r),
         r \in {"occupied", "complete", "oom"} => Empty(att.nonce),
         r \in {"complete", "oom"} => launch \in Launches /\ proc[launch].step = "exited",
         r = "complete" => proc[launch].cause = "ok" /\ proc[launch].dirty # "run" /\ proc[launch].overdue = "no",
         r = "oom" => proc[launch].cause = "oom"
  PROVE  QuietInv' /\ BoundInv' /\ RunInv' /\ ResultInv'
<1> USE DEF Attempt, Running, Startup, Kinds
<1>1. /\ pc' = "responding" /\ att'.nonce = att.nonce /\ att'.result = r /\ att'.bound = FALSE
  BY DEF Answer, NoAttempt
<1>2. QuietInv'
  <2>1. r \in {"occupied", "complete", "oom"} => Empty(att.nonce)'
    BY <1>1, OthersStayStill DEF Settling, Empty
  <2> QED
    BY <1>1, <2>1, OthersStayStill DEF QuietInv
<1>3. BoundInv' /\ RunInv'
  BY <1>1 DEF BoundInv, RunInv
<1>4. ResultInv'
  BY <1>1 DEF ResultInv, Settling
<1> QED
  BY <1>2, <1>3, <1>4

\* The run up to the start gate.
LEMMA StartKeeps ==
  ASSUME Inv, Settling, Observe \/ BindLive \/ OpenStartGate
  PROVE  QuietInv' /\ BoundInv' /\ RunInv' /\ ResultInv'
<1> USE DEF Attempt, Running, Startup
<1>1. /\ pc \in {"observing", "binding", "starting"} /\ pc' \in {"binding", "starting", "reading"}
      /\ att'.nonce = att.nonce /\ att' \in AttemptType
      /\ launch' = launch /\ unit' = unit /\ proc' = proc /\ staged' = staged
      /\ pc' = "binding" => att'.bound = att.bound /\ pc = "observing"
      /\ pc' = "starting" => Sampled(att.nonce)
      /\ pc' = "reading" => gate' = "start" /\ att' = att
  BY DEF Observe, BindLive, OpenStartGate, Inv, TypeOK, AttemptType
<1>2. launch \in Launches
  BY <1>1 DEF Inv, RunInv
<1>3. QuietInv'
  BY <1>1, OthersStayStill DEF QuietInv
<1>4. RunInv' /\ ResultInv'
  BY <1>1, <1>2 DEF RunInv, ResultInv
<1>5. BoundInv'
  BY <1>1, <1>2, OthersStayStill DEF Inv, BoundInv, Sampled
<1> QED
  BY <1>3, <1>4, <1>5

\* The run from the report to the exit.
LEMMA ReportKeeps ==
  ASSUME Inv, Settling, ReadReport \/ FinalSample \/ DrainOutput
  PROVE  QuietInv' /\ BoundInv' /\ RunInv' /\ ResultInv'
<1> USE DEF Attempt, Running, Startup
<1>1. /\ pc \in {"reading", "sampling", "draining"} /\ pc' \in {"sampling", "draining", "finishing"}
      /\ att' = att /\ launch' = launch /\ unit' = unit /\ proc' = proc /\ staged' = staged
      /\ pc' = "sampling" => proc[launch].step = "reported"
      /\ pc' = "draining" => pc = "sampling" /\ proc[launch].dirty = "no"
      /\ pc' = "finishing" => pc = "draining" /\ proc[launch].step = "exited"
  BY DEF ReadReport, FinalSample, DrainOutput, EventsClean
<1>2. launch \in Launches
  BY <1>1 DEF Inv, RunInv
<1>3. QuietInv'
  BY <1>1, OthersStayStill DEF QuietInv
<1>4. RunInv' /\ ResultInv'
  BY <1>1, <1>2 DEF Inv, RunInv, ResultInv
<1>5. BoundInv'
  BY <1>1, <1>2 DEF Inv, BoundInv, Sampled
<1> QED
  BY <1>3, <1>4, <1>5

\* Giving up, with a measured timeout or an error.
LEMMA GiveUpKeeps ==
  ASSUME Inv, Settling, UNCHANGED <<gate, launch, unit, proc, staged>>, pc \in Running,
         NEW r \in {"timeout", "error"}, GiveUp(r),
         r = "timeout" => /\ gate # "release" /\ proc[launch].cause # "ok"
                          /\ proc[launch].overdue = "started"
  PROVE  QuietInv' /\ BoundInv' /\ RunInv' /\ ResultInv'
<1> USE DEF Attempt, Running, Startup
<1>1. /\ pc' = "aborting" /\ att'.nonce = att.nonce /\ att'.result = r /\ att'.bound = att.bound
  BY DEF GiveUp, Inv, TypeOK
<1>2. launch \in Launches
  BY <1>1 DEF Inv, RunInv
<1>3. QuietInv'
  BY <1>1, OthersStayStill DEF QuietInv
<1>4. RunInv' /\ ResultInv'
  BY <1>1, <1>2 DEF RunInv, ResultInv
<1>5. BoundInv'
  BY <1>1, <1>2 DEF Inv, BoundInv, Sampled
<1> QED
  BY <1>3, <1>4, <1>5

\* The wait for the reaping: after it the process is gone, and a timeout's
\* process did not exit with status zero.
LEMMA CleanupKeeps ==
  ASSUME Inv, Settling, ConfirmReap \/ (Abort /\ att.inv)
  PROVE  QuietInv' /\ BoundInv' /\ RunInv' /\ ResultInv'
<1> USE DEF Attempt, Running, Startup, Kinds
<1>1. CASE Abort /\ att.inv
  <2>1. /\ pc = "aborting" /\ gate' = gate /\ launch' = launch /\ staged' = staged
        /\ (pc' = "confirming" /\ att' = att) \/ Answer("unconfirmed")
    BY <1>1 DEF Abort
  <2>2. CASE Answer("unconfirmed")
    BY <2>1, <2>2, AnswerKeeps
  <2>3. CASE pc' = "confirming" /\ att' = att
    <3>1. launch \in Launches
      BY <2>1 DEF Inv, RunInv
    <3>2. QuietInv' /\ RunInv'
      BY <2>1, <2>3, <3>1, OthersStayStill DEF QuietInv, RunInv
    <3>3. ResultInv'
      <4>1. /\ proc[launch].cause # "ok" /\ gate # "release" => proc'[launch].cause # "ok"
            /\ proc'[launch].overdue = proc[launch].overdue
        BY <2>1, <3>1 DEF Settling, GateOf, PassDeadline
      <4> QED
        BY <2>1, <2>3, <4>1 DEF Inv, ResultInv
    <3>4. BoundInv'
      <4>1. CASE proc[launch].step = "exited"
        BY <2>1, <2>3, <3>1, <4>1 DEF BoundInv, Settling
      <4>2. ASSUME NEW n \in Nonces, n = att.nonce, Sampled(n) PROVE BoundInv'
        BY <2>1, <2>3, <3>1, <4>2 DEF BoundInv, Settling, Sampled
      <4> QED
        BY <2>1, <2>3, <4>1, <4>2 DEF Inv, BoundInv
    <3> QED
      BY <3>2, <3>3, <3>4
  <2> QED
    BY <2>1, <2>2, <2>3
<1>2. CASE ConfirmReap
  <2>1. /\ pc = "confirming" /\ Reaped(att.nonce) /\ att' = att /\ gate' = gate
        /\ launch' = launch /\ unit' = unit /\ proc' = proc /\ staged' = staged
        /\ pc' = IF att.result = "timeout" THEN "responding" ELSE "diagnosing"
    BY <1>2 DEF ConfirmReap
  <2>2. launch \in Launches /\ att.nonce \in Nonces
    BY <2>1 DEF Inv, RunInv, QuietInv
  <2>3. Empty(att.nonce) /\ proc[launch].step = "exited"
    BY <2>1, <2>2 DEF Reaped, Empty, Inv, UnitInv, BoundInv, Sampled
  <2>4. QuietInv'
    BY <2>1, <2>3, OthersStayStill DEF QuietInv, Empty
  <2>5. RunInv' /\ BoundInv'
    BY <2>1, <2>2, <2>3 DEF RunInv, BoundInv
  <2>6. ResultInv'
    BY <2>1, <2>2, <2>3 DEF Inv, ResultInv
  <2> QED
    BY <2>4, <2>5, <2>6
<1> QED
  BY <1>1, <1>2

\* The launch: a fresh number, a name that is free, a process that has not
\* begun.
LEMMA LaunchKeeps ==
  ASSUME Inv, Launch
  PROVE  /\ launch' \in 0 .. MaxLaunch
         /\ unit' \in [Nonces -> UnitState]
         /\ UnitInv' /\ ProcInv' /\ QuietInv' /\ BoundInv' /\ RunInv' /\ OverdueInv' /\ ResultInv'
<1> USE DEF Attempt, Running, Startup
<1>0. /\ pc = "staged" /\ pc' = "observing" /\ att' = att /\ proc' = proc
      /\ launch' = launch + 1 /\ launch < MaxLaunch /\ launch \in 0 .. MaxLaunch
      /\ staged' = staged /\ gate' = "shut" /\ ~att.late
      /\ unit' = [unit EXCEPT ![att.nonce] = [phase |-> "requested", launch |-> launch']]
  BY DEF Launch, Inv, TypeOK
<1>1. att.nonce \in Nonces /\ staged \subseteq {att.nonce} /\ \A n \in Nonces : Still(n)
  BY <1>0 DEF Inv, QuietInv
<1>2. launch + 1 \in Launches /\ launch + 1 \in 0 .. MaxLaunch /\ launch + 1 > launch
  BY <1>0, SupervisorAssumption DEF Launches
<1>3. /\ unit' \in [Nonces -> UnitState]
      /\ unit'[att.nonce].phase = "requested" /\ unit'[att.nonce].launch = launch + 1
      /\ \A n \in Nonces \ {att.nonce} : unit'[n] = unit[n]
  BY <1>0, <1>1, <1>2 DEF Inv, TypeOK
<1>4. UnitInv'
  <2>1. proc[launch + 1].step = "none"
    BY <1>2 DEF Inv, ProcInv, NoProcess
  <2>2. \A n \in Nonces : unit[n].phase # "absent" =>
          unit[n].launch \in 1 .. launch + 1 /\ unit[n].launch # launch + 1
    BY <1>0, SupervisorAssumption DEF Inv, UnitInv
  <2>3. launch + 1 \in 1 .. launch + 1
    BY <1>0, SupervisorAssumption
  <2> QED
    BY <1>0, <1>1, <1>3, <2>1, <2>2, <2>3 DEF Inv, UnitInv
<1>5. ProcInv'
  <2>1. \A k \in Launches : k > launch + 1 => k > launch
    BY <1>0, SupervisorAssumption DEF Launches
  <2> QED
    BY <1>0, <2>1 DEF Inv, ProcInv
<1>6. QuietInv'
  BY <1>0, <1>1, <1>3 DEF QuietInv, Still
<1>7. BoundInv' /\ RunInv' /\ ResultInv'
  BY <1>0, <1>2 DEF Inv, BoundInv, RunInv, ResultInv
<1>8. OverdueInv'
  <2>1. proc[launch + 1].overdue = "no"
    BY <1>2 DEF Inv, ProcInv, NoProcess
  <2> QED
    BY <1>0, <2>1 DEF OverdueInv
<1> QED
  BY <1>0, <1>2, <1>3, <1>4, <1>5, <1>6, <1>7, <1>8

\* The deadline marks what still runs; afterwards the mark stays, and no gate
\* is opened that was shut when it passed.
LEMMA OverdueKeeps ==
  ASSUME Inv, Next, Settling, ~Launch
  PROVE  OverdueInv'
<1> USE DEF Running
<1>1. CASE pc' \notin Running
  BY <1>1 DEF OverdueInv
<1>2. CASE pc' \in Running
  <2>0. launch' = launch
    BY DEF Settling
  <2>1. /\ pc \in Running
        /\ att'.late = att.late \/ PassDeadline
        /\ gate' = gate \/ OpenStartGate \/ FinalSample
        /\ pc' = pc \/ Observe \/ BindLive \/ OpenStartGate \/ ReadReport \/ FinalSample
                    \/ DrainOutput
    BY <1>2 DEF Inv, TypeOK, Next, StartDaemon, CrashDaemon, ServiceEnds, Daemon, ListOrphans,
      FinishReconcile, FailReconcile, RefuseLaunch, Observe, BindLive, OpenStartGate,
      ReadReport, MeasureTimeout, FinalSample, DrainOutput, FinishRun, RefuseRun, Abort, ConfirmReap,
      CleanupUnconfirmed, Diagnose, ManagerFails, Fail, Respond, Clock, PassDeadline, Answer, GiveUp,
      PassReapDeadline, PeerLeaves, StageRequest, Worker, MemoryEvent, Manager, ManagerStarts,
      RuntimeMax, StopWithSupervisor, ManagerReaps
  <2>2. launch \in Launches
    BY <2>1 DEF Inv, RunInv, Attempt
  <2>3. CASE PassDeadline
    <3>1. /\ pc' = pc /\ gate' = gate /\ att'.late
          /\ proc[launch].step # "exited" /\ gate # "shut" => proc'[launch].overdue = "started"
      BY <2>1, <2>2, <2>3 DEF PassDeadline, Inv, TypeOK
    <3>2. proc[launch].step = "exited" => proc'[launch] = proc[launch]
      BY <2>2 DEF Settling
    <3> QED
      BY <2>0, <3>1, <3>2 DEF Inv, OverdueInv
  <2>4. CASE ~PassDeadline
    <3>1. /\ proc'[launch].overdue = proc[launch].overdue /\ att'.late = att.late
          /\ proc[launch].step = "exited" => proc'[launch] = proc[launch]
      BY <2>1, <2>2, <2>4 DEF Settling
    <3>2. /\ OpenStartGate => pc' = "reading" /\ ~att.late
          /\ FinalSample => pc' = "draining" /\ ~att.late
          /\ pc' \in {"binding", "starting"} /\ pc' # pc => pc \in {"observing", "binding"} /\ gate' = gate
          /\ pc' = "observing" => pc = "observing" /\ gate' = gate
          /\ pc' \in {"binding", "starting"} => gate' = gate
      BY <2>1 DEF Observe, BindLive, OpenStartGate, ReadReport, FinalSample, DrainOutput
    <3> QED
      BY <2>0, <2>1, <3>1, <3>2 DEF Inv, OverdueInv
  <2> QED
    BY <2>3, <2>4
<1> QED
  BY <1>1, <1>2
-----------------------------------------------------------------------------
(* The theorems.                                                           *)

\* What a step that is not a launch keeps of the daemon's knowledge.
LEMMA DaemonKeeps ==
  ASSUME Inv, Next, Settling, ~Launch
  PROVE  QuietInv' /\ BoundInv' /\ RunInv' /\ ResultInv'
<1>1. CASE Standing
  BY <1>1, StandingKeeps
<1>2. CASE \/ StartDaemon \/ CrashDaemon \/ FailReconcile \/ Fail \/ ListOrphans \/ FinishReconcile
           \/ Respond \/ \E n \in Nonces : StageRequest(n)
  BY <1>2, ServiceKeeps
<1>3. CASE Observe \/ BindLive \/ OpenStartGate
  BY <1>3, StartKeeps
<1>4. CASE ReadReport \/ FinalSample \/ DrainOutput
  BY <1>4, ReportKeeps
<1>5. CASE ConfirmReap \/ (Abort /\ att.inv)
  BY <1>5, CleanupKeeps
<1>6. CASE RefuseLaunch
  <2>1. /\ pc = "staged" /\ pc \in Attempt /\ staged' = staged
        /\ Answer("occupied") \/ Answer("error")
    BY <1>6 DEF RefuseLaunch, Attempt
  <2>2. Empty(att.nonce)
    BY <2>1 DEF Inv, QuietInv, Still, Empty
  <2> QED
    BY <2>1, <2>2, AnswerKeeps
<1>7. CASE FinishRun
  <2>1. /\ pc = "finishing" /\ pc \in Attempt /\ Answer("complete") /\ Empty(att.nonce)
        /\ proc[launch].cause = "ok" /\ staged' = staged /\ ~att.late /\ pc \in Running
    BY <1>7 DEF FinishRun, Attempt, Running
  <2>2. /\ launch \in Launches /\ proc[launch].step = "exited" /\ proc[launch].dirty # "run"
        /\ proc[launch].overdue = "no"
    BY <2>1 DEF Inv, RunInv, OverdueInv
  <2> QED
    BY <2>1, <2>2, AnswerKeeps
<1>8. CASE MeasureTimeout
  <2>1. /\ pc = "reading" /\ pc \in Running /\ Sampled(att.nonce) /\ GiveUp("timeout") /\ att.late
        /\ UNCHANGED <<gate, launch, unit, proc, staged>>
    BY <1>8 DEF MeasureTimeout, Running
  <2>2. gate = "start" /\ launch \in Launches /\ att.nonce \in Nonces
    BY <2>1 DEF Inv, RunInv, QuietInv, Attempt, Running
  <2>3. proc[launch].cause # "ok"
    BY <2>1, <2>2 DEF Inv, UnitInv, ProcInv, Sampled
  <2>4. proc[launch].overdue = "started"
    BY <2>1, <2>2 DEF Inv, UnitInv, OverdueInv, Sampled
  <2> QED
    BY <2>1, <2>2, <2>3, <2>4, GiveUpKeeps
<1>9. CASE RefuseRun
  BY <1>9, GiveUpKeeps DEF RefuseRun
<1>10. CASE (Abort /\ ~att.inv) \/ CleanupUnconfirmed
  BY <1>10, AnswerKeeps DEF Abort, CleanupUnconfirmed, Attempt
<1>11. CASE Diagnose
  <2>1. /\ pc = "diagnosing" /\ pc \in Attempt /\ staged' = staged
        /\ (OomVerified(att.nonce) /\ Answer("oom")) \/ Answer("error")
    BY <1>11 DEF Diagnose, Attempt
  <2>2. launch \in Launches /\ att.nonce \in Nonces
    BY <2>1 DEF Inv, RunInv, QuietInv, Attempt
  <2>3. OomVerified(att.nonce) => /\ Empty(att.nonce) /\ proc[launch].step = "exited"
                                  /\ proc[launch].cause = "oom"
    BY <2>2 DEF OomVerified, Empty, Inv, UnitInv
  <2> QED
    BY <2>1, <2>2, <2>3, AnswerKeeps
<1>12. CASE ManagerFails
  <2>1. \/ pc \in Attempt /\ staged' = staged /\ (Answer("error") \/ Answer("unconfirmed"))
        \/ pc \in Running /\ GiveUp("error") /\ UNCHANGED <<gate, launch, unit, proc, staged>>
    BY <1>12 DEF ManagerFails, Attempt, Running
  <2> QED
    BY <2>1, AnswerKeeps, GiveUpKeeps
<1>13. PassDeadline \/ PassReapDeadline \/ PeerLeaves => Standing
  BY DEF PassDeadline, PassReapDeadline, PeerLeaves, Standing, Inv, TypeOK
<1>14. \A n \in Nonces : Worker(n) \/ MemoryEvent(n) \/ Manager(n) => Standing
  BY DEF Worker, MemoryEvent, Manager, ManagerStarts, RuntimeMax, StopWithSupervisor,
    ManagerReaps, Standing
<1> QED
  BY <1>1, <1>2, <1>3, <1>4, <1>5, <1>6, <1>7, <1>8, <1>9, <1>10, <1>11, <1>12, <1>13, <1>14
  DEF Next, Daemon, Clock

\* Every step keeps the inductive invariant.
LEMMA StepInv == Inv /\ [Next]_vars => Inv'
<1> SUFFICES ASSUME Inv, [Next]_vars PROVE Inv'
  OBVIOUS
<1>1. CASE UNCHANGED vars
  BY <1>1 DEF vars, Inv, TypeOK, UnitInv, ProcInv, QuietInv, BoundInv, RunInv, OverdueInv,
    ResultInv, EvidenceIsTrue, Empty, Still, Sampled
<1>2. CASE Next
  <2>1. /\ UnitInv' /\ ProcInv' /\ QuietInv' /\ BoundInv' /\ RunInv' /\ OverdueInv' /\ ResultInv'
        /\ launch' \in 0 .. MaxLaunch
        /\ unit' \in [Nonces -> UnitState]
        /\ proc' \in [Launches -> Process]
        /\ \A k \in Launches : proc[k].step = "exited" => proc'[k] = proc[k]
    <3>1. CASE Launch
      <4>1. proc' = proc
        BY <3>1 DEF Launch
      <4> QED
        BY <3>1, <4>1, LaunchKeeps DEF Inv, TypeOK
    <3>2. CASE ~Launch
      BY <1>2, <3>2, NextSettles, DaemonKeeps, OverdueKeeps DEF Settling, Inv, TypeOK
    <3> QED
      BY <3>1, <3>2
  <2>2. signed' \subseteq [launch : Launches, kind : Kinds] /\ EvidenceIsTrue'
    <3>1. \A s \in signed : s.launch \in Launches /\ proc'[s.launch] = proc[s.launch]
      BY <2>1 DEF Inv, TypeOK, EvidenceIsTrue
    <3>2. CASE signed' = signed
      BY <3>1, <3>2 DEF Inv, TypeOK, EvidenceIsTrue
    <3>3. CASE /\ Respond /\ att.result \in Kinds
               /\ signed' = signed \cup {[launch |-> launch, kind |-> att.result]}
      <4> DEFINE new == [launch |-> launch, kind |-> att.result]
      <4>1. pc = "responding" /\ proc' = proc
        BY <3>3 DEF Respond
      <4>2. /\ launch \in Launches /\ proc[launch].step = "exited"
            /\ att.result = "complete" => proc[launch].cause = "ok" /\ proc[launch].dirty # "run" /\ proc[launch].overdue = "no"
            /\ att.result = "oom" => proc[launch].cause = "oom"
            /\ att.result = "timeout" => proc[launch].overdue = "started" /\ proc[launch].cause # "ok"
        BY <3>3, <4>1 DEF Inv, ResultInv
      <4>3. new \in [launch : Launches, kind : Kinds] /\ new.launch = launch /\ new.kind = att.result
        BY <3>3, <4>2
      <4> HIDE DEF new
      <4>4. signed' = signed \cup {new}
        BY <3>3 DEF new
      <4> QED
        BY <4>1, <4>2, <4>3, <4>4 DEF Inv, TypeOK, EvidenceIsTrue
    <3> QED
      BY <1>2, <3>2, <3>3, NextBooks
  <2>3. TypeOK'
    BY <1>2, <2>1, <2>2, NextTypes, NextBooks DEF TypeOK, AttemptType
  <2> QED
    BY <2>1, <2>2, <2>3 DEF Inv
<1> QED
  BY <1>1, <1>2

\* It holds in every reachable state.
LEMMA Invariance == Spec => []Inv
  BY InitInv, StepInv, PTL DEF Spec

\* Whenever the daemon accepts or serves work, no process is alive or undead but
\* the one of the current attempt, also none that a dead daemon asked for and the
\* manager came to start late, whatever the peer and the crashes did.
THEOREM ServingMeansQuietInvariant == Spec => []ServingMeansQuiet
<1>1. Inv => ServingMeansQuiet
  BY DEF Inv, QuietInv, Still, ServingMeansQuiet, Attempt
<1> QED
  BY <1>1, Invariance, PTL

\* What the daemon signs is true of the process it names, then and for ever.
THEOREM EvidenceIsTrueInvariant == Spec => []EvidenceIsTrue
<1>1. Inv => EvidenceIsTrue
  BY DEF Inv
<1> QED
  BY <1>1, Invariance, PTL
=============================================================================
