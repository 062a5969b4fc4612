--------------------------- MODULE TestSupervisor ---------------------------
(***************************************************************************)
(* The root supervisor of native test runs (crates/sley-test-runner).      *)
(*                                                                         *)
(* One daemon serves one connection at a time.  For an admitted request it *)
(* stages the worker's input, starts one transient systemd unit named      *)
(* after the request's nonce, waits until the manager shows the invocation *)
(* of this launch, binds its cgroup, opens the worker's start gate, reads  *)
(* the report, samples the cgroup, opens the release gate and waits for    *)
(* the exit; then it signs what happened.  Every wait is bounded by the    *)
(* wall deadline of the request, every cleanup by one reap deadline.  What *)
(* cannot be confirmed empty is never signed: the daemon exits with status *)
(* 78, which the packaged unit does not restart.                           *)
(*                                                                         *)
(* Three parties besides the daemon move on their own: the system manager  *)
(* (starts, stops and forgets units), the worker process (with the         *)
(* kernel's memory controller) and the requesting peer.  Clocks are two    *)
(* flags that time may raise at any step: "late" (the wall deadline has    *)
(* passed) and "reapLate" (the cleanup or start-up deadline has).          *)
(*                                                                         *)
(* External: the manager copies the worker's input when it carries out the *)
(* start (LoadCredential) and removes the runtime directory, and with it   *)
(* the input, when the service stops (RuntimeDirectory).  The request of a *)
(* dead daemon may still be carried out at any later time.                 *)
(***************************************************************************)
EXTENDS Naturals, FiniteSets

CONSTANTS
  Nonces,       \* attempt nonces; a nonce names a unit and an input file
  NoNonce,      \* no request is being served
  MaxLaunch,    \* bound: launches in one behaviour
  MaxCrash      \* bound: daemon deaths in one behaviour

ASSUME SupervisorAssumption ==
  /\ NoNonce \notin Nonces
  /\ MaxLaunch \in Nat \ {0}
  /\ MaxCrash \in Nat

VARIABLES
  pc,        \* where the daemon stands
  att,       \* the attempt it serves
  gate,      \* the last byte written to the stdin of the current launch
  launch,    \* launches so far; the last one is the current one
  unit,      \* the manager's and the kernel's view of every unit name
  proc,      \* what the worker process of every launch did
  staged,    \* worker inputs in the runtime directory
  orphans,   \* units the start-up reconciliation listed
  reapLate,  \* the cleanup deadline has passed
  signed,    \* measurements the daemon has signed
  crashes    \* daemon deaths so far

vars == <<pc, att, gate, launch, unit, proc, staged, orphans, reapLate,
          signed, crashes>>

Launches == 1 .. MaxLaunch

(* "down" restarts by itself; "held" is exit status 78. *)
Stopped == {"down", "held"}
Startup == {"listing", "reaping"}
Running == {"observing", "binding", "starting", "reading", "sampling",
            "draining", "finishing"}
Attempt == Running \cup {"staged", "aborting", "confirming", "diagnosing",
                         "responding"}
Kinds   == {"complete", "timeout", "oom"}

NoAttempt == [nonce |-> NoNonce, inv |-> FALSE, bound |-> FALSE,
              result |-> "none", late |-> FALSE, peer |-> FALSE]

(* What the process of a launch did; overdue is history: the wall deadline *)
(* passed before it had ended, and before or after it was let start.       *)
Process == [step : {"none", "blocked", "working", "reported", "exited"},
            dirty : {"no", "run", "after"},
            cause : {"none", "ok", "fail", "oom"},
            overdue : {"no", "waiting", "started"}]
UnitState == [phase : {"absent", "requested", "active", "stopping", "failed"},
              launch : 0 .. MaxLaunch]

NoProcess == [step |-> "none", dirty |-> "no", cause |-> "none",
              overdue |-> "no"]

AbsentUnit == [phase |-> "absent", launch |-> 0]

TypeOK ==
  /\ pc \in Stopped \cup Startup \cup Attempt \cup {"serving"}
  /\ att \in [nonce : Nonces \cup {NoNonce}, inv : BOOLEAN, bound : BOOLEAN,
              result : Kinds \cup {"none", "occupied", "error", "unconfirmed"},
              late : BOOLEAN, peer : BOOLEAN]
  /\ gate \in {"shut", "start", "release"}
  /\ launch \in 0 .. MaxLaunch
  /\ unit \in [Nonces -> UnitState]
  /\ proc \in [Launches -> Process]
  /\ staged \subseteq Nonces
  /\ orphans \subseteq Nonces
  /\ reapLate \in BOOLEAN
  /\ signed \subseteq [launch : Launches, kind : Kinds]
  /\ crashes \in 0 .. MaxCrash

Init ==
  /\ pc = "down"
  /\ att = NoAttempt
  /\ gate = "shut"
  /\ launch = 0
  /\ unit = [n \in Nonces |-> AbsentUnit]
  /\ proc = [k \in Launches |-> NoProcess]
  /\ staged = {}
  /\ orphans = {}
  /\ reapLate = FALSE
  /\ signed = {}
  /\ crashes = 0

-----------------------------------------------------------------------------
(* What the manager and the kernel answer.                                 *)

(* A unit the manager lists, whatever its state. *)
Loaded(n) == unit[n].phase \in {"active", "stopping", "failed"}

(* No process and no cgroup is left of the name. *)
Empty(n) == unit[n].phase \in {"absent", "failed"}

(* The exact process is alive in its cgroup: a sample can be taken. *)
Sampled(n) == unit[n].phase = "active" /\ unit[n].launch = launch

EventsClean == proc[launch].dirty = "no"

(* The invocation the manager shows started after this launch began. *)
FreshInvocation(n) == Loaded(n) /\ unit[n].launch = launch

(* The processes of the names in S are gone; their cgroups are not yet.    *)
(* "fail" is every end but exit status zero and an OOM kill; the counters  *)
(* of a process that did not end well are of no further use to anybody.    *)
KilledUnits(S) ==
  [n \in Nonces |-> IF n \in S /\ unit[n].phase = "active"
                    THEN [unit[n] EXCEPT !.phase = "stopping"]
                    ELSE unit[n]]

KilledProcs(S, cause) ==
  [k \in Launches |->
     IF \E n \in S : unit[n].phase = "active" /\ unit[n].launch = k
     THEN [proc[k] EXCEPT !.step = "exited", !.cause = cause,
                          !.dirty = IF cause = "ok" THEN @ ELSE "no"]
     ELSE proc[k]]

Kill(S, cause) == unit' = KilledUnits(S) /\ proc' = KilledProcs(S, cause)

-----------------------------------------------------------------------------
(* The daemon process: start, exit, death.                                 *)

(* The daemon ends.  Its pipes close, which takes nothing back that was    *)
(* written to them; its launcher dies with it, and the manager removes the *)
(* runtime directory.                                                      *)
ServiceEnds(to) ==
  /\ pc' = to
  /\ att' = NoAttempt
  /\ staged' = {}
  /\ orphans' = {}
  /\ reapLate' = FALSE

(* Restart=on-failure, or the operator after exit 78. *)
StartDaemon ==
  /\ pc \in Stopped
  /\ pc' = "listing"
  /\ UNCHANGED <<att, gate, launch, unit, proc, staged, orphans, reapLate,
                 signed, crashes>>

(* reconcile_orphans lists the manager's units and the cgroup tree and     *)
(* sends SIGKILL to every name found in either.  A nonzero status of that  *)
(* command is accepted, so the signal may have reached only some of them.  *)
ListOrphans ==
  /\ pc = "listing"
  /\ orphans' = {n \in Nonces : Loaded(n)}
  /\ \E S \in SUBSET orphans' : Kill(S, "fail")
  /\ pc' = "reaping"
  /\ UNCHANGED <<att, gate, launch, staged, reapLate, signed, crashes>>

\* Mutant of FinishReconcile: the kill is taken for the confirmation.
FinishReconcileUnconfirmed ==
  /\ pc = "reaping"
  /\ ~reapLate
  /\ pc' = "serving"
  /\ orphans' = {}
  /\ UNCHANGED <<att, gate, launch, unit, proc, staged, reapLate, signed,
                 crashes>>

(* Every listed unit is confirmed empty; the socket is bound. *)
FinishReconcile ==
  /\ pc = "reaping"
  /\ ~reapLate
  /\ \A n \in orphans : Empty(n)
  /\ pc' = "serving"
  /\ orphans' = {}
  /\ UNCHANGED <<att, gate, launch, unit, proc, staged, reapLate, signed,
                 crashes>>

(* A survivor at the deadline, an unreadable listing or a failed kill      *)
(* command ends the start.                                                 *)
FailReconcile ==
  /\ pc = "listing" \/ (pc = "reaping" /\ reapLate)
  /\ ServiceEnds("down")
  /\ UNCHANGED <<gate, launch, unit, proc, signed, crashes>>

CrashDaemon ==
  /\ pc \notin Stopped
  /\ crashes < MaxCrash
  /\ crashes' = crashes + 1
  /\ ServiceEnds("down")
  /\ UNCHANGED <<gate, launch, unit, proc, signed>>

-----------------------------------------------------------------------------
(* One connection up to the launch.                                        *)

(* authenticate_request, the program, profile, trust and wall checks       *)
(* passed and the input file was created; run_owned_system_unit takes the  *)
(* deadline.  The refusals before this point leave no state behind.  A     *)
(* nonce may come back, but not while the launch that used it is pending:  *)
(* callers reject used values (random_attempt_nonce).                      *)
StageRequest(n) ==
  /\ pc = "serving"
  /\ n \notin staged
  /\ unit[n].phase # "requested"
  /\ staged' = staged \cup {n}
  /\ att' = [NoAttempt EXCEPT !.nonce = n, !.peer = TRUE]
  /\ pc' = "staged"
  /\ UNCHANGED <<gate, launch, unit, proc, orphans, reapLate, signed, crashes>>

(* run_owned_system_unit returns; the guard and its view are dropped. *)
Answer(result) ==
  /\ att' = [NoAttempt EXCEPT !.nonce = att.nonce, !.result = result]
  /\ pc' = "responding"

(* The run ends through abort, which looks at neither the wall deadline    *)
(* nor the peer.                                                           *)
GiveUp(result) ==
  /\ att' = [att EXCEPT !.result = result, !.late = FALSE, !.peer = FALSE]
  /\ pc' = "aborting"

(* spawn_for_available_unit refuses: name occupied, peer lost, deadline. *)
RefuseLaunch ==
  /\ pc = "staged"
  /\ \/ Loaded(att.nonce) /\ Answer("occupied")
     \/ (att.late \/ ~att.peer) /\ Answer("error")
  /\ UNCHANGED <<gate, launch, unit, proc, staged, orphans, reapLate, signed,
                 crashes>>

(* The name is free: systemd-run is spawned with both gates shut. *)
Launch ==
  /\ pc = "staged"
  /\ att.peer
  /\ ~att.late
  /\ unit[att.nonce].phase = "absent"
  /\ launch < MaxLaunch
  /\ launch' = launch + 1
  /\ unit' = [unit EXCEPT ![att.nonce] = [phase |-> "requested",
                                          launch |-> launch']]
  /\ gate' = "shut"
  /\ pc' = "observing"
  /\ UNCHANGED <<att, proc, staged, orphans, reapLate, signed, crashes>>

-----------------------------------------------------------------------------
(* The owned run: observe, bind, gate, report, sample, release, exit.      *)

(* observe_current_invocation polls until the manager shows this launch. *)
Observe ==
  /\ pc = "observing"
  /\ att.peer
  /\ ~att.late
  /\ FreshInvocation(att.nonce)
  /\ att' = [att EXCEPT !.inv = TRUE]
  /\ pc' = "binding"
  /\ UNCHANGED <<gate, launch, unit, proc, staged, orphans, reapLate, signed,
                 crashes>>

(* bind_live opens the cgroup between two equal manager snapshots. *)
BindLive ==
  /\ pc = "binding"
  /\ att.peer
  /\ ~att.late
  /\ Sampled(att.nonce)
  /\ att' = [att EXCEPT !.bound = TRUE]
  /\ pc' = "starting"
  /\ UNCHANGED <<gate, launch, unit, proc, staged, orphans, reapLate, signed,
                 crashes>>

(* A clean first sample, the peer and the deadline open the start gate. *)
OpenStartGate ==
  /\ pc = "starting"
  /\ Sampled(att.nonce)
  /\ EventsClean
  /\ att.peer
  /\ ~att.late
  /\ gate' = "start"
  /\ pc' = "reading"
  /\ UNCHANGED <<att, launch, unit, proc, staged, orphans, reapLate, signed,
                 crashes>>

(* read_report_before: the deadline is looked at before the wait, not      *)
(* after it, so a report may still be taken once the deadline has passed.  *)
ReadReport ==
  /\ pc = "reading"
  /\ proc[launch].step = "reported"
  /\ pc' = "sampling"
  /\ UNCHANGED <<att, gate, launch, unit, proc, staged, orphans, reapLate,
                 signed, crashes>>

(* The report deadline with a live worker and clean counters. *)
MeasureTimeout ==
  /\ pc = "reading"
  /\ att.late
  /\ Sampled(att.nonce)
  /\ EventsClean
  /\ GiveUp("timeout")
  /\ UNCHANGED <<gate, launch, unit, proc, staged, orphans, reapLate, signed,
                 crashes>>

\* Mutant of FinalSample: only the first sample looks at the event counters.
FinalSampleUnchecked ==
  /\ pc = "sampling"
  /\ Sampled(att.nonce)
  /\ att.peer
  /\ ~att.late
  /\ gate' = "release"
  /\ pc' = "draining"
  /\ UNCHANGED <<att, launch, unit, proc, staged, orphans, reapLate, signed,
                 crashes>>

(* The final sample of the live worker, then the release gate. *)
FinalSample ==
  /\ pc = "sampling"
  /\ Sampled(att.nonce)
  /\ EventsClean
  /\ att.peer
  /\ ~att.late
  /\ gate' = "release"
  /\ pc' = "draining"
  /\ UNCHANGED <<att, launch, unit, proc, staged, orphans, reapLate, signed,
                 crashes>>

(* require_output_eof_before: the worker closes its output by exiting. *)
DrainOutput ==
  /\ pc = "draining"
  /\ proc[launch].step = "exited"
  /\ pc' = "finishing"
  /\ UNCHANGED <<att, gate, launch, unit, proc, staged, orphans, reapLate,
                 signed, crashes>>

(* finish: exit status zero, then the unit gone and its cgroup empty, all  *)
(* of it before the deadline; the elapsed time is checked once more.       *)
FinishRun ==
  /\ pc = "finishing"
  /\ att.peer
  /\ ~att.late
  /\ proc[launch].cause = "ok"
  /\ Empty(att.nonce)
  /\ Answer("complete")
  /\ UNCHANGED <<gate, launch, unit, proc, staged, orphans, reapLate, signed,
                 crashes>>

\* Mutant of Refused: the poll loops do not look at the deadline.
RefusedTimeless ==
  LET clean == Sampled(att.nonce) /\ EventsClean IN
  \/ ~att.peer
  \/ pc = "binding" /\ ~Sampled(att.nonce)
  \/ pc \in {"starting", "sampling"} /\ ~clean
  \/ pc \in {"reading", "draining"} /\ proc[launch].step \in {"reported", "exited"}
  \/ pc = "finishing" /\ proc[launch].cause # "ok"

(* What makes a step of the run give up: the peer; the deadline (at the    *)
(* report it is a measured timeout when the worker can still be sampled    *)
(* clean); a sample that fails or shows events; output that is malformed,  *)
(* cut or trailed; an exit status other than zero.                         *)
Refused ==
  LET clean == Sampled(att.nonce) /\ EventsClean IN
  \/ ~att.peer
  \/ att.late /\ (pc = "reading" => ~clean)
  \/ pc = "binding" /\ ~Sampled(att.nonce)
  \/ pc \in {"starting", "sampling"} /\ ~clean
  \/ pc \in {"reading", "draining"} /\ proc[launch].step \in {"reported", "exited"}
  \/ pc = "finishing" /\ proc[launch].cause # "ok"

(* A refusal closes the run through abort. *)
RefuseRun ==
  /\ pc \in Running
  /\ Refused
  /\ GiveUp("error")
  /\ UNCHANGED <<gate, launch, unit, proc, staged, orphans, reapLate, signed,
                 crashes>>

-----------------------------------------------------------------------------
(* UnitGuard::abort, the OOM diagnosis and the answer.                     *)

(* The pipes close, the launcher is killed and waited for.  Without an     *)
(* observed invocation nothing more can be known; with a bound cgroup the  *)
(* held kill file is written, once, never the unit's name; an error of     *)
(* that write is ignored.                                                  *)
Abort ==
  /\ pc = "aborting"
  /\ reapLate' = FALSE
  /\ \/ /\ ~att.inv
        /\ Answer("unconfirmed")
        /\ UNCHANGED <<unit, proc>>
     \/ /\ att.inv
        /\ pc' = "confirming"
        /\ \E S \in SUBSET (IF att.bound THEN {att.nonce} ELSE {}) :
             Kill(S, "fail")
        /\ UNCHANGED att
  /\ UNCHANGED <<gate, launch, staged, orphans, signed, crashes>>

(* confirm_invocation_reaped: the same invocation is terminal, or, once a  *)
(* cgroup was bound, the manager has forgotten the unit.                   *)
Reaped(n) ==
  \/ unit[n].phase = "failed" /\ unit[n].launch = launch
  \/ unit[n].phase = "absent" /\ att.bound

ConfirmReap ==
  /\ pc = "confirming"
  /\ ~reapLate
  /\ Reaped(att.nonce)
  /\ pc' = IF att.result = "timeout" THEN "responding" ELSE "diagnosing"
  /\ UNCHANGED <<att, gate, launch, unit, proc, staged, orphans, reapLate,
                 signed, crashes>>

(* The reap budget is spent before the group is seen empty, or an unbound  *)
(* unit has vanished and its history with it.                              *)
CleanupUnconfirmed ==
  /\ pc = "confirming"
  /\ reapLate \/ (unit[att.nonce].phase = "absent" /\ ~att.bound)
  /\ Answer("unconfirmed")
  /\ UNCHANGED <<gate, launch, unit, proc, staged, orphans, reapLate, signed,
                 crashes>>

(* The retained unit says that this very invocation died of OOM. *)
OomVerified(n) ==
  /\ unit[n].phase = "failed"
  /\ unit[n].launch = launch
  /\ proc[unit[n].launch].cause = "oom"

Diagnose ==
  /\ pc = "diagnosing"
  /\ \/ ~reapLate /\ OomVerified(att.nonce) /\ Answer("oom")
     \/ Answer("error")
  /\ UNCHANGED <<gate, launch, unit, proc, staged, orphans, reapLate, signed,
                 crashes>>

(* At every step that asks it the manager may be unavailable, answer       *)
(* something else, or leave a command that cannot be reaped; the launcher  *)
(* may resist its kill.  Before the launch and while binding this refuses  *)
(* the run; where cleanup is being confirmed it is never taken for success.*)
(* The guard still aborts on its way out, and may reach the kill file.     *)
ManagerFails ==
  /\ \/ /\ pc = "staged"
        /\ \E r \in {"error", "unconfirmed"} : Answer(r)
        /\ UNCHANGED <<unit, proc>>
     \/ /\ pc \in {"observing", "binding"}
        /\ GiveUp("error")
        /\ UNCHANGED <<unit, proc>>
     \/ /\ pc \in {"binding", "finishing", "aborting", "confirming", "diagnosing"}
        /\ \E S \in SUBSET (IF att.bound THEN {att.nonce} ELSE {}) : Kill(S, "fail")
        /\ Answer("unconfirmed")
  /\ UNCHANGED <<gate, launch, staged, orphans, reapLate, signed, crashes>>

(* The input is removed; unconfirmed cleanup holds the service down, every *)
(* other failure (removal, owner, signing) ends it for a restart.          *)
Fail ==
  /\ pc = "responding"
  /\ \/ att.result = "unconfirmed" /\ ServiceEnds("held")
     \/ att.result # "unconfirmed" /\ ServiceEnds("down")
  /\ UNCHANGED <<gate, launch, unit, proc, signed, crashes>>

(* A refusal or a signed response is written; whether the peer reads it    *)
(* changes nothing here.                                                   *)
Respond ==
  /\ pc = "responding"
  /\ att.result \in Kinds \cup {"occupied"}
  /\ staged' = staged \ {att.nonce}
  /\ signed' = IF att.result \in Kinds
               THEN signed \cup {[launch |-> launch, kind |-> att.result]}
               ELSE signed
  /\ pc' = "serving"
  /\ att' = NoAttempt
  /\ gate' = "shut"
  /\ reapLate' = FALSE
  /\ UNCHANGED <<launch, unit, proc, orphans, crashes>>

-----------------------------------------------------------------------------
(* Time, the peer, the worker and the manager.                             *)

PassDeadline ==
  /\ pc \in Running \cup {"staged"}
  /\ ~att.late
  /\ att' = [att EXCEPT !.late = TRUE]
  /\ proc' = [k \in Launches |->
       IF pc \in Running /\ k = launch /\ proc[k].step # "exited"
       THEN [proc[k] EXCEPT !.overdue =
                               IF gate = "shut" THEN "waiting" ELSE "started"] ELSE proc[k]]
  /\ UNCHANGED <<pc, gate, launch, unit, staged, orphans, reapLate, signed,
                 crashes>>

PassReapDeadline ==
  /\ pc \in {"reaping", "confirming", "diagnosing"}
  /\ ~reapLate
  /\ reapLate' = TRUE
  /\ UNCHANGED <<pc, att, gate, launch, unit, proc, staged, orphans, signed,
                 crashes>>

(* The client gives up at its own deadline or dies. *)
PeerLeaves ==
  /\ pc \in Running \cup {"staged"}
  /\ att.peer
  /\ att' = [att EXCEPT !.peer = FALSE]
  /\ UNCHANGED <<pc, gate, launch, unit, proc, staged, orphans, reapLate,
                 signed, crashes>>

(* What the process of launch k can read from its stdin: a byte that was    *)
(* written stays in the pipe.  A process of an earlier launch that is still *)
(* to start was never written one.                                          *)
GateOf(k) == IF k = launch THEN gate ELSE "shut"

WorkerMoves(n, from, to) ==
  LET k == unit[n].launch IN
  /\ unit[n].phase = "active"
  /\ proc[k].step = from
  /\ proc' = [proc EXCEPT ![k].step = to]
  /\ UNCHANGED unit

WorkerEnds(n, cause) ==
  /\ unit[n].phase = "active"
  /\ Kill({n}, cause)

(* run_credential_input: start gate, program, report, release gate, exit;  *)
(* a closed gate or a refused program ends it with another status.         *)
Worker(n) ==
  /\ unit[n].phase = "active"
  /\ LET k == unit[n].launch IN
     \/ GateOf(k) # "shut" /\ WorkerMoves(n, "blocked", "working")
     \/ WorkerMoves(n, "working", "reported")
     \/ GateOf(k) = "release" /\ proc[k].step = "reported" /\ WorkerEnds(n, "ok")
     \/ WorkerEnds(n, "fail")
  /\ UNCHANGED <<pc, att, gate, launch, staged, orphans, reapLate, signed,
                 crashes>>

(* The memory controller counts a limit event, or kills. *)
MemoryEvent(n) ==
  LET k == unit[n].launch IN
  /\ unit[n].phase = "active"
  /\ \/ /\ proc[k].dirty = "no"
        /\ proc' = [proc EXCEPT ![k].dirty =
                      IF proc[k].step = "reported" THEN "after" ELSE "run"]
        /\ UNCHANGED unit
     \/ WorkerEnds(n, "oom")
  /\ UNCHANGED <<pc, att, gate, launch, staged, orphans, reapLate, signed,
                 crashes>>

(* The start job runs, fails, or never comes about because the launcher    *)
(* died before it was accepted.  It needs the worker's input, which is     *)
(* there while the daemon has it staged, and for a while after a death.    *)
ManagerStarts(n) ==
  /\ unit[n].phase = "requested"
  /\ \/ /\ n \in staged \/ pc \in Stopped
        /\ unit' = [unit EXCEPT ![n].phase = "active"]
        /\ proc' = [proc EXCEPT ![unit[n].launch].step = "blocked"]
     \/ /\ unit' = [unit EXCEPT ![n].phase = "failed"]
        /\ proc' = [proc EXCEPT ![unit[n].launch].step = "exited",
                                ![unit[n].launch].cause = "fail"]
     \/ /\ unit' = [unit EXCEPT ![n] = AbsentUnit]
        /\ UNCHANGED proc
  /\ UNCHANGED <<pc, att, gate, launch, staged, orphans, reapLate, signed,
                 crashes>>

(* RuntimeMaxSec, which lies after the wall deadline. *)
RuntimeMax(n) ==
  /\ unit[n].launch = launch /\ pc \in Running => att.late
  /\ WorkerEnds(n, "fail")
  /\ UNCHANGED <<pc, att, gate, launch, staged, orphans, reapLate, signed,
                 crashes>>

\* Mutant of StopWithSupervisor: a unit that is not bound to the service's
\* lifetime and only stopped while the service restarts by itself.
StopWithSupervisorUnbound(n) ==
  /\ pc = "down"
  /\ WorkerEnds(n, "fail")
  /\ UNCHANGED <<pc, att, gate, launch, staged, orphans, reapLate, signed,
                 crashes>>

(* BindsTo=sley-test-supervisor.service. *)
StopWithSupervisor(n) ==
  /\ pc \in Stopped
  /\ WorkerEnds(n, "fail")
  /\ UNCHANGED <<pc, att, gate, launch, staged, orphans, reapLate, signed,
                 crashes>>

(* The cgroup is removed: a unit that ended well is forgotten, one that    *)
(* failed stays loaded until somebody resets it.                           *)
ManagerReaps(n) ==
  /\ \/ /\ unit[n].phase = "stopping"
        /\ unit' = [unit EXCEPT ![n] = IF proc[unit[n].launch].cause = "ok"
                                       THEN AbsentUnit
                                       ELSE [@ EXCEPT !.phase = "failed"]]
     \/ unit[n].phase = "failed" /\ unit' = [unit EXCEPT ![n] = AbsentUnit]
  /\ UNCHANGED <<pc, att, gate, launch, proc, staged, orphans, reapLate,
                 signed, crashes>>

-----------------------------------------------------------------------------
Daemon ==
  \/ ListOrphans \/ FinishReconcile \/ FailReconcile
  \/ RefuseLaunch \/ Launch
  \/ Observe \/ BindLive \/ OpenStartGate \/ ReadReport \/ MeasureTimeout
  \/ FinalSample \/ DrainOutput \/ FinishRun \/ RefuseRun
  \/ Abort \/ ConfirmReap \/ CleanupUnconfirmed \/ Diagnose
  \/ Fail \/ Respond

Clock == PassDeadline \/ PassReapDeadline

Manager(n) ==
  \/ ManagerStarts(n) \/ RuntimeMax(n) \/ StopWithSupervisor(n)
  \/ ManagerReaps(n)

Next ==
  \/ StartDaemon \/ CrashDaemon \/ Daemon \/ ManagerFails \/ Clock
  \/ PeerLeaves
  \/ \E n \in Nonces : StageRequest(n) \/ Worker(n) \/ MemoryEvent(n)
                       \/ Manager(n)

(* The daemon's thread keeps running and time passes.  A stop job that the *)
(* manager queued for the units of a stopped service is carried out even   *)
(* when the service comes back first (hence SF).  Nothing is assumed of    *)
(* the worker, the peer, the memory controller, of when a unit starts, or  *)
(* of a manager that fails.                                                *)
Fairness ==
  /\ WF_vars(Daemon)
  /\ WF_vars(PassDeadline)
  /\ WF_vars(PassReapDeadline)
  /\ \A n \in Nonces : SF_vars(StopWithSupervisor(n))

Spec == Init /\ [][Next]_vars

FairSpec == Spec /\ Fairness

-----------------------------------------------------------------------------
(* Properties.                                                             *)

(* While the daemon accepts or serves work, no process is left but the one *)
(* of the current attempt, also none that a dead daemon asked for and the  *)
(* manager starts late: unconfirmed cleanup never leads back to serving    *)
(* except through a reconciliation that saw every name empty ("Missing     *)
(* confirmation degrades supervisor and prevents successful signatures/new *)
(* runs", docs/spec/NATIVE_TEST_EXECUTION_V1.md).                          *)
ServingMeansQuiet ==
  pc \in Attempt \cup {"serving"} =>
    \A n \in Nonces : unit[n].phase \in {"active", "stopping"} =>
      pc \notin {"serving", "staged"} /\ n = att.nonce

(* A signature tells the truth about the process it names, across peer     *)
(* loss, crashes, late reports, reused nonces and retained failed units: a *)
(* complete run exited zero, before the wall deadline, after a report      *)
(* before which no memory event was counted; an OOM is this launch's own;  *)
(* a timeout is of a worker that had been let start and was alive when the *)
(* deadline passed, and that did not exit zero afterwards; and the process *)
(* is gone in every case.                                                  *)
EvidenceIsTrue ==
  \A s \in signed :
    LET p == proc[s.launch] IN
    /\ p.step = "exited"
    /\ s.kind = "complete" => p.cause = "ok" /\ p.dirty # "run" /\ p.overdue = "no"
    /\ s.kind = "oom" => p.cause = "oom"
    /\ s.kind = "timeout" => p.overdue = "started" /\ p.cause # "ok"

(* Every accepted request is settled: no behaviour of the worker, the      *)
(* manager or the peer keeps the daemon in an attempt or in its start.     *)
AttemptSettles ==
  pc \in Attempt \cup Startup ~> pc \in Stopped \cup {"serving"}

(* Every worker ends, also when the daemon dies or holds itself down with  *)
(* the worker unconfirmed: the unit is bound to the service's lifetime.    *)
WorkersEnd ==
  \A n \in Nonces : unit[n].phase = "active" ~> unit[n].phase # "active"
=============================================================================
