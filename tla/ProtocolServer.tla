--------------------------- MODULE ProtocolServer ---------------------------
(***************************************************************************)
(* sley-protocol: one server of a repository, its session authority, its   *)
(* request registry, the work budgets and the diagnostic caches, beside    *)
(* other processes that move the accepted head.                            *)
(*                                                                         *)
(* The server answers one frame at a time, but an answer takes several     *)
(* loads of the accepted head: the session check loads it, and most        *)
(* methods load it again when they run.  Another process may commit        *)
(* between the two.  A restart loses all of the server's state.            *)
(*                                                                         *)
(* The method and the arguments of a request are chosen when they are      *)
(* first used: nothing before that depends on them.  Methods stand for     *)
(* their class (Methods).                                                  *)
(* The collection itself is in GarbageCollection.tla; here it reads the    *)
(* authority's pins and catalog.                                           *)
(***************************************************************************)
EXTENDS Naturals, FiniteSets, Sequences

CONSTANTS
  Roots, NoRoot,   \* state roots; NoRoot is a repository without a head
  Epochs, EpochOf, \* EpochOf[r]: the schema epoch of a root
  Attempts,        \* attempt identifiers that the callers use
  Absent,          \* no entry for a session or an attempt
  SessionLimits,   \* max_sessions of the profiles that may be negotiated
  MaxInflight, MaxWork, \* the other negotiated limits
  MaxRenewals,     \* range of the renewal counter
  MaxTokens,       \* tokens held by a session
  MaxAttempts,     \* entries of an attempt cache
  MaxIssue, MaxId, MaxFrames, MaxMint, MaxMoves \* bounds of the model

ASSUME ServerAssumption ==
  /\ NoRoot \notin Roots /\ EpochOf \in [Roots -> Epochs]
  /\ SessionLimits \subseteq Nat
  /\ \A n \in {MaxInflight, MaxWork, MaxRenewals, MaxTokens, MaxAttempts,
               MaxIssue, MaxId, MaxFrames, MaxMint, MaxMoves} : n \in Nat
  /\ MaxInflight > 0 /\ MaxAttempts > 0

\* Session identities: the nonce of the server instance and the issue ordinal
\* make each one new, so they are numbered across instances.
Names == 1..MaxIssue
Ids == 1..MaxId
Caches == {"diagnostic", "replay"}

\* What the tables hold for a session, a token and an attempt.  A token has the
\* root that its report is about, and as history the root that its session was
\* bound to.  An attempt has its session, its bindings (the base that it was
\* taken on, if it has one, and the root that the request names), its token.
Session == [bound : Roots, epoch : Epochs, renewals : 0..MaxRenewals]
Slot == [last : 0..MaxId, inflight : 0..MaxInflight, closed : BOOLEAN]
Token == [num : 1..MaxMint, session : Names, root : Roots, under : Roots,
          expired : BOOLEAN]
Entry == [session : Names, base : Roots \cup {NoRoot}, named : Roots,
          token : 0..MaxMint]

ASSUME AbsentAssumption ==
  /\ Absent \notin Session /\ Absent \notin Slot /\ Absent \notin Entry
  /\ Absent \notin 0..MaxWork

\* survey: refs.list, refs.resolve, refs.recover, recovery, exchange.export,
\*   gc.dry_run, report and execute, which load what they need again;
\* query: query.root, query.continue and query.restricted; entity:
\*   entity.version and entity.signature; free: the methods that answer over
\*   the session or over state that the request names, and gc.collect;
\* commit: commit, merge.commit and exchange.import; native: the version 3
\*   commit;
\* diagnose: tests.selected and tests.affected; replay: tests.replay;
\* status: tests.attempt_status; page: tests.report_read.
HeadBound == {"open", "entity", "query", "capsule", "survey"}
Methods == HeadBound \cup
  {"renew", "close", "free", "expand", "checkout", "commit", "native",
   "diagnose", "replay", "status", "page"}

VARIABLES
  head,       \* root of the accepted head
  moves,      \* how often another process has moved it
  frames,     \* how many requests were admitted
  maxSessions, \* the negotiated limit of live and of remembered sessions
  issued,     \* identities issued so far, by every instance
  sessions,   \* authority: name -> record, or Absent
  retained,   \* authority: the roots it catalogs for collection
  registry,   \* name -> last identifier, requests in flight, closed; or Absent
  closeOrder, \* remembered closed names, oldest first
  budgets,    \* name -> remaining work, or Absent
  tokens,     \* report tokens
  minted,     \* token counter
  attempts,   \* cache -> attempt -> entry, or Absent
  pc,         \* idle, check, act, commit or respond
  req,        \* the admitted request
  seen,       \* the head of the session check, or of a native commit's check
  answer,     \* the answer of a read: its method and its root
  spent,      \* history: the last identifier that ran or was cancelled
  runs        \* history: how many requests have reached an engine

env == <<moves, frames, maxSessions>>
authority == <<sessions, retained>>
diagnostics == <<tokens, minted, attempts>>
slots == <<registry, closeOrder>>
history == <<spent, runs>>
vars == <<head, env, issued, authority, slots, budgets, diagnostics, pc, req,
          seen, answer, history>>

Request == [session : Names, id : Ids, method : Methods \cup {"none"}]
NoRequest == [session |-> 0, id |-> 0, method |-> "none"]

\* An answer that is not a read of the bound state, success or failure.
Silent == [method |-> "none", root |-> NoRoot, named |-> NoRoot,
           bound |-> NoRoot]

Live == {s \in Names : sessions[s] # Absent}
Open == {s \in Names : registry[s] # Absent /\ ~registry[s].closed}

-----------------------------------------------------------------------------
(* The session authority.                                                  *)

\* The catalog without the roots that no live session binds.
PruneRetained(cat, recs) ==
  {r \in cat : \E s \in Names : recs[s] # Absent /\ recs[s].bound = r}

\* The binding checks in the order of the contract, for a loaded head r.
CheckSession(s, r, headBound) ==
  /\ sessions[s] # Absent
  /\ sessions[s].epoch = EpochOf[r]
  /\ headBound => sessions[s].bound = r

-----------------------------------------------------------------------------
(* Diagnostic tokens and attempt caches.                                   *)

\* Mutant of InvalidateDiagnosticSession: only the attempts are forgotten.
InvalidateDiagnosticSessionKeeps(s) ==
  /\ attempts' = [attempts EXCEPT !["diagnostic"] =
       [a \in Attempts |-> IF @[a] # Absent /\ @[a].session = s
                           THEN Absent ELSE @[a]]]
  /\ UNCHANGED <<tokens, minted>>

\* Renewal, close and checkout drop the session's tokens, and its attempts of
\* the diagnostic cache; the replay cache keeps its entries.
InvalidateDiagnosticSession(s) ==
  /\ tokens' = {t \in tokens : t.session # s}
  /\ attempts' = [attempts EXCEPT !["diagnostic"] =
       [a \in Attempts |-> IF @[a] # Absent /\ @[a].session = s
                           THEN Absent ELSE @[a]]]
  /\ UNCHANGED minted

InvalidateAllDiagnostics ==
  /\ tokens' = {}
  /\ attempts' = [attempts EXCEPT !["diagnostic"] =
                                     [a \in Attempts |-> Absent]]
  /\ UNCHANGED minted

\* A token that answers: held by the session and not expired.
LiveToken(n, s) == \E t \in tokens : t.num = n /\ t.session = s /\ ~t.expired

\* Expired tokens of the session are pruned before the cap is compared.
Kept(s) == {t \in tokens : t.session = s => ~t.expired}

CanMint(s) ==
  /\ Cardinality({t \in Kept(s) : t.session = s}) < MaxTokens
  /\ minted < MaxMint

\* The mint records the root of the report that the token names.
CacheVerifiedReport(s, r) ==
  /\ minted' = minted + 1
  /\ tokens' = Kept(s) \cup {[num |-> minted', session |-> s, root |-> r,
                              under |-> sessions[s].bound, expired |-> FALSE]}

\* The attempts that a cache remembers.
Held(c) == {a \in Attempts : attempts[c][a] # Absent}

\* A finished attempt enters its cache; a full cache forgets an entry first,
\* even when the attempt was in the cache already.  Which entry is the oldest
\* is a matter of the wall clock, which may repeat a reading or step back.
StoreAttempt(c, a, entry) ==
  \E victims \in IF Cardinality(Held(c)) >= MaxAttempts
                  THEN {{b} : b \in Held(c)} ELSE {{}} :
    attempts' = [attempts EXCEPT ![c] =
      [b \in Attempts |-> IF b = a THEN entry
                          ELSE IF b \in victims THEN Absent ELSE @[b]]]

-----------------------------------------------------------------------------
Init ==
  /\ head = NoRoot /\ moves = 0 /\ frames = 0 /\ issued = 0
  /\ maxSessions \in SessionLimits
  /\ sessions = [s \in Names |-> Absent]
  /\ retained = {}
  /\ registry = [s \in Names |-> Absent]
  /\ closeOrder = <<>>
  /\ budgets = [s \in Names |-> Absent]
  /\ tokens = {} /\ minted = 0
  /\ attempts = [c \in Caches |-> [a \in Attempts |-> Absent]]
  /\ pc = "idle" /\ req = NoRequest /\ seen = NoRoot /\ answer = Silent
  /\ spent = [s \in Names |-> 0] /\ runs = [s \in Names |-> 0]

\* Another process commits, or initialises the repository.  The root of an
\* earlier state may be accepted again.
OtherCommit(r) ==
  /\ moves < MaxMoves /\ r # head
  /\ head' = r /\ moves' = moves + 1
  /\ UNCHANGED <<maxSessions, frames, issued, authority, slots, budgets,
                 diagnostics, pc, req, seen, answer, history>>

\* Time passes: the lifetime of a token ends.
TokenExpires(t) ==
  /\ ~t.expired
  /\ tokens' = (tokens \ {t}) \cup {[t EXCEPT !.expired = TRUE]}
  /\ UNCHANGED <<head, env, issued, authority, slots, budgets, minted,
                 attempts, pc, req, seen, answer, history>>

\* The server process ends and another one starts.
Restart ==
  /\ sessions' = [s \in Names |-> Absent] /\ retained' = {}
  /\ registry' = [s \in Names |-> Absent] /\ closeOrder' = <<>>
  /\ budgets' = [s \in Names |-> Absent]
  /\ tokens' = {} /\ minted' = 0
  /\ attempts' = [c \in Caches |-> [a \in Attempts |-> Absent]]
  /\ pc' = "idle" /\ req' = NoRequest /\ seen' = NoRoot /\ answer' = Silent
  /\ spent' = [s \in Names |-> 0] /\ runs' = [s \in Names |-> 0]
  /\ UNCHANGED <<head, env, issued>>

-----------------------------------------------------------------------------
(* Frames without a session.                                               *)

\* session.open: one load of the head, then the three tables.
SessionOpen ==
  /\ pc = "idle" /\ head # NoRoot
  /\ Cardinality(Live) < maxSessions
  /\ issued < MaxIssue
  /\ issued' = issued + 1
  /\ sessions' = [sessions EXCEPT ![issued'] =
       [bound |-> head, epoch |-> EpochOf[head], renewals |-> 0]]
  /\ retained' = retained \cup {head}
  /\ registry' = [registry EXCEPT ![issued'] =
       [last |-> 0, inflight |-> 0, closed |-> FALSE]]
  /\ budgets' = [budgets EXCEPT ![issued'] = MaxWork]
  /\ UNCHANGED <<head, env, closeOrder, diagnostics, pc, req, seen, answer,
                 history>>

\* workspace.create and exchange.import travel without a session only while
\* the repository has no head, and the repository refuses a second genesis.
CreateHead(r) ==
  /\ pc = "idle" /\ head = NoRoot
  /\ head' = r
  /\ \/ InvalidateAllDiagnostics  \* exchange.import
     \/ UNCHANGED diagnostics     \* workspace.create
  /\ UNCHANGED <<env, issued, authority, slots, budgets, pc, req, seen,
                 answer, history>>

-----------------------------------------------------------------------------
(* Admission.                                                              *)

\* The registry accepts the identifier: it grows within a session.
Admissible(s, id) ==
  /\ s \in Open
  /\ id > registry[s].last /\ registry[s].inflight < MaxInflight

Admit(s, id) ==
  /\ pc = "idle" /\ s \in Live /\ Admissible(s, id)
  /\ frames < MaxFrames /\ frames' = frames + 1
  /\ registry' = [registry EXCEPT ![s].last = id, ![s].inflight = @ + 1]
  /\ req' = [session |-> s, id |-> id, method |-> "none"]
  /\ pc' = "check"
  /\ UNCHANGED <<head, moves, maxSessions, issued, authority, closeOrder,
                 budgets, diagnostics, seen, answer, history>>

\* Mutant of AdmitOnly: a cancelled request leaves no trace.
AdmitOnlyForgets(s, id) ==
  /\ pc = "idle" /\ Admissible(s, id)
  /\ frames < MaxFrames /\ frames' = frames + 1
  /\ spent' = [spent EXCEPT ![s] = id]
  /\ UNCHANGED <<head, moves, maxSessions, issued, authority, slots, budgets,
                 diagnostics, pc, req, seen, answer, runs>>

\* A request that a frame of the same batch cancels: its identifier is spent
\* and its slot is released, and nothing runs.
AdmitOnly(s, id) ==
  /\ pc = "idle" /\ Admissible(s, id)
  /\ frames < MaxFrames /\ frames' = frames + 1
  /\ registry' = [registry EXCEPT ![s].last = id]
  /\ spent' = [spent EXCEPT ![s] = id]
  /\ UNCHANGED <<head, moves, maxSessions, issued, authority, closeOrder,
                 budgets, diagnostics, pc, req, seen, answer, runs>>

\* The slot of the request is released unless the request closed its session.
Release(s) ==
  registry' = IF s \in Open THEN [registry EXCEPT ![s].inflight = @ - 1]
                            ELSE registry

\* Mutant of Charged: the charge may pass the budget.
ChargedPast(s, n) ==
  budgets' = [budgets EXCEPT ![s] = IF @ = Absent THEN @ ELSE @ - n]

\* The request is answered; n more units of work are charged, never below
\* zero.
Charged(s, n) ==
  budgets' = [budgets EXCEPT ![s] = IF @ = Absent THEN @
                                    ELSE IF @ < n THEN 0 ELSE @ - n]

Done == req' = NoRequest /\ seen' = NoRoot

\* An answer that no property looks at leaves at once.
Quiet == pc' = "idle" /\ answer' = Silent

-----------------------------------------------------------------------------
(* The session check.                                                      *)

\* Mutant of Refuse: a request whose session has no work left keeps its slot.
RefuseLeaks ==
  /\ pc = "check"
  /\ IF budgets[req.session] = 0 THEN UNCHANGED registry ELSE Release(req.session)
  /\ Done /\ Quiet
  /\ UNCHANGED <<head, env, issued, authority, closeOrder, budgets,
                 diagnostics, history>>

\* The head does not load, the binding does not hold, or it does and the
\* budget is exhausted.
Refuse ==
  /\ pc = "check"
  /\ Release(req.session) /\ Done /\ Quiet
  /\ UNCHANGED <<head, env, issued, authority, closeOrder, budgets,
                 diagnostics, history>>

\* Mutant of Dispatch: only answers are charged.
DispatchFree(m) ==
  /\ pc = "check"
  /\ CheckSession(req.session, head, m \in HeadBound)
  /\ budgets[req.session] # 0
  /\ pc' = "act" /\ seen' = head
  /\ spent' = [spent EXCEPT ![req.session] = req.id]
  /\ runs' = [runs EXCEPT ![req.session] = @ + 1]
  /\ req' = [req EXCEPT !.method = m]
  /\ UNCHANGED <<head, env, issued, authority, slots, budgets, diagnostics,
                 answer>>

\* The request reaches its engine, which costs a unit whatever comes of it.
Dispatch(m) ==
  /\ pc = "check"
  /\ CheckSession(req.session, head, m \in HeadBound)
  /\ budgets[req.session] # 0
  /\ budgets' = [budgets EXCEPT ![req.session] = @ - 1]
  /\ pc' = "act" /\ seen' = head
  /\ spent' = [spent EXCEPT ![req.session] = req.id]
  /\ runs' = [runs EXCEPT ![req.session] = @ + 1]
  /\ req' = [req EXCEPT !.method = m]
  /\ UNCHANGED <<head, env, issued, authority, slots, diagnostics, answer>>

\* The engine refuses: a method that was not negotiated, a malformed body, a
\* head that does not load, a failure of its own.  An entity read that fails
\* after its reservation keeps the debit.
EngineRefuses ==
  /\ pc \in {"act", "commit"}
  /\ \/ UNCHANGED budgets
     \/ /\ req.method = "entity"
        /\ \E n \in 1..budgets[req.session] : Charged(req.session, n)
  /\ Release(req.session) /\ Done /\ Quiet
  /\ UNCHANGED <<head, env, issued, authority, closeOrder, diagnostics,
                 history>>

-----------------------------------------------------------------------------
(* The methods.                                                            *)

Acts(m) == pc = "act" /\ req.method = m

\* The answer is a read of root r, which the request named as n.
Reads(r, n) ==
  /\ answer' = [method |-> req.method, root |-> r, named |-> n,
                bound |-> sessions[req.session].bound]
  /\ pc' = "respond"

Respond ==
  /\ pc = "respond" /\ Quiet
  /\ UNCHANGED <<head, env, issued, authority, slots, budgets, diagnostics, req,
                 seen, history>>

\* The steps that end a request and touch nothing else.
Answered ==
  /\ Release(req.session) /\ Done
  /\ UNCHANGED <<head, env, issued, authority, closeOrder, history>>

SessionRenew ==
  LET s == req.session
  IN /\ Acts("renew")
     /\ sessions[s].epoch = EpochOf[head]
     /\ sessions[s].renewals < MaxRenewals
     /\ sessions' = [sessions EXCEPT ![s].bound = head, ![s].renewals = @ + 1]
     /\ retained' = PruneRetained(retained \cup {head}, sessions')
     /\ InvalidateDiagnosticSession(s)
     /\ Release(s) /\ Charged(s, 1) /\ Done /\ Quiet
     /\ UNCHANGED <<head, env, issued, closeOrder, history>>

\* The closed name is remembered; past the cap the oldest one is forgotten.
SessionClose ==
  LET s == req.session
      order == Append(closeOrder, s)
      full == Len(order) > maxSessions
  IN /\ Acts("close")
     /\ closeOrder' = IF full THEN Tail(order) ELSE order
     /\ registry' = [n \in Names |->
          IF full /\ n = Head(order) THEN Absent
          ELSE IF n = s THEN [registry[n] EXCEPT !.closed = TRUE]
          ELSE registry[n]]
     /\ sessions' = [sessions EXCEPT ![s] = Absent]
     /\ retained' = PruneRetained(retained, sessions')
     /\ budgets' = [budgets EXCEPT ![s] = Absent]
     /\ InvalidateDiagnosticSession(s)
     /\ Done /\ Quiet
     /\ UNCHANGED <<head, env, issued, history>>

FreeMethod ==
  /\ Acts("free")
  /\ \E n \in 0..1 : Charged(req.session, n)
  /\ Quiet /\ Answered /\ UNCHANGED diagnostics

\* checkout answers over the transaction that it names.
Checkout ==
  /\ Acts("checkout")
  /\ InvalidateDiagnosticSession(req.session)
  /\ Charged(req.session, 1) /\ Quiet /\ Answered

\* Mutant of WorkspaceOpen: the head is loaded again.
WorkspaceOpenReloads ==
  /\ Acts("open") /\ Reads(head, NoRoot)
  /\ Charged(req.session, 1) /\ Answered /\ UNCHANGED diagnostics

\* workspace.open answers from the head of its session check.
WorkspaceOpen ==
  /\ Acts("open") /\ Reads(seen, NoRoot)
  /\ Charged(req.session, 1) /\ Answered /\ UNCHANGED diagnostics

\* An entity read prepares its answer from the head of its session check and
\* reserves its work, which is not more than the budget holds.
EntityRead ==
  /\ Acts("entity") /\ Reads(seen, NoRoot)
  /\ \E n \in 0..budgets[req.session] : Charged(req.session, n)
  /\ Answered /\ UNCHANGED diagnostics

\* A query loads the head again and answers if the request, which names its
\* snapshot, is the one that this head gives.
QueryRoot ==
  /\ Acts("query")
  /\ \E named \in Roots : head = named /\ Reads(head, named)
  /\ Charged(req.session, 1) /\ Answered /\ UNCHANGED diagnostics

\* A capsule is a query whose response the authority compares with the
\* session's binding.
Capsule ==
  /\ Acts("capsule")
  /\ \E named \in Roots : /\ head = named /\ Reads(head, named)
                          /\ sessions[req.session].bound = head
  /\ Charged(req.session, 1) /\ Answered /\ UNCHANGED diagnostics

\* handle.expand names the root that its position belongs to.
HandleExpand ==
  /\ Acts("expand")
  /\ \E named \in Roots :
       /\ CheckSession(req.session, head, FALSE)
       /\ named = sessions[req.session].bound
       /\ sessions[req.session].bound = head
       /\ Reads(head, named)
  /\ Charged(req.session, 1) /\ Answered /\ UNCHANGED diagnostics

\* These methods load what they answer over again, and compare nothing.
Survey ==
  /\ Acts("survey") /\ Reads(head, NoRoot)
  /\ Charged(req.session, 1) /\ Answered /\ UNCHANGED diagnostics

\* The repository accepts the commit if its parent is the head.  An error that
\* it returns after the head has moved leaves the diagnostics as they are.
CommitTo(r) ==
  /\ \E parent \in Roots : parent = head
  /\ head' = r /\ Quiet
  /\ \/ InvalidateAllDiagnostics /\ Charged(req.session, 1)
     \/ UNCHANGED <<diagnostics, budgets>>
  /\ Release(req.session) /\ Done
  /\ UNCHANGED <<env, issued, authority, closeOrder, history>>

Commit(r) == Acts("commit") /\ CommitTo(r)

\* merge.commit answers a conflict: nothing is committed.
MergeConflict ==
  /\ Acts("commit") /\ Quiet
  /\ Charged(req.session, 1) /\ Answered /\ UNCHANGED diagnostics

\* A native commit first compares the session's root with the head.
NativeCommitCheck ==
  /\ Acts("native") /\ sessions[req.session].bound = head
  /\ pc' = "commit" /\ seen' = head
  /\ UNCHANGED <<head, env, issued, authority, slots, budgets, diagnostics,
                 req, answer, history>>

NativeCommit(r) == pc = "commit" /\ CommitTo(r)

-----------------------------------------------------------------------------
(* The native test reads.  Each of them first requires that the session's  *)
(* root is the head that it loads.                                         *)

TestsNative(m) == Acts(m) /\ sessions[req.session].bound = head

\* What an attempt is bound to besides the root that the request names: a
\* diagnostic one to the head it is taken on (tests.selected names that root
\* itself, tests.affected the root of a candidate), a replay to no head.
Base(c) == IF c = "diagnostic" THEN head ELSE NoRoot

SameBindings(c, a, named) ==
  /\ attempts[c][a].session = req.session
  /\ attempts[c][a].base = Base(c) /\ attempts[c][a].named = named

\* The cache answers: the same session, the same bindings, a live token.
Cached(c, a, named) ==
  /\ attempts[c][a] # Absent /\ SameBindings(c, a, named)
  /\ LiveToken(attempts[c][a].token, req.session)

\* Another session or other bindings hold the attempt.
AttemptConflict(c, a, named) ==
  attempts[c][a] # Absent /\ ~SameBindings(c, a, named)

\* The read names a report through token n.
ReadsToken(n, named) ==
  LET t == CHOOSE t \in tokens' : t.num = n
      gone == \A u \in tokens' : u.num # n
  IN Reads(IF gone THEN NoRoot ELSE t.root, named)

ReplayCached(m, c) ==
  /\ TestsNative(m)
  /\ \E a \in Attempts, named \in Roots :
       /\ Cached(c, a, named)
       /\ UNCHANGED diagnostics /\ ReadsToken(attempts[c][a].token, named)
  /\ Charged(req.session, 1) /\ Answered

\* The tests run, or the history is replayed and matches; the report is
\* cached under a new token, and the attempt with it.
RunAttempt(m, c) ==
  /\ TestsNative(m)
  /\ \E a \in Attempts, named \in Roots :
       /\ ~AttemptConflict(c, a, named) /\ ~Cached(c, a, named)
       /\ CanMint(req.session) /\ CacheVerifiedReport(req.session, named)
       /\ StoreAttempt(c, a, [session |-> req.session, base |-> Base(c),
                              named |-> named, token |-> minted'])
       /\ ReadsToken(minted', named)
  /\ Charged(req.session, 1) /\ Answered

Diagnose == ReplayCached("diagnose", "diagnostic")
              \/ RunAttempt("diagnose", "diagnostic")

\* A replay that does not match is cached without a token.
Mismatch ==
  /\ TestsNative("replay")
  /\ \E a \in Attempts, named \in Roots :
       /\ ~AttemptConflict("replay", a, named) /\ ~Cached("replay", a, named)
       /\ StoreAttempt("replay", a, [session |-> req.session, base |-> NoRoot,
                                     named |-> named, token |-> 0])
  /\ Quiet
  /\ Charged(req.session, 1) /\ Answered /\ UNCHANGED <<tokens, minted>>

Replay == ReplayCached("replay", "replay") \/ RunAttempt("replay", "replay")
            \/ Mismatch

\* The status of a committed attempt carries a token for the root that it
\* committed, that of another none.
AttemptStatus ==
  /\ TestsNative("status")
  /\ \/ /\ CanMint(req.session)
        /\ \E r \in Roots : CacheVerifiedReport(req.session, r)
        /\ ReadsToken(minted', NoRoot) /\ UNCHANGED attempts
     \/ Quiet /\ UNCHANGED diagnostics
  /\ Charged(req.session, 1) /\ Answered

ReportRead ==
  /\ TestsNative("page")
  /\ \E t \in tokens : /\ LiveToken(t.num, req.session)
                       /\ UNCHANGED diagnostics /\ ReadsToken(t.num, NoRoot)
  /\ Charged(req.session, 1) /\ Answered

-----------------------------------------------------------------------------
Next ==
  \/ \E r \in Roots : OtherCommit(r) \/ CreateHead(r)
  \/ \E t \in tokens : TokenExpires(t)
  \/ Restart
  \/ SessionOpen
  \/ \E s \in Names, id \in Ids : Admit(s, id) \/ AdmitOnly(s, id)
  \/ Refuse \/ EngineRefuses \/ Respond
  \/ \E m \in Methods : Dispatch(m)
  \/ SessionRenew \/ SessionClose \/ FreeMethod \/ Checkout
  \/ WorkspaceOpen \/ EntityRead \/ QueryRoot \/ Capsule \/ HandleExpand
  \/ Survey
  \/ \E r \in Roots : Commit(r) \/ NativeCommit(r)
  \/ MergeConflict \/ NativeCommitCheck
  \/ Diagnose \/ Replay \/ AttemptStatus \/ ReportRead

Spec == Init /\ [][Next]_vars

-----------------------------------------------------------------------------
(* Properties.                                                             *)

\* Types of the variables: SessionAuthority, RequestRegistry and Server.
TypeOK ==
  /\ head \in Roots \cup {NoRoot} /\ moves \in 0..MaxMoves
  /\ frames \in 0..MaxFrames
  /\ maxSessions \in SessionLimits /\ issued \in 0..MaxIssue
  /\ sessions \in [Names -> Session \cup {Absent}]
  /\ retained \subseteq Roots
  /\ registry \in [Names -> Slot \cup {Absent}]
  /\ closeOrder \in Seq(Names) /\ Len(closeOrder) <= maxSessions
  /\ budgets \in [Names -> 0..MaxWork \cup {Absent}]
  /\ tokens \subseteq Token /\ minted \in 0..MaxMint
  /\ attempts \in [Caches -> [Attempts -> Entry \cup {Absent}]]
  /\ pc \in {"idle", "check", "act", "commit", "respond"}
  /\ IF pc \in {"idle", "respond"} THEN req = NoRequest ELSE req \in Request
  /\ seen \in Roots \cup {NoRoot}
  /\ spent \in [Names -> 0..MaxId] /\ runs \in [Names -> 0..MaxFrames]

\* "A head advanced between the check and the answer can never be served to a
\* session bound to the older root" (dispatch), for workspace.open, the entity
\* reads, the capsule and handle.expand; a handle and a query answer over the
\* root that the request names, and so does a test report, also one that an
\* earlier run left in a cache: a repeated attempt identifier never gets the
\* token of another request's report.  Surveys, execute among them, are
\* excepted: they compare nothing after their second load.
AnswersBoundRoot ==
  LET m == answer.method
  IN /\ m \in {"open", "entity", "capsule", "expand"} => answer.root = answer.bound
     /\ m \in {"query", "capsule", "expand", "diagnose", "replay"} =>
          answer.root = answer.named

\* The authority, the registry and the budgets agree on which sessions live;
\* "every live session's root is catalogued, nothing else is" (prune_retained:
\* a missing root makes every collection of this server fail); the registry
\* remembers exactly the closed names of its order; and between requests no
\* session holds a slot, whichever error path answered.
TablesAgree ==
  /\ retained = {sessions[s].bound : s \in Live}
  /\ Live = Open /\ Live = {s \in Names : budgets[s] # Absent}
  /\ {closeOrder[i] : i \in DOMAIN closeOrder} =
       {s \in Names : registry[s] # Absent /\ registry[s].closed}
  /\ \A s \in Open : registry[s].inflight =
       IF req.session = s THEN 1 ELSE 0

\* A request reaches an engine only under an identifier beyond every one that
\* has run or was cancelled in its session: nothing runs twice or after its
\* cancellation (RequestRegistry::admit, admit_only).
RunsOnce ==
  [][\A s \in Names : runs'[s] > runs[s] => spent'[s] > spent[s]]_vars

\* A token belongs to a live session and was minted under the root that the
\* session is bound to now, and no session holds more than its cap; an attempt
\* of the diagnostic cache belongs to a live session (invalidate_*).
DiagnosticsFollowBinding ==
  /\ \A t \in tokens : t.session \in Live
                         /\ t.under = sessions[t.session].bound
  /\ \A s \in Names : Cardinality({t \in tokens : t.session = s}) <= MaxTokens
  /\ \A a \in Attempts : attempts["diagnostic"][a] # Absent =>
       attempts["diagnostic"][a].session \in Live
  /\ \A c \in Caches : Cardinality(Held(c)) <= MaxAttempts

\* "A request that reaches an engine and fails still costs work and cannot
\* repeat forever" (dispatch): what is left and what has run stay within the
\* negotiated work.
WorkIsBounded ==
  \A s \in Live : runs[s] + budgets[s] <= MaxWork

=============================================================================
