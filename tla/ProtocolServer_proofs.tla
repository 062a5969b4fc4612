------------------------ MODULE ProtocolServer_proofs ------------------------
(***************************************************************************)
(* Proofs about ProtocolServer, for any number of sessions, requests,      *)
(* tokens, attempts and roots.                                             *)
(***************************************************************************)
EXTENDS ProtocolServer, FiniteSetTheorems, TLAPS
-----------------------------------------------------------------------------
(* The inductive invariant, one part per table.                            *)

Busy == {"check", "act", "commit"}

\* The authority: a name is live only once it was issued, and a session is
\* opened only on a repository that has a head.
AuthorityInv ==
  /\ head \in Roots \cup {NoRoot} /\ issued \in 0..MaxIssue
  /\ sessions \in [Names -> Session \cup {Absent}]
  /\ retained = {sessions[s].bound : s \in Live}
  /\ \A s \in Live : s <= issued
  /\ Live # {} => head \in Roots

\* The registry: no name is remembered twice in the order of the closed ones.
RegistryInv ==
  /\ maxSessions \in SessionLimits
  /\ registry \in [Names -> Slot \cup {Absent}]
  /\ closeOrder \in Seq(Names) /\ Len(closeOrder) <= maxSessions
  /\ \A i, j \in DOMAIN closeOrder : closeOrder[i] = closeOrder[j] => i = j
  /\ {closeOrder[i] : i \in DOMAIN closeOrder} =
       {s \in Names : registry[s] # Absent /\ registry[s].closed}
  /\ Live = Open
  /\ \A s \in Open : registry[s].inflight = IF req.session = s THEN 1 ELSE 0
  /\ \A s \in Names : registry[s] # Absent => s <= issued

\* The work: an admitted request that has not run yet is counted in frames.
WorkInv ==
  /\ moves \in 0..MaxMoves /\ frames \in 0..MaxFrames
  /\ budgets \in [Names -> 0..MaxWork \cup {Absent}]
  /\ Live = {s \in Names : budgets[s] # Absent}
  /\ runs \in [Names -> 0..MaxFrames]
  /\ WorkIsBounded
  /\ \A s \in Names : /\ runs[s] <= frames
                      /\ pc = "check" => runs[s] < frames
                      /\ s > issued => runs[s] = 0

\* The identifiers: what ran or was cancelled is behind the registry's last
\* one, and the request under its session check is the last one itself.
SpentInv ==
  /\ spent \in [Names -> 0..MaxId]
  /\ \A s \in Open : spent[s] <= registry[s].last
  /\ \A s \in Names : s > issued => spent[s] = 0
  /\ pc = "check" => spent[req.session] < req.id /\ req.id <= registry[req.session].last

\* The request: its session lives until the request ends, and a head-bound
\* one runs over a head that was the session's root.
RequestInv ==
  /\ pc \in {"idle", "check", "act", "commit", "respond"}
  /\ IF pc \in {"idle", "respond"} THEN req = NoRequest ELSE req \in Request
  /\ seen \in Roots \cup {NoRoot}
  /\ pc \in Busy => req.session \in Live
  /\ pc = "act" /\ req.method \in HeadBound => seen = sessions[req.session].bound

\* The tokens: the counter keeps their numbers apart.
TokenInv ==
  /\ tokens \subseteq Token /\ IsFiniteSet(tokens) /\ minted \in 0..MaxMint
  /\ \A t \in tokens : t.num <= minted
  /\ \A t, u \in tokens : t.num = u.num => t = u
  /\ \A t \in tokens : t.session \in Live /\ t.under = sessions[t.session].bound
  /\ \A s \in Names : Cardinality({t \in tokens : t.session = s}) <= MaxTokens

\* A token that an attempt leads to is about the root that the attempt names;
\* its number is behind the counter, so that no later token takes it.
LinkInv ==
  \A c \in Caches : \A a \in Held(c) :
    /\ attempts[c][a].token <= minted
    /\ \A t \in tokens : t.num = attempts[c][a].token => t.root = attempts[c][a].named

\* The attempt caches.
CacheInv ==
  /\ attempts \in [Caches -> [Attempts -> Entry \cup {Absent}]]
  /\ \A a \in Held("diagnostic") : attempts["diagnostic"][a].session \in Live
  /\ \A c \in Caches : IsFiniteSet(Held(c)) /\ Cardinality(Held(c)) <= MaxAttempts
  /\ LinkInv

Inv ==
  /\ AuthorityInv /\ RegistryInv /\ WorkInv /\ SpentInv /\ RequestInv
  /\ TokenInv /\ CacheInv /\ AnswersBoundRoot

\* The invariant gives every property that the model is checked for.
LEMMA InvImplies ==
  Inv => /\ TypeOK /\ TablesAgree /\ AnswersBoundRoot
         /\ DiagnosticsFollowBinding /\ WorkIsBounded
<1> SUFFICES ASSUME Inv
             PROVE  /\ TypeOK /\ TablesAgree /\ AnswersBoundRoot
                    /\ DiagnosticsFollowBinding /\ WorkIsBounded
  OBVIOUS
<1>1. retained \subseteq Roots
  BY DEF Inv, AuthorityInv, Live, Session
<1>2. TypeOK
  BY <1>1 DEF Inv, AuthorityInv, RegistryInv, WorkInv, SpentInv, RequestInv, TokenInv,
              CacheInv, TypeOK
<1>3. TablesAgree
  BY DEF Inv, AuthorityInv, RegistryInv, WorkInv, TablesAgree
<1>4. DiagnosticsFollowBinding
  BY DEF Inv, TokenInv, CacheInv, DiagnosticsFollowBinding, Held
<1> QED
  BY <1>2, <1>3, <1>4 DEF Inv, WorkInv

\* A server that has just started satisfies the inductive invariant.
LEMMA InitInv == Init => Inv
<1> SUFFICES ASSUME Init
             PROVE  Inv
  OBVIOUS
<1>1. Live = {} /\ Open = {} /\ \A c \in Caches : Held(c) = {}
  BY DEF Init, Live, Open, Held
<1>2. AuthorityInv
  BY <1>1, ServerAssumption DEF Init, AuthorityInv
<1>3. RegistryInv
  BY <1>1, ServerAssumption DEF Init, RegistryInv
<1>4. WorkInv /\ SpentInv
  BY <1>1, ServerAssumption DEF Init, WorkInv, SpentInv, WorkIsBounded
<1>5. RequestInv
  BY DEF Init, RequestInv, Busy
<1>6. TokenInv
  <2>1. \A s : {t \in {} : t.session = s} = {}
    OBVIOUS
  <2> QED
    BY <2>1, ServerAssumption, FS_EmptySet DEF Init, TokenInv
<1>7. CacheInv
  <2>1. attempts \in [Caches -> [Attempts -> Entry \cup {Absent}]]
    BY DEF Init
  <2> QED
    BY <1>1, <2>1, ServerAssumption, FS_EmptySet DEF CacheInv, LinkInv, Caches
<1>8. AnswersBoundRoot
  BY DEF Init, AnswersBoundRoot, Silent
<1> QED
  BY <1>2, <1>3, <1>4, <1>5, <1>6, <1>7, <1>8 DEF Inv
-----------------------------------------------------------------------------
(* The end of a request.                                                   *)

\* The slot comes back, and nothing else in the registry changes.
LEMMA ReleaseKeeps ==
  ASSUME Inv, pc \in Busy, Release(req.session)
  PROVE  /\ registry' \in [Names -> Slot \cup {Absent}]
         /\ \A s \in Names : registry'[s] = Absent <=> registry[s] = Absent
         /\ \A s \in Names : registry[s] # Absent =>
              registry'[s].closed = registry[s].closed /\ registry'[s].last = registry[s].last
         /\ Open' = Open
         /\ \A s \in Open : registry'[s].inflight = 0
<1>1. PICK s \in Names : s = req.session
  BY DEF Inv, RequestInv, Busy, Live
<1>2. s \in Open /\ registry[s] \in Slot /\ registry[s].inflight = 1
  BY <1>1 DEF Inv, RequestInv, RegistryInv, Open
<1>3. registry' = [registry EXCEPT ![s].inflight = @ - 1]
  BY <1>1, <1>2 DEF Release
<1>a. registry[s].inflight - 1 \in 0..MaxInflight
  BY <1>2, ServerAssumption
<1>b. [registry[s] EXCEPT !.inflight = @ - 1] \in Slot
  BY <1>2, <1>a DEF Slot
<1>4. PICK e \in Slot : e = [registry[s] EXCEPT !.inflight = @ - 1]
  BY <1>b
<1>5. e.inflight = 0 /\ e.closed = registry[s].closed /\ e.last = registry[s].last /\ e # Absent
  BY <1>2, <1>4, AbsentAssumption DEF Slot
<1>6. registry' \in [Names -> Slot \cup {Absent}] /\ registry' = [registry EXCEPT ![s] = e]
  BY <1>3, <1>4 DEF Inv, RegistryInv
<1>7. \A x \in Names : registry'[x] = IF x = s THEN e ELSE registry[x]
  BY <1>6 DEF Inv, RegistryInv
<1>8. Open' = Open
  BY <1>2, <1>5, <1>7 DEF Open
<1>9. \A x \in Open : registry'[x].inflight = 0
  BY <1>1, <1>5, <1>7 DEF Inv, RegistryInv, Open
<1> QED
  BY <1>2, <1>5, <1>6, <1>7, <1>8, <1>9 DEF Open

\* A charge leaves no budget below zero and none above what it was.
LEMMA ChargedKeeps ==
  ASSUME Inv, NEW s \in Names, NEW n \in Nat, Charged(s, n)
  PROVE  /\ budgets' \in [Names -> 0..MaxWork \cup {Absent}]
         /\ \A x \in Names : budgets'[x] = Absent <=> budgets[x] = Absent
         /\ \A x \in Names : budgets[x] # Absent => budgets'[x] <= budgets[x]
<1>1. budgets \in [Names -> 0..MaxWork \cup {Absent}]
  BY DEF Inv, WorkInv
<1>2. CASE budgets[s] = Absent
  BY <1>1, <1>2, ServerAssumption DEF Charged
<1>3. CASE budgets[s] # Absent
  <2>1. PICK k \in 0..MaxWork : k = budgets[s]
    BY <1>1, <1>3
  <2>2. PICK j \in 0..MaxWork : j = (IF k < n THEN 0 ELSE k - n) /\ j <= k
    BY <2>1, ServerAssumption
  <2>3. budgets' = [budgets EXCEPT ![s] = j]
    BY <1>1, <1>3, <2>1, <2>2 DEF Charged
  <2>4. j # Absent
    BY AbsentAssumption
  <2> QED
    BY <1>1, <1>3, <2>1, <2>2, <2>3, <2>4, ServerAssumption
<1> QED
  BY <1>2, <1>3

\* A step that moves at most the head leaves the authority as it is.
LEMMA AuthorityKeeps ==
  ASSUME Inv, head' = head \/ head' \in Roots, UNCHANGED <<issued, sessions, retained>>
  PROVE  AuthorityInv' /\ Live' = Live
  BY DEF Inv, AuthorityInv, Live

\* A request that ends leaves the tables in agreement.
LEMMA EndKeeps ==
  ASSUME Inv, pc \in Busy, Release(req.session), Done, pc' \in {"idle", "respond"},
         UNCHANGED <<moves, frames, maxSessions, issued, closeOrder, spent, runs>>,
         Live' = Live, budgets' = budgets \/ \E n \in Nat : Charged(req.session, n)
  PROVE  RegistryInv' /\ WorkInv' /\ SpentInv' /\ RequestInv'
<1>1. Live' = Live /\ req.session \in Names
  BY DEF Live, Inv, RequestInv, Busy
<1>3. RegistryInv'
  <2>1. \A s \in Open' : registry'[s].inflight = IF req'.session = s THEN 1 ELSE 0
    BY ReleaseKeeps DEF Done, NoRequest, Open, Names
  <2>2. {s \in Names : registry'[s] # Absent /\ registry'[s].closed}
          = {s \in Names : registry[s] # Absent /\ registry[s].closed}
    BY ReleaseKeeps
  <2>3. /\ Live' = Open'
        /\ \A s \in Names : registry'[s] # Absent => s <= issued'
    BY <1>1, ReleaseKeeps DEF Inv, RegistryInv
  <2> QED
    BY <2>1, <2>2, <2>3, ReleaseKeeps DEF Inv, RegistryInv
<1>4. WorkInv'
  <2>1. /\ budgets' \in [Names -> 0..MaxWork \cup {Absent}]
        /\ \A x \in Names : budgets'[x] = Absent <=> budgets[x] = Absent
        /\ \A x \in Names : budgets[x] # Absent => budgets'[x] <= budgets[x]
    <3>1. CASE budgets' = budgets
      BY <3>1, ServerAssumption DEF Inv, WorkInv
    <3>2. CASE \E n \in Nat : Charged(req.session, n)
      BY <1>1, <3>2, ChargedKeeps
    <3> QED
      BY <3>1, <3>2
  <2>2. WorkIsBounded'
    <3> SUFFICES ASSUME NEW s \in Live
                 PROVE  runs[s] + budgets'[s] <= MaxWork
      BY <1>1 DEF WorkIsBounded
    <3>1. /\ budgets[s] \in 0..MaxWork /\ budgets'[s] \in 0..MaxWork
          /\ runs[s] \in Nat /\ runs[s] + budgets[s] <= MaxWork
      BY <2>1 DEF Inv, WorkInv, WorkIsBounded, Live
    <3> QED
      BY <2>1, <3>1, ServerAssumption DEF Inv, WorkInv, Live
  <2> QED
    BY <1>1, <2>1, <2>2 DEF Inv, WorkInv
<1>5. SpentInv'
  BY <1>1, ReleaseKeeps DEF Inv, SpentInv, Open
<1>6. RequestInv'
  BY DEF RequestInv, Done, Busy
<1> QED
  BY <1>3, <1>4, <1>5, <1>6
-----------------------------------------------------------------------------
(* The tokens and the attempt caches.                                      *)

\* The number of a subset of a session's tokens is within the cap.
LEMMA FewerTokens ==
  ASSUME Inv, NEW T, T \subseteq tokens, NEW s \in Names
  PROVE  Cardinality({t \in T : t.session = s}) <= MaxTokens
<1>1. IsFiniteSet({t \in tokens : t.session = s})
  BY FS_Subset DEF Inv, TokenInv
<1>2. {t \in T : t.session = s} \subseteq {t \in tokens : t.session = s}
  OBVIOUS
<1>3. /\ Cardinality({t \in T : t.session = s}) <= Cardinality({t \in tokens : t.session = s})
      /\ Cardinality({t \in tokens : t.session = s}) \in Nat
      /\ Cardinality({t \in T : t.session = s}) \in Nat
  BY <1>1, <1>2, FS_Subset, FS_CardinalityType
<1> QED
  BY <1>3, ServerAssumption DEF Inv, TokenInv

\* A cache that holds a part of what it held is within its cap.
LEMMA FewerAttempts ==
  ASSUME Inv, \A c \in Caches : Held(c)' \subseteq Held(c)
  PROVE  \A c \in Caches : (IsFiniteSet(Held(c)) /\ Cardinality(Held(c)) <= MaxAttempts)'
<1> SUFFICES ASSUME NEW c \in Caches
             PROVE  IsFiniteSet(Held(c)') /\ Cardinality(Held(c)') <= MaxAttempts
  BY ServerAssumption
<1>1. IsFiniteSet(Held(c)) /\ Cardinality(Held(c)) <= MaxAttempts
  BY DEF Inv, CacheInv
<1>2. /\ IsFiniteSet(Held(c)') /\ Cardinality(Held(c)') <= Cardinality(Held(c))
      /\ Cardinality(Held(c)) \in Nat /\ Cardinality(Held(c)') \in Nat
  BY <1>1, FS_Subset, FS_CardinalityType
<1> QED
  BY <1>1, <1>2, ServerAssumption

\* A step keeps the attempts and the tokens in agreement if the tokens it
\* leaves were there or take the next number, and the attempts it leaves were
\* there or lead to no token or to the new one.
LEMMA LinkKeeps ==
  ASSUME Inv, NEW r, minted' \in Nat, minted <= minted',
         \A t \in tokens' : (\E u \in tokens : u.num = t.num /\ u.root = t.root)
                             \/ (t.num = minted + 1 /\ t.root = r),
         \A c \in Caches : \A a \in Held(c)' :
           \/ a \in Held(c) /\ attempts'[c][a] = attempts[c][a]
           \/ /\ attempts'[c][a].token \in {0, minted + 1} /\ attempts'[c][a].token <= minted'
              /\ attempts'[c][a].named = r
  PROVE  LinkInv'
<1> SUFFICES ASSUME NEW c \in Caches, NEW a \in Held(c)'
             PROVE  /\ attempts'[c][a].token <= minted'
                    /\ \A t \in tokens' : t.num = attempts'[c][a].token =>
                                            t.root = attempts'[c][a].named
  BY DEF LinkInv
<1>1. minted \in Nat /\ \A t \in tokens : t.num \in Nat /\ t.num > 0 /\ t.num <= minted
  BY ServerAssumption DEF Inv, TokenInv, Token
<1>2. CASE a \in Held(c) /\ attempts'[c][a] = attempts[c][a]
  <2>1. /\ attempts[c][a].token \in Nat /\ attempts[c][a].token <= minted
        /\ \A t \in tokens : t.num = attempts[c][a].token => t.root = attempts[c][a].named
    BY <1>2, ServerAssumption DEF Inv, CacheInv, LinkInv, Held, Entry
  <2> QED
    BY <1>1, <1>2, <2>1
<1>3. CASE /\ attempts'[c][a].token \in {0, minted + 1} /\ attempts'[c][a].token <= minted'
           /\ attempts'[c][a].named = r
  BY <1>1, <1>3
<1> QED
  BY <1>2, <1>3

\* So does a step that adds neither a token nor an attempt.
LEMMA LinkFewer ==
  ASSUME Inv, minted' = minted,
         \A t \in tokens' : \E u \in tokens : u.num = t.num /\ u.root = t.root,
         \A c \in Caches : \A a \in Held(c)' :
           a \in Held(c) /\ attempts'[c][a] = attempts[c][a]
  PROVE  LinkInv'
  BY DEF Inv, CacheInv, LinkInv

\* Nothing happens to the diagnostics, and no session loses its binding.
LEMMA IdleDiagnostics ==
  ASSUME Inv, UNCHANGED diagnostics,
         \A s \in Live : s \in Live' /\ sessions'[s].bound = sessions[s].bound
  PROVE  TokenInv' /\ CacheInv'
<1>1. tokens' = tokens /\ minted' = minted /\ attempts' = attempts
  BY DEF diagnostics
<1>2. TokenInv'
  BY <1>1 DEF Inv, TokenInv
<1>3. \A c \in Caches : Held(c)' = Held(c)
  BY <1>1 DEF Held
<1>4. CacheInv'
  <2>1. LinkInv'
    BY <1>1, <1>3 DEF Inv, CacheInv, LinkInv
  <2> QED
    BY <1>1, <1>3, <2>1, FewerAttempts DEF Inv, CacheInv, Caches
<1> QED
  BY <1>2, <1>4

\* A session loses its tokens and its diagnostic attempts, and may then be
\* bound anew or gone.
LEMMA SessionInvalidated ==
  ASSUME Inv, NEW s \in Names, InvalidateDiagnosticSession(s),
         \A x \in Names \ {s} : sessions'[x] = sessions[x]
  PROVE  TokenInv' /\ CacheInv'
<1>1. tokens' = {t \in tokens : t.session # s} /\ minted' = minted
  BY DEF InvalidateDiagnosticSession
<1>2. \A x \in Live \ {s} : x \in Live' /\ sessions'[x] = sessions[x]
  BY DEF Live
<1>3. TokenInv'
  <2>1. tokens' \subseteq tokens /\ IsFiniteSet(tokens')
    BY <1>1, FS_Subset DEF Inv, TokenInv
  <2>2. \A x \in Names : Cardinality({t \in tokens' : t.session = x}) <= MaxTokens
    BY <2>1, FewerTokens
  <2>3. \A t \in tokens' : t.session \in Live' /\ t.under = sessions'[t.session].bound
    BY <1>1, <1>2 DEF Inv, TokenInv
  <2> QED
    BY <1>1, <2>1, <2>2, <2>3 DEF Inv, TokenInv
<1>4. PICK f \in [Attempts -> Entry \cup {Absent}] :
        /\ attempts' = [attempts EXCEPT !["diagnostic"] = f]
        /\ \A a \in Attempts : f[a] = IF /\ attempts["diagnostic"][a] # Absent
                                         /\ attempts["diagnostic"][a].session = s
                                      THEN Absent ELSE attempts["diagnostic"][a]
  <2>1. "diagnostic" \in Caches
    BY DEF Caches
  <2>2. attempts["diagnostic"] \in [Attempts -> Entry \cup {Absent}]
    BY <2>1 DEF Inv, CacheInv
  <2> DEFINE f == [a \in Attempts |-> IF /\ attempts["diagnostic"][a] # Absent
                                         /\ attempts["diagnostic"][a].session = s
                                      THEN Absent ELSE attempts["diagnostic"][a]]
  <2>3. attempts' = [attempts EXCEPT !["diagnostic"] = f]
    BY DEF InvalidateDiagnosticSession
  <2>4. f \in [Attempts -> Entry \cup {Absent}]
    BY <2>2
  <2> QED
    BY <2>3, <2>4
<1>5. attempts' \in [Caches -> [Attempts -> Entry \cup {Absent}]]
  BY <1>4 DEF Inv, CacheInv
<1>6. attempts'["diagnostic"] = f /\ attempts'["replay"] = attempts["replay"]
  BY <1>4 DEF Inv, CacheInv, Caches
<1>7. \A c \in Caches : Held(c)' \subseteq Held(c)
  BY <1>4, <1>6 DEF Held, Caches
<1>8. \A a \in Held("diagnostic")' : attempts'["diagnostic"][a].session \in Live'
  BY <1>2, <1>4, <1>6 DEF Inv, CacheInv, Held
<1>9. LinkInv'
  <2>1. \A c \in Caches : \A a \in Held(c)' : attempts'[c][a] = attempts[c][a]
    BY <1>4, <1>6 DEF Held, Caches
  <2> QED
    BY <1>1, <1>7, <2>1, LinkFewer
<1>10. CacheInv'
  BY <1>5, <1>7, <1>8, <1>9, FewerAttempts DEF CacheInv
<1> QED
  BY <1>3, <1>10

\* Dropping every token leaves no cached answer that one leads to.
LEMMA AllInvalidated ==
  ASSUME Inv, InvalidateAllDiagnostics
  PROVE  TokenInv' /\ CacheInv'
<1>1. tokens' = {} /\ minted' = minted
  BY DEF InvalidateAllDiagnostics
<1>2. TokenInv'
  <2>1. \A s : {t \in {} : t.session = s} = {}
    OBVIOUS
  <2> QED
    BY <1>1, <2>1, ServerAssumption, FS_EmptySet DEF Inv, TokenInv
<1>3. attempts' = [attempts EXCEPT !["diagnostic"] = [a \in Attempts |-> Absent]]
  BY DEF InvalidateAllDiagnostics
<1>4. [a \in Attempts |-> Absent] \in [Attempts -> Entry \cup {Absent}]
  OBVIOUS
<1>5. attempts' \in [Caches -> [Attempts -> Entry \cup {Absent}]]
  BY <1>3, <1>4 DEF Inv, CacheInv
<1>6. attempts'["diagnostic"] = [a \in Attempts |-> Absent]
        /\ attempts'["replay"] = attempts["replay"]
  BY <1>3 DEF Inv, CacheInv, Caches
<1>7. Held("diagnostic")' = {} /\ \A c \in Caches : Held(c)' \subseteq Held(c)
  BY <1>6 DEF Held, Caches
<1>8. LinkInv'
  <2>1. \A c \in Caches : \A a \in Held(c)' : attempts'[c][a] = attempts[c][a]
    BY <1>6, <1>7 DEF Caches
  <2> QED
    BY <1>1, <1>7, <2>1, LinkFewer
<1>9. CacheInv'
  BY <1>5, <1>7, <1>8, FewerAttempts DEF CacheInv
<1> QED
  BY <1>2, <1>9

\* A new token takes the next number, and its session was below the cap.
LEMMA Minted ==
  ASSUME Inv, NEW s \in Live, NEW r \in Roots, CanMint(s), CacheVerifiedReport(s, r),
         sessions' = sessions
  PROVE  /\ TokenInv' /\ minted' \in 1..MaxMint /\ minted' = minted + 1
         /\ \E t \in tokens' : t.num = minted' /\ t.session = s /\ t.root = r
         /\ \A t \in tokens' : t \in tokens \/ (t.num = minted + 1 /\ t.root = r)
<1>1. PICK m \in 1..MaxMint : m = minted' /\ m = minted + 1
  BY ServerAssumption DEF CacheVerifiedReport, CanMint, Inv, TokenInv
<1>2. PICK n : n = [num |-> m, session |-> s, root |-> r, under |-> sessions[s].bound,
                  expired |-> FALSE]
  OBVIOUS
<1>3. n \in Token
  BY <1>2 DEF Token, Live, Inv, AuthorityInv, Session
<1>4. tokens' = Kept(s) \cup {n} /\ Kept(s) \subseteq tokens
  BY <1>1, <1>2 DEF CacheVerifiedReport, Kept
<1>5. Live' = Live
  BY DEF Live
<1>6. /\ tokens' \subseteq Token /\ IsFiniteSet(tokens')
      /\ \A t \in tokens' : t.num <= minted'
      /\ \A t, u \in tokens' : t.num = u.num => t = u
      /\ \A t \in tokens' : t.session \in Live' /\ t.under = sessions'[t.session].bound
  <2>1. \A t \in tokens : t.num <= minted /\ t.num \in Nat /\ t.num # m
    BY <1>1, ServerAssumption DEF Inv, TokenInv, Token
  <2>2. tokens' \subseteq Token /\ IsFiniteSet(tokens')
    BY <1>3, <1>4, FS_Subset, FS_AddElement DEF Inv, TokenInv
  <2>3. \A t \in tokens' : t.num <= minted'
    BY <1>1, <1>2, <1>4, <2>1, ServerAssumption DEF Inv, TokenInv
  <2>a. n.num = m
    BY <1>2
  <2>b. \A t, u \in tokens : t.num = u.num => t = u
    BY DEF Inv, TokenInv
  <2>4. \A t, u \in tokens' : t.num = u.num => t = u
    BY <1>4, <2>1, <2>a, <2>b
  <2>5. \A t \in tokens' : t.session \in Live' /\ t.under = sessions'[t.session].bound
    BY <1>2, <1>4, <1>5 DEF Inv, TokenInv
  <2> QED
    BY <2>2, <2>3, <2>4, <2>5
<1>7. \A x \in Names : Cardinality({t \in tokens' : t.session = x}) <= MaxTokens
  <2> SUFFICES ASSUME NEW x \in Names
               PROVE  Cardinality({t \in tokens' : t.session = x}) <= MaxTokens
    OBVIOUS
  <2>1. CASE x # s
    <3>1. {t \in tokens' : t.session = x} = {t \in Kept(s) : t.session = x}
      BY <1>2, <1>4, <2>1
    <3> QED
      BY <1>4, <3>1, FewerTokens
  <2>2. CASE x = s
    <3>1. {t \in tokens' : t.session = x} = {t \in Kept(s) : t.session = s} \cup {n}
      BY <1>2, <1>4, <2>2
    <3>2. IsFiniteSet({t \in Kept(s) : t.session = s})
      BY <1>4, FS_Subset DEF Inv, TokenInv
    <3>3. Cardinality({t \in Kept(s) : t.session = s}) < MaxTokens
      BY DEF CanMint
    <3>4. Cardinality({t \in Kept(s) : t.session = s}) \in Nat
      BY <3>2, FS_CardinalityType
    <3>5. \/ Cardinality({t \in tokens' : t.session = x})
               = Cardinality({t \in Kept(s) : t.session = s})
          \/ Cardinality({t \in tokens' : t.session = x})
               = Cardinality({t \in Kept(s) : t.session = s}) + 1
      BY <3>1, <3>2, FS_AddElement
    <3> QED
      BY <3>3, <3>4, <3>5, ServerAssumption
  <2> QED
    BY <2>1, <2>2
<1>8. TokenInv'
  BY <1>1, <1>6, <1>7, ServerAssumption DEF TokenInv
<1> QED
  BY <1>1, <1>2, <1>4, <1>8

\* A token that expires stays the same token.
LEMMA Expired ==
  ASSUME Inv, NEW t \in tokens, TokenExpires(t)
  PROVE  TokenInv' /\ \A x \in tokens' : \E y \in tokens : y.num = x.num /\ y.root = x.root
<1>1. PICK u : u = [t EXCEPT !.expired = TRUE]
  OBVIOUS
<1>2. /\ u \in Token /\ u.num = t.num /\ u.session = t.session /\ u.under = t.under
      /\ u.root = t.root /\ u # t
  <2>1. t \in Token /\ ~t.expired
    BY DEF Inv, TokenInv, TokenExpires
  <2> QED
    BY <1>1, <2>1 DEF Token
<1>3. tokens' = (tokens \ {t}) \cup {u} /\ minted' = minted /\ sessions' = sessions
  BY <1>1 DEF TokenExpires, authority
<1>4. Live' = Live
  BY <1>3 DEF Live
<1>5. IsFiniteSet(tokens')
  BY <1>3, FS_RemoveElement, FS_AddElement DEF Inv, TokenInv
<1>6. u \notin tokens
  BY <1>2 DEF Inv, TokenInv
<1>7. \A s \in Names : Cardinality({x \in tokens' : x.session = s}) <= MaxTokens
  <2> SUFFICES ASSUME NEW s \in Names
               PROVE  Cardinality({x \in tokens' : x.session = s}) <= MaxTokens
    OBVIOUS
  <2> DEFINE S == {x \in tokens : x.session = s}
  <2>1. CASE s # t.session
    <3>1. {x \in tokens' : x.session = s} = S
      BY <1>2, <1>3, <2>1
    <3> QED
      BY <3>1, FewerTokens
  <2>2. CASE s = t.session
    <3>1. {x \in tokens' : x.session = s} = (S \ {t}) \cup {u}
      BY <1>2, <1>3, <2>2
    <3>2. IsFiniteSet(S) /\ t \in S /\ u \notin S \ {t} /\ Cardinality(S) \in Nat
      BY <1>6, <2>2, FS_Subset, FS_CardinalityType DEF Inv, TokenInv
    <3>3. IsFiniteSet(S \ {t}) /\ Cardinality(S \ {t}) = Cardinality(S) - 1
      BY <3>2, FS_RemoveElement
    <3>4. Cardinality((S \ {t}) \cup {u}) = Cardinality(S \ {t}) + 1
      BY <3>2, <3>3, FS_AddElement
    <3>5. Cardinality(S) <= MaxTokens
      BY FewerTokens
    <3> HIDE DEF S
    <3>6. Cardinality((S \ {t}) \cup {u}) <= MaxTokens
      BY <3>2, <3>3, <3>4, <3>5, ServerAssumption
    <3> QED
      BY <3>1, <3>6
  <2> QED
    BY <2>1, <2>2
<1> QED
  BY <1>2, <1>3, <1>4, <1>5, <1>7 DEF Inv, TokenInv

\* A finished attempt finds room: a full cache has forgotten an entry.
LEMMA Stored ==
  ASSUME Inv, NEW c \in Caches, NEW a \in Attempts, NEW e \in Entry, e.session \in Live,
         StoreAttempt(c, a, e), sessions' = sessions,
         minted' \in Nat, minted <= minted', e.token \in {0, minted + 1}, e.token <= minted',
         \A t \in tokens' : t \in tokens \/ (t.num = minted + 1 /\ t.root = e.named)
  PROVE  CacheInv'
<1>1. PICK V \in SUBSET Attempts :
        /\ attempts' = [attempts EXCEPT ![c] =
             [b \in Attempts |-> IF b = a THEN e ELSE IF b \in V THEN Absent ELSE @[b]]]
        /\ IF Cardinality(Held(c)) >= MaxAttempts THEN \E b \in Held(c) : V = {b} ELSE V = {}
  <2>1. PICK V \in IF Cardinality(Held(c)) >= MaxAttempts THEN {{b} : b \in Held(c)} ELSE {{}} :
          attempts' = [attempts EXCEPT ![c] =
             [b \in Attempts |-> IF b = a THEN e ELSE IF b \in V THEN Absent ELSE @[b]]]
    BY DEF StoreAttempt
  <2>2. IF Cardinality(Held(c)) >= MaxAttempts THEN \E b \in Held(c) : V = {b} ELSE V = {}
    BY <2>1
  <2>3. V \in SUBSET Attempts
    BY <2>2 DEF Held
  <2> QED
    BY <2>1, <2>2, <2>3
<1>2. attempts \in [Caches -> [Attempts -> Entry \cup {Absent}]]
  BY DEF Inv, CacheInv
<1>3. PICK f \in [Attempts -> Entry \cup {Absent}] :
        /\ f = [b \in Attempts |->
                  IF b = a THEN e ELSE IF b \in V THEN Absent ELSE attempts[c][b]]
        /\ attempts' = [attempts EXCEPT ![c] = f]
  <2>1. [b \in Attempts |-> IF b = a THEN e ELSE IF b \in V THEN Absent ELSE attempts[c][b]]
          \in [Attempts -> Entry \cup {Absent}]
    BY <1>2
  <2> QED
    BY <1>1, <1>2, <2>1
<1>4. attempts' \in [Caches -> [Attempts -> Entry \cup {Absent}]]
  BY <1>2, <1>3
<1>5. \A d \in Caches : attempts'[d] = IF d = c THEN f ELSE attempts[d]
  BY <1>2, <1>3
<1>6. /\ Held(c)' = (Held(c) \ V) \cup {a}
      /\ \A d \in Caches \ {c} : Held(d)' = Held(d)
  <2>1. e # Absent
    BY AbsentAssumption
  <2> QED
    BY <1>3, <1>5, <2>1 DEF Held
<1>7. IsFiniteSet(Held(c)') /\ Cardinality(Held(c)') <= MaxAttempts
  <2>1. IsFiniteSet(Held(c)) /\ Cardinality(Held(c)) <= MaxAttempts /\ Cardinality(Held(c)) \in Nat
    BY FS_CardinalityType DEF Inv, CacheInv
  <2>2. IsFiniteSet(Held(c) \ V) /\ Cardinality(Held(c) \ V) < MaxAttempts
    <3>1. CASE Cardinality(Held(c)) >= MaxAttempts
      <4>1. PICK b \in Held(c) : V = {b}
        BY <1>1, <3>1
      <4>2. IsFiniteSet(Held(c) \ V) /\ Cardinality(Held(c) \ V) = Cardinality(Held(c)) - 1
        BY <2>1, <4>1, FS_RemoveElement
      <4> QED
        BY <2>1, <4>2, ServerAssumption
    <3>2. CASE ~(Cardinality(Held(c)) >= MaxAttempts)
      <4>1. Held(c) \ V = Held(c)
        BY <1>1, <3>2
      <4> QED
        BY <2>1, <3>2, <4>1, ServerAssumption
    <3> QED
      BY <3>1, <3>2
  <2>3. Cardinality(Held(c) \ V) \in Nat
    BY <2>2, FS_CardinalityType
  <2>4. /\ IsFiniteSet((Held(c) \ V) \cup {a})
        /\ \/ Cardinality((Held(c) \ V) \cup {a}) = Cardinality(Held(c) \ V)
           \/ Cardinality((Held(c) \ V) \cup {a}) = Cardinality(Held(c) \ V) + 1
    BY <2>2, FS_AddElement
  <2> QED
    BY <1>6, <2>2, <2>3, <2>4, ServerAssumption
<1>8. \A b \in Held("diagnostic")' : attempts'["diagnostic"][b].session \in Live'
  BY <1>3, <1>5 DEF Inv, CacheInv, Held, Live, Caches
<1>9. \A d \in Caches : (IsFiniteSet(Held(d)) /\ Cardinality(Held(d)) <= MaxAttempts)'
  BY <1>6, <1>7, ServerAssumption DEF Inv, CacheInv
<1>10. LinkInv'
  <2>1. \A d \in Caches : \A b \in Held(d)' :
          (b \in Held(d) /\ attempts'[d][b] = attempts[d][b]) \/ attempts'[d][b] = e
    BY <1>3, <1>5 DEF Held
  <2> QED
    BY <2>1, LinkKeeps
<1> QED
  BY <1>4, <1>8, <1>9, <1>10 DEF CacheInv
-----------------------------------------------------------------------------
(* The answers.                                                            *)

\* An answer that names no root is over none.
LEMMA QuietAnswer ==
  ASSUME Quiet
  PROVE  AnswersBoundRoot' /\ pc' \in {"idle", "respond"}
  BY DEF Quiet, AnswersBoundRoot, Silent

\* A number leads to its one token, and so to the root of that token.
LEMMA TokenAnswer ==
  ASSUME Inv, TokenInv', NEW n, NEW named, ReadsToken(n, named),
         NEW t \in tokens', t.num = n,
         \/ req.method \in {"diagnose", "replay"} /\ t.root = named
         \/ req.method \in {"status", "page"}
  PROVE  AnswersBoundRoot' /\ pc' \in {"idle", "respond"}
<1>1. \A u \in tokens' : u.num = n => u = t
  BY DEF TokenInv
<1>2. t = CHOOSE u \in tokens' : u.num = n
  BY <1>1
<1>3. Reads(t.root, named)
  BY <1>2 DEF ReadsToken
<1> QED
  BY <1>3 DEF Reads, AnswersBoundRoot

\* A read of a root that is the session's and, where the request names one,
\* the named one.
LEMMA BoundAnswer ==
  ASSUME Inv, NEW r, NEW n, Reads(r, n),
         req.method \in {"open", "entity", "capsule", "expand"} =>
           r = sessions[req.session].bound,
         req.method \in {"query", "capsule", "expand", "diagnose", "replay"} => r = n
  PROVE  AnswersBoundRoot' /\ pc' \in {"idle", "respond"}
  BY DEF Reads, AnswersBoundRoot
-----------------------------------------------------------------------------
(* The steps that end a request.                                           *)

\* A request that ends without a change of a session, a token or an attempt.
LEMMA PlainEnd ==
  ASSUME Inv, pc \in Busy, Answered, UNCHANGED diagnostics,
         AnswersBoundRoot', pc' \in {"idle", "respond"},
         budgets' = budgets \/ \E n \in Nat : Charged(req.session, n)
  PROVE  Inv'
<1>1. AuthorityInv' /\ RegistryInv' /\ WorkInv' /\ SpentInv' /\ RequestInv'
  BY AuthorityKeeps, EndKeeps DEF Answered, authority, env, history
<1>2. TokenInv' /\ CacheInv'
  BY IdleDiagnostics DEF Answered, authority, Live
<1> QED
  BY <1>1, <1>2 DEF Inv

\* A request that is refused.
LEMMA RefuseKeeps ==
  ASSUME Inv, Refuse \/ EngineRefuses
  PROVE  Inv'
<1>1. /\ pc \in Busy /\ Release(req.session) /\ Done /\ Quiet
      /\ UNCHANGED <<head, env, issued, authority, closeOrder, diagnostics, history>>
  BY DEF Refuse, EngineRefuses, Busy
<1>2. budgets' = budgets \/ \E n \in Nat : Charged(req.session, n)
  <2>1. budgets[req.session] \in Nat
    BY <1>1 DEF Inv, RequestInv, WorkInv, Live
  <2> QED
    BY <2>1 DEF Refuse, EngineRefuses
<1> QED
  BY <1>1, <1>2, QuietAnswer, PlainEnd DEF Answered

\* Methods that read, and a merge that ends in a conflict.
LEMMA ReadKeeps ==
  ASSUME Inv, FreeMethod \/ WorkspaceOpen \/ EntityRead \/ QueryRoot \/ Capsule
              \/ HandleExpand \/ Survey \/ MergeConflict
  PROVE  Inv'
<1>1. pc \in Busy /\ Answered /\ UNCHANGED diagnostics
  BY DEF FreeMethod, WorkspaceOpen, EntityRead, QueryRoot, Capsule, HandleExpand, Survey,
         MergeConflict, Acts, Busy
<1>2. \E n \in Nat : Charged(req.session, n)
  <2>1. CASE EntityRead
    <3>1. PICK n \in 0..budgets[req.session] : Charged(req.session, n)
      BY <2>1 DEF EntityRead
    <3>2. budgets[req.session] \in Nat
      BY <1>1 DEF Inv, RequestInv, WorkInv, Live
    <3> QED
      BY <3>1, <3>2
  <2>2. CASE FreeMethod
    BY <2>2 DEF FreeMethod
  <2>3. CASE WorkspaceOpen \/ QueryRoot \/ Capsule \/ HandleExpand \/ Survey
             \/ MergeConflict
    BY <2>3 DEF WorkspaceOpen, QueryRoot, Capsule, HandleExpand, Survey, MergeConflict
  <2> QED
    BY <2>1, <2>2, <2>3
<1>3. AnswersBoundRoot' /\ pc' \in {"idle", "respond"}
  <2>1. CASE FreeMethod \/ MergeConflict
    BY <2>1, QuietAnswer DEF FreeMethod, MergeConflict
  <2>2. CASE WorkspaceOpen \/ EntityRead
    <3>1. Reads(seen, NoRoot) /\ req.method \in {"open", "entity"} /\ pc = "act"
      BY <2>2 DEF WorkspaceOpen, EntityRead, Acts
    <3>2. seen = sessions[req.session].bound
      BY <3>1 DEF Inv, RequestInv, HeadBound
    <3> QED
      BY <3>1, <3>2, BoundAnswer
  <2>3. CASE QueryRoot
    BY <2>3, BoundAnswer DEF QueryRoot, Acts
  <2>4. CASE Capsule
    BY <2>4, BoundAnswer DEF Capsule, Acts
  <2>5. CASE HandleExpand
    BY <2>5, BoundAnswer DEF HandleExpand, Acts
  <2>6. CASE Survey
    BY <2>6, BoundAnswer DEF Survey, Acts
  <2> QED
    BY <2>1, <2>2, <2>3, <2>4, <2>5, <2>6
<1> QED
  BY <1>1, <1>2, <1>3, PlainEnd

\* A checkout, which forgets the diagnostics of its session.
LEMMA CheckoutKeeps ==
  ASSUME Inv, Checkout
  PROVE  Inv'
<1>1. /\ pc \in Busy /\ Answered /\ Quiet /\ Charged(req.session, 1)
      /\ InvalidateDiagnosticSession(req.session)
  BY DEF Checkout, Acts, Busy
<1>2. AuthorityInv' /\ RegistryInv' /\ WorkInv' /\ SpentInv' /\ RequestInv'
  BY <1>1, AuthorityKeeps, EndKeeps, QuietAnswer DEF Answered, authority, env, history
<1>3. req.session \in Names
  BY <1>1 DEF Inv, RequestInv, Live
<1>4. TokenInv' /\ CacheInv'
  BY <1>1, <1>3, SessionInvalidated DEF Answered, authority
<1> QED
  BY <1>1, <1>2, <1>4, QuietAnswer DEF Inv

\* A commit through this server.
LEMMA CommitKeeps ==
  ASSUME Inv, NEW r \in Roots, Commit(r) \/ NativeCommit(r)
  PROVE  Inv'
<1>1. pc \in Busy /\ CommitTo(r)
  BY DEF Commit, NativeCommit, Acts, Busy
<1>2. /\ Release(req.session) /\ Done /\ Quiet /\ head' = r
      /\ UNCHANGED <<env, issued, authority, closeOrder, history>>
      /\ \/ InvalidateAllDiagnostics /\ Charged(req.session, 1)
         \/ UNCHANGED <<diagnostics, budgets>>
  BY <1>1 DEF CommitTo
<1>3. AuthorityInv' /\ RegistryInv' /\ WorkInv' /\ SpentInv' /\ RequestInv'
  BY <1>1, <1>2, AuthorityKeeps, EndKeeps, QuietAnswer DEF authority, env, history
<1>4. TokenInv' /\ CacheInv'
  BY <1>2, IdleDiagnostics, AllInvalidated DEF authority, Live
<1> QED
  BY <1>2, <1>3, <1>4, QuietAnswer DEF Inv

\* The native test reads.
LEMMA TestsKeep ==
  ASSUME Inv, Diagnose \/ Replay \/ AttemptStatus \/ ReportRead
  PROVE  Inv'
<1>1. /\ pc = "act" /\ sessions[req.session].bound = head /\ Answered
      /\ Charged(req.session, 1)
      /\ req.method \in {"diagnose", "replay", "status", "page"}
  BY DEF Diagnose, Replay, AttemptStatus, ReportRead, ReplayCached, RunAttempt, Mismatch,
         TestsNative, Acts
<1>2. PICK s \in Live : s = req.session
  BY <1>1 DEF Inv, RequestInv, Busy
<1>3. sessions' = sessions /\ head \in Roots /\ s \in Names /\ pc \in Busy
  BY <1>1, <1>2 DEF Answered, authority, Inv, AuthorityInv, Live, Busy
<1>4. SUFFICES /\ TokenInv' /\ CacheInv' /\ AnswersBoundRoot'
               /\ pc' \in {"idle", "respond"}
  <2>1. ASSUME pc' \in {"idle", "respond"}
        PROVE  AuthorityInv' /\ RegistryInv' /\ WorkInv' /\ SpentInv' /\ RequestInv'
    BY <1>1, <1>3, <2>1, AuthorityKeeps, EndKeeps DEF Answered, authority, env, history
  <2> QED
    BY <2>1 DEF Inv
<1>5. ASSUME UNCHANGED diagnostics PROVE TokenInv' /\ CacheInv'
  BY <1>3, <1>5, IdleDiagnostics DEF Live
<1>6. ASSUME NEW m \in {"diagnose", "replay"}, NEW c \in Caches, ReplayCached(m, c)
      PROVE  /\ TokenInv' /\ CacheInv' /\ AnswersBoundRoot'
             /\ pc' \in {"idle", "respond"}
  <2>1. PICK a \in Attempts, named \in Roots :
          /\ Cached(c, a, named) /\ UNCHANGED diagnostics
          /\ ReadsToken(attempts[c][a].token, named)
    BY <1>6 DEF ReplayCached
  <2>2. /\ a \in Held(c) /\ attempts[c][a].named = named
        /\ tokens' = tokens /\ req.method = m
    BY <1>6, <2>1 DEF Cached, SameBindings, Held, diagnostics, ReplayCached, TestsNative, Acts
  <2>3. PICK t \in tokens' : t.num = attempts[c][a].token
    BY <2>1, <2>2 DEF Cached, LiveToken
  <2>4. t.root = named
    BY <2>2, <2>3 DEF Inv, CacheInv, LinkInv
  <2> QED
    BY <1>5, <2>1, <2>2, <2>3, <2>4, TokenAnswer
<1>7. ASSUME NEW m \in {"diagnose", "replay"}, NEW c \in Caches, RunAttempt(m, c)
      PROVE  /\ TokenInv' /\ CacheInv' /\ AnswersBoundRoot'
             /\ pc' \in {"idle", "respond"}
  <2>1. PICK a \in Attempts, named \in Roots :
          /\ CanMint(s) /\ CacheVerifiedReport(s, named) /\ ReadsToken(minted', named)
          /\ StoreAttempt(c, a, [session |-> s, base |-> Base(c), named |-> named,
                                 token |-> minted'])
    BY <1>2, <1>7 DEF RunAttempt
  <2>2. /\ TokenInv' /\ minted' \in 1..MaxMint /\ minted' = minted + 1
        /\ \E t \in tokens' : t.num = minted' /\ t.session = s /\ t.root = named
        /\ \A t \in tokens' : t \in tokens \/ (t.num = minted + 1 /\ t.root = named)
    BY <1>3, <2>1, Minted
  <2>3. PICK e \in Entry : /\ e.session = s /\ e.named = named /\ e.token = minted'
                           /\ StoreAttempt(c, a, e)
    <3>1. [session |-> s, base |-> Base(c), named |-> named, token |-> minted'] \in Entry
      BY <1>3, <2>2, ServerAssumption DEF Entry, Base
    <3> QED
      BY <2>1, <3>1
  <2>4. CacheInv'
    <3>1. minted' \in Nat /\ minted <= minted' /\ minted \in Nat
      BY <2>2, ServerAssumption DEF Inv, TokenInv
    <3> QED
      BY <1>3, <2>2, <2>3, <3>1, Stored
  <2>5. PICK t \in tokens' : t.num = minted' /\ t.root = named
    BY <2>2
  <2>6. req.method = m
    BY <1>7 DEF RunAttempt, TestsNative, Acts
  <2> QED
    BY <2>1, <2>2, <2>4, <2>5, <2>6, TokenAnswer
<1>8. ASSUME Mismatch
      PROVE  /\ TokenInv' /\ CacheInv' /\ AnswersBoundRoot'
             /\ pc' \in {"idle", "respond"}
  <2>1. PICK a \in Attempts, named \in Roots :
          StoreAttempt("replay", a, [session |-> s, base |-> NoRoot, named |-> named,
                                     token |-> 0])
    BY <1>2, <1>8 DEF Mismatch
  <2>2. PICK e \in Entry : e.session = s /\ e.token = 0 /\ StoreAttempt("replay", a, e)
    <3>1. [session |-> s, base |-> NoRoot, named |-> named, token |-> 0] \in Entry
      BY <1>3, ServerAssumption DEF Entry
    <3> QED
      BY <2>1, <3>1
  <2>3. tokens' = tokens /\ minted' = minted /\ Live' = Live /\ Quiet
    BY <1>3, <1>8 DEF Mismatch, Live
  <2>4. CacheInv'
    <3>1. minted \in Nat /\ "replay" \in Caches
      BY ServerAssumption DEF Inv, TokenInv, Caches
    <3> QED
      BY <1>3, <2>2, <2>3, <3>1, Stored
  <2>5. TokenInv'
    BY <1>3, <2>3 DEF Inv, TokenInv
  <2> QED
    BY <2>3, <2>4, <2>5, QuietAnswer
<1>9. CASE AttemptStatus
  <2>1. ASSUME NEW r \in Roots, CanMint(s), CacheVerifiedReport(s, r),
               ReadsToken(minted', NoRoot), UNCHANGED attempts
        PROVE  /\ TokenInv' /\ CacheInv' /\ AnswersBoundRoot'
               /\ pc' \in {"idle", "respond"}
    <3>1. /\ TokenInv' /\ minted' = minted + 1
          /\ \E t \in tokens' : t.num = minted' /\ t.session = s
          /\ \A t \in tokens' : t \in tokens \/ (t.num = minted + 1 /\ t.root = r)
      BY <1>3, <2>1, Minted
    <3>2. CacheInv'
      <4>1. attempts' = attempts /\ Live' = Live /\ \A c \in Caches : Held(c)' = Held(c)
        BY <1>3, <2>1 DEF Live, Held
      <4>2. minted' \in Nat /\ minted <= minted'
        BY <3>1, ServerAssumption DEF Inv, TokenInv
      <4>3. LinkInv'
        BY <3>1, <4>1, <4>2, LinkKeeps
      <4> QED
        BY <4>1, <4>3, FewerAttempts DEF Inv, CacheInv, Caches
    <3>3. PICK t \in tokens' : t.num = minted'
      BY <3>1
    <3>4. req.method = "status"
      BY <1>9 DEF AttemptStatus, TestsNative, Acts
    <3> QED
      BY <2>1, <3>1, <3>2, <3>3, <3>4, TokenAnswer
  <2>2. CASE Quiet /\ UNCHANGED diagnostics
    BY <1>5, <2>2, QuietAnswer
  <2> QED
    BY <1>2, <1>9, <2>1, <2>2 DEF AttemptStatus
<1>10. CASE ReportRead
  <2>1. PICK t \in tokens : UNCHANGED diagnostics /\ ReadsToken(t.num, NoRoot)
    BY <1>10 DEF ReportRead
  <2>2. t \in tokens' /\ req.method = "page"
    BY <1>10, <2>1 DEF diagnostics, ReportRead, TestsNative, Acts
  <2> QED
    BY <1>5, <2>1, <2>2, TokenAnswer
<1>11. CASE Diagnose
  BY <1>6, <1>7, <1>11 DEF Diagnose, Caches
<1>12. CASE Replay
  BY <1>6, <1>7, <1>8, <1>12 DEF Replay, Caches
<1> QED
  BY <1>9, <1>10, <1>11, <1>12

\* A renewal rebinds the session and drops what was read under the old root.
LEMMA RenewKeeps ==
  ASSUME Inv, SessionRenew
  PROVE  Inv'
<1>1. PICK s \in Live : s = req.session
  BY DEF SessionRenew, Acts, Inv, RequestInv, Busy
<1>2. /\ pc = "act" /\ sessions[s].renewals < MaxRenewals
      /\ sessions' = [sessions EXCEPT ![s].bound = head, ![s].renewals = @ + 1]
      /\ retained' = PruneRetained(retained \cup {head}, sessions')
      /\ InvalidateDiagnosticSession(s) /\ Release(req.session) /\ Charged(s, 1)
      /\ Done /\ Quiet /\ UNCHANGED <<head, env, issued, closeOrder, history>>
  BY <1>1 DEF SessionRenew, Acts
<1>3. PICK e \in Session : /\ sessions' = [sessions EXCEPT ![s] = e]
                           /\ e.bound = head /\ e # Absent
  <2>1. sessions[s] \in Session /\ head \in Roots /\ sessions[s].renewals + 1 \in 0..MaxRenewals
    BY <1>1, <1>2, ServerAssumption DEF Inv, AuthorityInv, Live, Session
  <2>2. [sessions[s] EXCEPT !.bound = head, !.renewals = @ + 1] \in Session
    BY <2>1 DEF Session
  <2>3. [sessions[s] EXCEPT !.bound = head, !.renewals = @ + 1].bound = head
    BY <2>1 DEF Session
  <2>4. sessions' = [sessions EXCEPT ![s] =
                       [sessions[s] EXCEPT !.bound = head, !.renewals = @ + 1]]
    BY <1>1, <1>2 DEF Inv, AuthorityInv, Live
  <2> QED
    BY <2>2, <2>3, <2>4, AbsentAssumption
<1>4. /\ sessions' \in [Names -> Session \cup {Absent}]
      /\ \A x \in Names : sessions'[x] = IF x = s THEN e ELSE sessions[x]
      /\ Live' = Live
  BY <1>1, <1>3 DEF Inv, AuthorityInv, Live
<1>5. AuthorityInv'
  <2>1. retained' = {sessions'[x].bound : x \in Live'}
    BY <1>1, <1>2, <1>3, <1>4 DEF Inv, AuthorityInv, PruneRetained, Live
  <2> QED
    BY <1>2, <1>4, <2>1 DEF Inv, AuthorityInv
<1>6. /\ pc \in Busy
      /\ UNCHANGED <<head, moves, frames, maxSessions, issued, closeOrder, spent, runs>>
  BY <1>2 DEF env, history, Busy
<1>7. RegistryInv' /\ WorkInv' /\ SpentInv' /\ RequestInv'
  BY <1>1, <1>2, <1>4, <1>6, EndKeeps, QuietAnswer
<1>8. TokenInv' /\ CacheInv'
  BY <1>1, <1>2, <1>4, SessionInvalidated DEF Live
<1> QED
  BY <1>2, <1>5, <1>7, <1>8, QuietAnswer DEF Inv

\* A sequence without repetitions loses exactly its first element.
LEMMA TailDropsHead ==
  ASSUME NEW S, NEW q \in Seq(S), q # <<>>,
         \A i, j \in DOMAIN q : q[i] = q[j] => i = j
  PROVE  /\ Tail(q) \in Seq(S) /\ Len(Tail(q)) = Len(q) - 1
         /\ \A i, j \in DOMAIN Tail(q) : Tail(q)[i] = Tail(q)[j] => i = j
         /\ {Tail(q)[i] : i \in DOMAIN Tail(q)} = {q[i] : i \in DOMAIN q} \ {Head(q)}
<1>1. /\ Tail(q) \in Seq(S) /\ Len(q) \in Nat /\ Len(q) > 0 /\ Len(Tail(q)) = Len(q) - 1
      /\ DOMAIN q = 1..Len(q) /\ DOMAIN Tail(q) = 1..(Len(q) - 1) /\ Head(q) = q[1]
      /\ \A i \in 1..(Len(q) - 1) : Tail(q)[i] = q[i + 1]
  OBVIOUS
<1>2. \A i, j \in DOMAIN Tail(q) : Tail(q)[i] = Tail(q)[j] => i = j
  BY <1>1
<1>3. \A i \in DOMAIN Tail(q) : \E j \in DOMAIN q : Tail(q)[i] = q[j] /\ q[j] # Head(q)
  <2> SUFFICES ASSUME NEW i \in DOMAIN Tail(q)
               PROVE  i + 1 \in DOMAIN q /\ Tail(q)[i] = q[i + 1] /\ q[i + 1] # q[1]
    BY <1>1
  <2> QED
    BY <1>1
<1>4. \A j \in DOMAIN q : q[j] # Head(q) => \E i \in DOMAIN Tail(q) : Tail(q)[i] = q[j]
  <2> SUFFICES ASSUME NEW j \in DOMAIN q, q[j] # Head(q)
               PROVE  j - 1 \in DOMAIN Tail(q) /\ Tail(q)[j - 1] = q[j]
    BY <1>1
  <2> QED
    BY <1>1
<1>5. \A x : x \in {Tail(q)[i] : i \in DOMAIN Tail(q)}
            <=> x \in {q[i] : i \in DOMAIN q} \ {Head(q)}
  <2>1. \A x : x \in {Tail(q)[i] : i \in DOMAIN Tail(q)} =>
                x \in {q[i] : i \in DOMAIN q} \ {Head(q)}
    <3> SUFFICES ASSUME NEW i \in DOMAIN Tail(q)
                 PROVE  Tail(q)[i] \in {q[j] : j \in DOMAIN q} \ {Head(q)}
      OBVIOUS
    <3>1. PICK j \in DOMAIN q : Tail(q)[i] = q[j] /\ q[j] # Head(q)
      BY <1>3
    <3> QED
      BY <3>1, Zenon
  <2>2. \A x : x \in {q[i] : i \in DOMAIN q} \ {Head(q)} =>
                x \in {Tail(q)[i] : i \in DOMAIN Tail(q)}
    BY <1>4, Zenon
  <2> QED
    BY <2>1, <2>2, Zenon
<1>6. {Tail(q)[i] : i \in DOMAIN Tail(q)} = {q[i] : i \in DOMAIN q} \ {Head(q)}
  BY <1>5, Zenon
<1> QED
  BY <1>1, <1>2, <1>6, Zenon

\* A close moves the name from the open ones to the remembered ones, and past
\* the cap the oldest remembered name is forgotten in both tables.
LEMMA CloseKeeps ==
  ASSUME Inv, SessionClose
  PROVE  Inv'
<1>1. PICK s \in Live : s = req.session
  BY DEF SessionClose, Acts, Inv, RequestInv, Busy
<1>2. PICK q : q = Append(closeOrder, s)
  OBVIOUS
<1> DEFINE full == Len(q) > maxSessions
<1>4. /\ pc = "act" /\ closeOrder' = IF full THEN Tail(q) ELSE q
      /\ registry' = [n \in Names |->
           IF full /\ n = Head(q) THEN Absent
           ELSE IF n = s THEN [registry[n] EXCEPT !.closed = TRUE]
           ELSE registry[n]]
      /\ sessions' = [sessions EXCEPT ![s] = Absent]
      /\ retained' = PruneRetained(retained, sessions')
      /\ budgets' = [budgets EXCEPT ![s] = Absent]
      /\ InvalidateDiagnosticSession(s) /\ Done /\ Quiet
      /\ UNCHANGED <<head, env, issued, history>>
  BY <1>1, <1>2 DEF SessionClose, Acts
<1> HIDE DEF full
<1>5. /\ sessions' \in [Names -> Session \cup {Absent}]
      /\ \A x \in Names : sessions'[x] = IF x = s THEN Absent ELSE sessions[x]
      /\ Live' = Live \ {s} /\ s \in Names
  BY <1>1, <1>4 DEF Inv, AuthorityInv, Live
<1>6. AuthorityInv'
  <2>1. retained' = {sessions'[x].bound : x \in Live'}
    BY <1>4, <1>5 DEF Inv, AuthorityInv, PruneRetained, Live
  <2> QED
    BY <1>4, <1>5, <2>1 DEF Inv, AuthorityInv
<1>7. PICK e \in Slot : e = [registry[s] EXCEPT !.closed = TRUE] /\ e.closed /\ e # Absent
  <2>1. registry[s] \in Slot
    BY <1>1 DEF Inv, RegistryInv, Open
  <2>2. [registry[s] EXCEPT !.closed = TRUE] \in Slot
          /\ [registry[s] EXCEPT !.closed = TRUE].closed
    BY <2>1 DEF Slot
  <2> QED
    BY <2>2, AbsentAssumption
<1>8. \A x \in Names : registry'[x] = IF full /\ x = Head(q) THEN Absent
                                      ELSE IF x = s THEN e ELSE registry[x]
  BY <1>4, <1>7
<1>9. /\ q \in Seq(Names) /\ q # <<>> /\ Len(q) = Len(closeOrder) + 1
      /\ \A i, j \in DOMAIN q : q[i] = q[j] => i = j
      /\ {q[i] : i \in DOMAIN q}
           = {x \in Names : registry[x] # Absent /\ registry[x].closed} \cup {s}
  <2>1. /\ closeOrder \in Seq(Names) /\ registry[s] # Absent /\ ~registry[s].closed
        /\ \A i, j \in DOMAIN closeOrder : closeOrder[i] = closeOrder[j] => i = j
        /\ {closeOrder[i] : i \in DOMAIN closeOrder} =
             {x \in Names : registry[x] # Absent /\ registry[x].closed}
    BY <1>1 DEF Inv, RegistryInv, Open
  <2>2. /\ q \in Seq(Names) /\ q # <<>> /\ Len(q) = Len(closeOrder) + 1
        /\ DOMAIN q = DOMAIN closeOrder \cup {Len(closeOrder) + 1}
        /\ q[Len(closeOrder) + 1] = s
        /\ \A i \in DOMAIN closeOrder : q[i] = closeOrder[i]
    BY <1>2, <1>5, <2>1
  <2>3. \A i \in DOMAIN closeOrder : closeOrder[i] # s
    BY <2>1
  <2>4. \A i, j \in DOMAIN q : q[i] = q[j] => i = j
    BY <2>1, <2>2, <2>3
  <2>5. {q[i] : i \in DOMAIN q} = {closeOrder[i] : i \in DOMAIN closeOrder} \cup {s}
    BY <2>2
  <2> QED
    BY <2>1, <2>2, <2>4, <2>5
<1>10. RegistryInv'
  <2>1. registry' \in [Names -> Slot \cup {Absent}]
    <3>1. \A x \in Names : registry'[x] \in Slot \cup {Absent}
      BY <1>7, <1>8 DEF Inv, RegistryInv
    <3> QED
      BY <1>4, <3>1
  <2>2. /\ closeOrder' \in Seq(Names) /\ Len(closeOrder') <= maxSessions
        /\ \A i, j \in DOMAIN closeOrder' : closeOrder'[i] = closeOrder'[j] => i = j
        /\ {closeOrder'[i] : i \in DOMAIN closeOrder'} =
             {x \in Names : registry'[x] # Absent /\ registry'[x].closed}
    <3>1. maxSessions \in Nat /\ Len(closeOrder) <= maxSessions /\ Len(closeOrder) \in Nat
      BY ServerAssumption DEF Inv, RegistryInv
    <3>2. CASE full
      <4>1. /\ closeOrder' = Tail(q) /\ Len(Tail(q)) = Len(q) - 1
            /\ {Tail(q)[i] : i \in DOMAIN Tail(q)} = {q[i] : i \in DOMAIN q} \ {Head(q)}
            /\ Tail(q) \in Seq(Names)
            /\ \A i, j \in DOMAIN Tail(q) : Tail(q)[i] = Tail(q)[j] => i = j
        BY <1>4, <1>9, <3>2, TailDropsHead
      <4>2. {x \in Names : registry'[x] # Absent /\ registry'[x].closed}
              = ({x \in Names : registry[x] # Absent /\ registry[x].closed} \cup {s}) \ {Head(q)}
        BY <1>5, <1>7, <1>8, <3>2
      <4>3. {closeOrder'[i] : i \in DOMAIN closeOrder'} =
              {x \in Names : registry'[x] # Absent /\ registry'[x].closed}
        <5>1. {closeOrder'[i] : i \in DOMAIN closeOrder'} = {q[i] : i \in DOMAIN q} \ {Head(q)}
          BY <4>1, Zenon
        <5>2. {q[i] : i \in DOMAIN q}
                = {x \in Names : registry[x] # Absent /\ registry[x].closed} \cup {s}
          BY <1>9, Zenon
        <5> QED
          BY <4>2, <5>1, <5>2, Zenon
      <4>4. Len(closeOrder') <= maxSessions
        BY <1>9, <3>1, <4>1
      <4> QED
        BY <4>1, <4>3, <4>4, Zenon
    <3>3. CASE ~full
      <4>1. {x \in Names : registry'[x] # Absent /\ registry'[x].closed}
              = {x \in Names : registry[x] # Absent /\ registry[x].closed} \cup {s}
        BY <1>5, <1>7, <1>8, <3>3
      <4>2. closeOrder' = q
        BY <1>4, <3>3
      <4>3. Len(closeOrder') <= maxSessions
        BY <1>9, <3>1, <3>3, <4>2 DEF full
      <4>4. {closeOrder'[i] : i \in DOMAIN closeOrder'} =
              {x \in Names : registry'[x] # Absent /\ registry'[x].closed}
        BY <1>9, <4>1, <4>2, Zenon
      <4> QED
        BY <1>9, <4>2, <4>3, <4>4, Zenon
    <3> QED
      BY <3>2, <3>3
  <2>3. Open' = Open \ {s}
    <3>1. full => Head(q) \notin Open \ {s}
      <4>1. Head(q) \in {q[i] : i \in DOMAIN q}
        BY <1>9
      <4> QED
        BY <1>9, <4>1 DEF Open
    <3> QED
      BY <1>7, <1>8, <3>1 DEF Open
  <2>4. \A x \in Open' : registry'[x].inflight = IF req'.session = x THEN 1 ELSE 0
    <3> SUFFICES ASSUME NEW x \in Open \ {s}
                 PROVE  registry'[x].inflight = IF req'.session = x THEN 1 ELSE 0
      BY <2>3
    <3>1. registry'[x] = registry[x]
      BY <1>8, <2>3 DEF Open
    <3>2. registry[x].inflight = 0 /\ req'.session # x
      BY <1>1, <1>4 DEF Inv, RegistryInv, Done, NoRequest, Open, Names
    <3> QED
      BY <3>1, <3>2
  <2>5. \A x \in Names : registry'[x] # Absent => x <= issued'
    BY <1>1, <1>4, <1>8 DEF Inv, RegistryInv, Open
  <2>6. maxSessions' = maxSessions
    BY <1>4 DEF env
  <2> QED
    BY <1>5, <2>1, <2>2, <2>3, <2>4, <2>5, <2>6 DEF Inv, RegistryInv
<1>11. moves' = moves /\ frames' = frames /\ spent' = spent /\ runs' = runs /\ issued' = issued
  BY <1>4 DEF env, history
<1>12. WorkInv'
  <2>1. /\ budgets' \in [Names -> 0..MaxWork \cup {Absent}]
        /\ \A x \in Names : budgets'[x] = IF x = s THEN Absent ELSE budgets[x]
    BY <1>4 DEF Inv, WorkInv
  <2>2. Live' = {x \in Names : budgets'[x] # Absent}
    BY <1>5, <2>1 DEF Inv, WorkInv
  <2>3. WorkIsBounded'
    BY <1>5, <1>11, <2>1 DEF Inv, WorkInv, WorkIsBounded, Live
  <2> QED
    BY <1>4, <1>11, <2>1, <2>2, <2>3 DEF Inv, WorkInv, Quiet
<1>13. SpentInv'
  BY <1>4, <1>5, <1>8, <1>10, <1>11 DEF Inv, SpentInv, RegistryInv, Quiet, Open
<1>14. RequestInv'
  BY <1>4 DEF RequestInv, Done, Busy, Quiet
<1>15. TokenInv' /\ CacheInv'
  BY <1>4, <1>5, SessionInvalidated
<1> QED
  BY <1>4, <1>6, <1>10, <1>12, <1>13, <1>14, <1>15, QuietAnswer DEF Inv
-----------------------------------------------------------------------------
(* The steps before a request ends, and those outside one.                 *)

\* A session is opened under a name that no table knows.
LEMMA OpenKeeps ==
  ASSUME Inv, SessionOpen
  PROVE  Inv'
<1>1. /\ pc = "idle" /\ head # NoRoot /\ issued < MaxIssue
      /\ sessions' = [sessions EXCEPT ![issued'] =
           [bound |-> head, epoch |-> EpochOf[head], renewals |-> 0]]
      /\ retained' = retained \cup {head}
      /\ registry' = [registry EXCEPT ![issued'] = [last |-> 0, inflight |-> 0, closed |-> FALSE]]
      /\ budgets' = [budgets EXCEPT ![issued'] = MaxWork]
      /\ UNCHANGED <<head, moves, frames, maxSessions, closeOrder, diagnostics, pc, req, seen,
                     answer, spent, runs>>
  BY DEF SessionOpen, env, history
<1>2. PICK s \in Names : s = issued' /\ s = issued + 1
  BY <1>1, ServerAssumption DEF SessionOpen, Inv, AuthorityInv, Names
<1>3. PICK e \in Session : e = [bound |-> head, epoch |-> EpochOf[head], renewals |-> 0]
                             /\ e.bound = head /\ e # Absent
  <2>1. [bound |-> head, epoch |-> EpochOf[head], renewals |-> 0] \in Session
    BY <1>1, ServerAssumption DEF Session, Inv, AuthorityInv
  <2> QED
    BY <2>1, AbsentAssumption
<1>4. PICK f \in Slot : f = [last |-> 0, inflight |-> 0, closed |-> FALSE]
                          /\ ~f.closed /\ f.inflight = 0 /\ f.last = 0 /\ f # Absent
  <2>1. [last |-> 0, inflight |-> 0, closed |-> FALSE] \in Slot
    BY ServerAssumption DEF Slot
  <2> QED
    BY <2>1, AbsentAssumption
<1>5. issued \in Nat /\ head \in Roots /\ Live \subseteq Names
  BY <1>1, ServerAssumption DEF Inv, AuthorityInv, Live
<1>6. sessions[s] = Absent /\ registry[s] = Absent /\ runs[s] = 0 /\ spent[s] = 0
  <2>1. ~(s <= issued) /\ s > issued
    BY <1>2, <1>5 DEF Names
  <2> QED
    BY <2>1 DEF Inv, AuthorityInv, RegistryInv, WorkInv, SpentInv, Live
<1>7. /\ sessions' \in [Names -> Session \cup {Absent}]
      /\ \A x \in Names : sessions'[x] = IF x = s THEN e ELSE sessions[x]
  BY <1>1, <1>2, <1>3 DEF Inv, AuthorityInv
<1>8. /\ registry' \in [Names -> Slot \cup {Absent}]
      /\ \A x \in Names : registry'[x] = IF x = s THEN f ELSE registry[x]
  BY <1>1, <1>2, <1>4 DEF Inv, RegistryInv
<1>9. /\ budgets' \in [Names -> 0..MaxWork \cup {Absent}]
      /\ \A x \in Names : budgets'[x] = IF x = s THEN MaxWork ELSE budgets[x]
      /\ MaxWork # Absent
  BY <1>1, <1>2, ServerAssumption, AbsentAssumption DEF Inv, WorkInv
<1>10. Live' = Live \cup {s} /\ Open' = Open \cup {s}
  BY <1>3, <1>4, <1>7, <1>8 DEF Live, Open
<1>11. \A x \in Names : x <= issued => x <= issued'
  BY <1>2, <1>5 DEF Names
<1>12. AuthorityInv'
  <2>1. retained' = {sessions'[x].bound : x \in Live'}
    BY <1>1, <1>3, <1>6, <1>7, <1>10 DEF Inv, AuthorityInv, Live
  <2>2. \A x \in Live' : x <= issued'
    <3>1. \A x \in Live : x <= issued
      BY DEF Inv, AuthorityInv
    <3>2. s \in Nat /\ s <= issued'
      BY <1>2 DEF Names
    <3> QED
      BY <1>5, <1>10, <1>11, <3>1, <3>2
  <2> QED
    <3>1. issued' \in 0..MaxIssue
      BY <1>2, ServerAssumption DEF Names
    <3>2. head' \in Roots
      BY <1>1, <1>5
    <3> QED
      BY <1>7, <2>1, <2>2, <3>1, <3>2 DEF AuthorityInv
<1>13. RegistryInv'
  <2>1. {x \in Names : registry'[x] # Absent /\ registry'[x].closed}
          = {x \in Names : registry[x] # Absent /\ registry[x].closed}
    BY <1>4, <1>6, <1>8
  <2>2. \A x \in Open' : registry'[x].inflight = IF req'.session = x THEN 1 ELSE 0
    <3>1. req'.session = 0 /\ req.session = 0
      BY <1>1 DEF Inv, RequestInv, NoRequest
    <3>2. \A x \in Names : x # 0
      BY DEF Names
    <3> QED
      BY <1>4, <1>8, <1>10, <3>1, <3>2 DEF Inv, RegistryInv, Open
  <2>3. \A x \in Names : registry'[x] # Absent => x <= issued'
    BY <1>2, <1>5, <1>8, <1>11 DEF Inv, RegistryInv
  <2>4. Live' = Open'
    BY <1>10 DEF Inv, RegistryInv
  <2> QED
    BY <1>1, <1>8, <2>1, <2>2, <2>3, <2>4 DEF Inv, RegistryInv
<1>14. \A x \in Names : x > issued' => x > issued
  BY <1>2, <1>5 DEF Names
<1>15. WorkInv'
  <2>1. Live' = {x \in Names : budgets'[x] # Absent}
    BY <1>9, <1>10 DEF Inv, WorkInv
  <2>2. WorkIsBounded'
    BY <1>1, <1>5, <1>6, <1>9, <1>10, ServerAssumption DEF Inv, WorkInv, WorkIsBounded
  <2> QED
    BY <1>1, <1>9, <1>14, <2>1, <2>2 DEF Inv, WorkInv
<1>16. SpentInv'
  <2>1. \A x \in Open' : spent'[x] <= registry'[x].last
    BY <1>1, <1>4, <1>6, <1>8, <1>10 DEF Inv, SpentInv, Open
  <2> QED
    BY <1>1, <1>14, <2>1 DEF Inv, SpentInv
<1>17. RequestInv'
  BY <1>1 DEF Inv, RequestInv, Busy
<1>18. TokenInv' /\ CacheInv'
  <2>1. \A x \in Live : x \in Live' /\ sessions'[x].bound = sessions[x].bound
    BY <1>5, <1>6, <1>7, <1>10 DEF Live
  <2> QED
    BY <1>1, <2>1, IdleDiagnostics
<1> QED
  BY <1>1, <1>12, <1>13, <1>15, <1>16, <1>17, <1>18 DEF Inv, AnswersBoundRoot

\* An identifier is admitted, or spent at once, beyond the last one.
LEMMA AdmitKeeps ==
  ASSUME Inv, NEW s \in Names, NEW id \in Ids, Admit(s, id) \/ AdmitOnly(s, id)
  PROVE  Inv'
<1>1. /\ pc = "idle" /\ s \in Open /\ id > registry[s].last
      /\ frames < MaxFrames /\ frames' = frames + 1
      /\ UNCHANGED <<head, moves, maxSessions, issued, sessions, retained, closeOrder, budgets,
                     diagnostics, seen, answer, runs>>
  BY DEF Admit, AdmitOnly, Admissible, authority, history
<1>2. req = NoRequest /\ req.session # s /\ registry[s] \in Slot /\ registry[s].inflight = 0
      /\ registry[s] # Absent /\ ~registry[s].closed
  BY <1>1 DEF Inv, RequestInv, RegistryInv, NoRequest, Names, Open
<1>3. PICK f \in Slot :
        /\ registry' = [registry EXCEPT ![s] = f]
        /\ f.last = id /\ ~f.closed /\ f # Absent
        /\ Admit(s, id) => f.inflight = 1
        /\ AdmitOnly(s, id) => f.inflight = 0
  <2>1. id \in 0..MaxId /\ 0 \in 0..MaxInflight /\ 1 \in 0..MaxInflight
    BY ServerAssumption DEF Ids
  <2>2. CASE Admit(s, id)
    <3>1. [registry[s] EXCEPT !.last = id, !.inflight = 1] \in Slot
      BY <1>2, <2>1 DEF Slot
    <3>2. registry' = [registry EXCEPT ![s] = [registry[s] EXCEPT !.last = id, !.inflight = 1]]
      <4>1. registry' = [registry EXCEPT ![s].last = id, ![s].inflight = @ + 1]
        BY <2>2 DEF Admit
      <4>2. registry[s].inflight + 1 = 1 /\ registry \in [Names -> Slot \cup {Absent}]
        BY <1>2 DEF Inv, RegistryInv
      <4>3. [registry[s] EXCEPT !.last = id, !.inflight = @ + 1]
              = [registry[s] EXCEPT !.last = id, !.inflight = 1]
        BY <1>2, <4>2 DEF Slot
      <4> QED
        BY <4>1, <4>2, <4>3
    <3>3. /\ [registry[s] EXCEPT !.last = id, !.inflight = 1].last = id
          /\ ~[registry[s] EXCEPT !.last = id, !.inflight = 1].closed
          /\ [registry[s] EXCEPT !.last = id, !.inflight = 1].inflight = 1
      BY <1>2 DEF Slot
    <3>4. ~AdmitOnly(s, id)
      BY <1>1, <2>2 DEF Admit, AdmitOnly
    <3> QED
      BY <3>1, <3>2, <3>3, <3>4, AbsentAssumption
  <2>3. CASE AdmitOnly(s, id)
    <3>1. [registry[s] EXCEPT !.last = id] \in Slot
      BY <1>2, <2>1 DEF Slot
    <3>2. registry' = [registry EXCEPT ![s] = [registry[s] EXCEPT !.last = id]]
      BY <1>2, <2>3 DEF AdmitOnly, Inv, RegistryInv
    <3>3. /\ [registry[s] EXCEPT !.last = id].last = id
          /\ ~[registry[s] EXCEPT !.last = id].closed
          /\ [registry[s] EXCEPT !.last = id].inflight = 0
      BY <1>2 DEF Slot
    <3>4. ~Admit(s, id)
      BY <1>1, <2>3 DEF Admit, AdmitOnly
    <3> QED
      BY <3>1, <3>2, <3>3, <3>4, AbsentAssumption
  <2> QED
    BY <2>2, <2>3
<1>4. /\ registry' \in [Names -> Slot \cup {Absent}]
      /\ \A x \in Names : registry'[x] = IF x = s THEN f ELSE registry[x]
      /\ Open' = Open
  BY <1>1, <1>2, <1>3 DEF Inv, RegistryInv, Open
<1>5. AuthorityInv' /\ Live' = Live
  BY <1>1, AuthorityKeeps
<1>6. TokenInv' /\ CacheInv'
  BY <1>1, <1>5, IdleDiagnostics
<1>7. AnswersBoundRoot'
  BY <1>1 DEF Inv, AnswersBoundRoot
<1>8. /\ {x \in Names : registry'[x] # Absent /\ registry'[x].closed}
           = {x \in Names : registry[x] # Absent /\ registry[x].closed}
      /\ \A x \in Names : registry'[x] # Absent => x <= issued'
      /\ Live' = Open'
  BY <1>1, <1>2, <1>3, <1>4, <1>5 DEF Inv, RegistryInv
<1>9. frames \in Nat /\ frames' \in 0..MaxFrames /\ frames < frames'
  BY <1>1, ServerAssumption DEF Inv, WorkInv
<1>10. WorkInv'
  <2>1. WorkIsBounded'
    BY <1>1, <1>5 DEF Inv, WorkInv, WorkIsBounded
  <2>2. \A x \in Names : runs[x] \in Nat /\ runs[x] <= frames
    BY DEF Inv, WorkInv
  <2>3. \A x \in Names : runs'[x] <= frames' /\ runs'[x] < frames'
    BY <1>1, <1>9, <2>2
  <2> QED
    BY <1>1, <1>5, <1>9, <2>1, <2>3 DEF Inv, WorkInv
<1>11. id \in Nat /\ spent[s] \in Nat /\ registry[s].last \in Nat /\ spent[s] < id /\ id \in 0..MaxId
  BY <1>1, <1>2, ServerAssumption DEF Inv, SpentInv, Ids, Slot
<1>12. s <= issued /\ issued \in Nat /\ s \in Nat
  BY <1>2, ServerAssumption DEF Inv, RegistryInv, AuthorityInv, Names
<1>13. CASE Admit(s, id)
  <2>1. req' = [session |-> s, id |-> id, method |-> "none"]
    BY <1>13 DEF Admit
  <2>2. pc' = "check" /\ spent' = spent /\ f.inflight = 1
    BY <1>3, <1>13 DEF Admit, history
  <2>3. RegistryInv'
    <3>1. \A x \in Open' : registry'[x].inflight = IF req'.session = x THEN 1 ELSE 0
      BY <1>2, <1>4, <2>1, <2>2 DEF Inv, RegistryInv, NoRequest, Names, Open
    <3> QED
      BY <1>1, <1>4, <1>8, <3>1 DEF Inv, RegistryInv
  <2>4. SpentInv'
    <3>1. \A x \in Open' : spent'[x] <= registry'[x].last
      BY <1>3, <1>4, <1>11, <2>2 DEF Inv, SpentInv, Open
    <3>2. spent'[req'.session] < req'.id /\ req'.id <= registry'[req'.session].last
      BY <1>3, <1>4, <1>11, <2>1, <2>2
    <3> QED
      BY <1>1, <2>2, <3>1, <3>2 DEF Inv, SpentInv
  <2>5. RequestInv'
    <3>1. req' \in Request /\ req'.session \in Live'
      BY <1>1, <1>4, <1>8, <2>1 DEF Request
    <3> QED
      BY <1>1, <2>2, <3>1 DEF Inv, RequestInv
  <2> QED
    BY <1>5, <1>6, <1>7, <1>10, <2>3, <2>4, <2>5 DEF Inv
<1>14. CASE AdmitOnly(s, id)
  <2>1. req' = req /\ pc' = pc /\ spent' = [spent EXCEPT ![s] = id] /\ f.inflight = 0
    BY <1>3, <1>14 DEF AdmitOnly
  <2>2. RegistryInv'
    <3>1. \A x \in Open' : registry'[x].inflight = IF req'.session = x THEN 1 ELSE 0
      BY <1>2, <1>4, <2>1 DEF Inv, RegistryInv, Open
    <3> QED
      BY <1>1, <1>4, <1>8, <3>1 DEF Inv, RegistryInv
  <2>3. /\ spent' \in [Names -> 0..MaxId]
        /\ \A x \in Names : spent'[x] = IF x = s THEN id ELSE spent[x]
    BY <1>11, <2>1 DEF Inv, SpentInv
  <2>4. SpentInv'
    <3>1. \A x \in Open' : spent'[x] <= registry'[x].last
      BY <1>3, <1>4, <1>11, <2>3 DEF Inv, SpentInv, Open
    <3>2. \A x \in Names : x > issued' => spent'[x] = 0
      BY <1>1, <1>12, <2>3 DEF Inv, SpentInv
    <3> QED
      BY <1>1, <2>1, <2>3, <3>1, <3>2 DEF SpentInv
  <2>5. RequestInv'
    BY <1>1, <2>1 DEF Inv, RequestInv, Busy
  <2> QED
    BY <1>5, <1>6, <1>7, <1>10, <2>2, <2>4, <2>5 DEF Inv
<1> QED
  BY <1>13, <1>14

\* The unit that a request costs pays for its run.
LEMMA DispatchKeeps ==
  ASSUME Inv, NEW m \in Methods, Dispatch(m)
  PROVE  Inv' /\ req.id > spent[req.session]
<1>1. /\ pc = "check" /\ CheckSession(req.session, head, m \in HeadBound)
      /\ budgets[req.session] # 0 /\ budgets' = [budgets EXCEPT ![req.session] = @ - 1]
      /\ pc' = "act" /\ seen' = head
      /\ spent' = [spent EXCEPT ![req.session] = req.id]
      /\ runs' = [runs EXCEPT ![req.session] = @ + 1]
      /\ req' = [req EXCEPT !.method = m]
      /\ UNCHANGED <<head, moves, frames, maxSessions, issued, sessions, retained, registry,
                     closeOrder, diagnostics, answer>>
  BY DEF Dispatch, env, authority, slots
<1>2. PICK s \in Live : s = req.session
  BY <1>1 DEF Inv, RequestInv, Busy
<1>3. PICK k \in 0..MaxWork : k = budgets[s] /\ k # 0 /\ k # Absent
  BY <1>1, <1>2, AbsentAssumption DEF Inv, WorkInv
<1>4. s \in Names /\ s \in Open /\ req.id \in 0..MaxId /\ spent[s] \in Nat /\ s <= issued
  BY <1>1, <1>2, ServerAssumption
  DEF Inv, RequestInv, Request, RegistryInv, AuthorityInv, SpentInv, Live, Ids
<1>5. AuthorityInv' /\ Live' = Live
  BY <1>1, AuthorityKeeps
<1>6. Open' = Open
  BY <1>1 DEF Open
<1>a. req \in Request /\ req' \in Request /\ req'.session = s /\ req'.method = m
  BY <1>1, <1>2 DEF Inv, RequestInv, Request
<1>7. RegistryInv'
  BY <1>1, <1>2, <1>5, <1>6, <1>a DEF Inv, RegistryInv
<1>8. WorkInv'
  <2>1. k - 1 \in 0..MaxWork /\ k - 1 # Absent
    BY <1>3, ServerAssumption, AbsentAssumption
  <2>2. /\ budgets' \in [Names -> 0..MaxWork \cup {Absent}]
        /\ \A x \in Names : budgets'[x] = IF x = s THEN k - 1 ELSE budgets[x]
    BY <1>1, <1>2, <1>3, <1>4, <2>1 DEF Inv, WorkInv
  <2>3. runs[s] \in 0..MaxFrames /\ runs[s] < frames /\ frames \in 0..MaxFrames
    BY <1>1, <1>4 DEF Inv, WorkInv
  <2>4. /\ runs' \in [Names -> 0..MaxFrames]
        /\ \A x \in Names : runs'[x] = IF x = s THEN runs[s] + 1 ELSE runs[x]
    BY <1>1, <1>2, <1>4, <2>3, ServerAssumption DEF Inv, WorkInv
  <2>5. Live' = {x \in Names : budgets'[x] # Absent}
    BY <1>2, <1>3, <1>4, <1>5, <2>1, <2>2 DEF Inv, WorkInv
  <2>6. WorkIsBounded'
    <3>1. runs[s] + k <= MaxWork
      BY <1>2, <1>3 DEF Inv, WorkInv, WorkIsBounded
    <3>2. (runs[s] + 1) + (k - 1) <= MaxWork
      BY <2>3, <3>1, ServerAssumption
    <3> QED
      BY <1>5, <2>2, <2>4, <3>2 DEF Inv, WorkInv, WorkIsBounded, Live
  <2>7. \A x \in Names : runs'[x] <= frames
    BY <2>3, <2>4, ServerAssumption DEF Inv, WorkInv
  <2>8. \A x \in Names : x > issued => runs'[x] = 0
    BY <1>4, <2>4 DEF Inv, WorkInv, AuthorityInv, Names
  <2> QED
    BY <1>1, <2>2, <2>4, <2>5, <2>6, <2>7, <2>8 DEF Inv, WorkInv
<1>9. SpentInv'
  <2>1. /\ spent' \in [Names -> 0..MaxId]
        /\ \A x \in Names : spent'[x] = IF x = s THEN req.id ELSE spent[x]
    BY <1>1, <1>2, <1>4 DEF Inv, SpentInv
  <2>2. \A x \in Open' : spent'[x] <= registry'[x].last
    BY <1>1, <1>2, <1>6, <2>1 DEF Inv, SpentInv, Open
  <2>3. \A x \in Names : x > issued => spent'[x] = 0
    BY <1>4, <2>1 DEF Inv, SpentInv, AuthorityInv, Names
  <2> QED
    BY <1>1, <2>1, <2>2, <2>3 DEF SpentInv
<1>10. RequestInv'
  <2>1. m \in HeadBound => head = sessions[s].bound
    BY <1>1, <1>2 DEF CheckSession
  <2>2. head \in Roots \cup {NoRoot}
    BY DEF Inv, AuthorityInv
  <2> QED
    BY <1>1, <1>2, <1>5, <1>a, <2>1, <2>2 DEF RequestInv
<1>11. TokenInv' /\ CacheInv'
  BY <1>1, <1>5, IdleDiagnostics
<1>12. AnswersBoundRoot'
  BY <1>1 DEF Inv, AnswersBoundRoot
<1>13. req.id > spent[req.session]
  BY <1>1, <1>2, <1>4 DEF Inv, SpentInv
<1> QED
  BY <1>5, <1>7, <1>8, <1>9, <1>10, <1>11, <1>12, <1>13 DEF Inv

\* The steps that change neither the tables nor the request's session.
LEMMA TableIdle ==
  ASSUME Inv, head' = head \/ head' \in Roots, moves' \in 0..MaxMoves,
         UNCHANGED <<frames, maxSessions, issued, authority, slots, budgets, req, history>>,
         pc' = "check" => pc = "check"
  PROVE  AuthorityInv' /\ RegistryInv' /\ WorkInv' /\ SpentInv' /\ Live' = Live
<1>1. UNCHANGED <<frames, maxSessions, issued, sessions, retained, registry, closeOrder,
                  budgets, req, spent, runs>>
  BY DEF authority, slots, history
<1>2. AuthorityInv' /\ Live' = Live /\ Open' = Open
  BY <1>1, AuthorityKeeps DEF Open
<1>3. RegistryInv'
  BY <1>1, <1>2 DEF Inv, RegistryInv
<1>4. WorkInv'
  BY <1>1, <1>2 DEF Inv, WorkInv, WorkIsBounded
<1>5. SpentInv'
  BY <1>1, <1>2 DEF Inv, SpentInv
<1> QED
  BY <1>2, <1>3, <1>4, <1>5

\* A commit of another process, and the first head.
LEMMA HeadKeeps ==
  ASSUME Inv, NEW r \in Roots, OtherCommit(r) \/ CreateHead(r)
  PROVE  Inv'
<1>1. /\ head' = r /\ moves' \in 0..MaxMoves
      /\ UNCHANGED <<frames, maxSessions, issued, authority, slots, budgets, pc, req, seen,
                     answer, history>>
  BY ServerAssumption DEF OtherCommit, CreateHead, env, Inv, WorkInv
<1>2. AuthorityInv' /\ RegistryInv' /\ WorkInv' /\ SpentInv' /\ Live' = Live
  BY <1>1, TableIdle
<1>3. TokenInv' /\ CacheInv'
  <2>1. UNCHANGED diagnostics \/ InvalidateAllDiagnostics
    BY DEF OtherCommit, CreateHead
  <2> QED
    BY <1>1, <1>2, <2>1, IdleDiagnostics, AllInvalidated DEF authority
<1>4. RequestInv'
  BY <1>1, <1>2 DEF Inv, RequestInv, authority
<1>5. AnswersBoundRoot'
  BY <1>1 DEF Inv, AnswersBoundRoot
<1> QED
  BY <1>2, <1>3, <1>4, <1>5 DEF Inv

\* A token runs out.
LEMMA ExpiryKeeps ==
  ASSUME Inv, NEW t \in tokens, TokenExpires(t)
  PROVE  Inv'
<1>1. UNCHANGED <<head, moves, frames, maxSessions, issued, authority, slots, budgets, attempts,
                  pc, req, seen, answer, history>>
  BY DEF TokenExpires, env
<1>2. AuthorityInv' /\ RegistryInv' /\ WorkInv' /\ SpentInv' /\ Live' = Live
  BY <1>1, TableIdle DEF Inv, WorkInv
<1>3. CacheInv'
  <2>1. attempts' = attempts /\ \A c \in Caches : Held(c)' = Held(c)
    BY <1>1 DEF Held
  <2>2. minted' = minted
    BY DEF TokenExpires
  <2>3. LinkInv'
    BY <2>1, <2>2, Expired, LinkFewer
  <2> QED
    BY <1>2, <2>1, <2>3, FewerAttempts DEF Inv, CacheInv, Caches
<1>4. RequestInv' /\ AnswersBoundRoot'
  BY <1>1, <1>2 DEF Inv, RequestInv, AnswersBoundRoot, authority
<1> QED
  BY <1>2, <1>3, <1>4, Expired DEF Inv

\* The answer is written, or the commit goes on to its check.
LEMMA RespondKeeps ==
  ASSUME Inv, Respond \/ NativeCommitCheck
  PROVE  Inv'
<1>1. UNCHANGED <<head, moves, frames, maxSessions, issued, authority, slots, budgets,
                  diagnostics, req, history>> /\ pc' # "check"
  BY DEF Respond, NativeCommitCheck, Quiet, env
<1>2. AuthorityInv' /\ RegistryInv' /\ WorkInv' /\ SpentInv' /\ Live' = Live
  BY <1>1, TableIdle DEF Inv, WorkInv
<1>3. TokenInv' /\ CacheInv'
  BY <1>1, <1>2, IdleDiagnostics DEF authority
<1>4. CASE Respond
  <2>1. RequestInv'
    BY <1>4 DEF Respond, Quiet, Inv, RequestInv, Busy
  <2> QED
    BY <1>2, <1>3, <1>4, <2>1, QuietAnswer DEF Inv, Respond
<1>5. CASE NativeCommitCheck
  <2>1. RequestInv'
    BY <1>2, <1>5 DEF NativeCommitCheck, Acts, Inv, RequestInv, Busy, AuthorityInv
  <2>2. AnswersBoundRoot'
    BY <1>5 DEF NativeCommitCheck, Inv, AnswersBoundRoot
  <2> QED
    BY <1>2, <1>3, <2>1, <2>2 DEF Inv
<1> QED
  BY <1>4, <1>5

\* The process starts again with empty tables.
LEMMA RestartKeeps ==
  ASSUME Inv, Restart
  PROVE  Inv'
<1>1. /\ head \in Roots \cup {NoRoot} /\ issued \in 0..MaxIssue /\ moves \in 0..MaxMoves
      /\ frames \in 0..MaxFrames /\ maxSessions \in SessionLimits
      /\ UNCHANGED <<head, moves, frames, maxSessions, issued>>
  BY DEF Restart, env, Inv, AuthorityInv, WorkInv, RegistryInv
<1>2. Live' = {} /\ Open' = {} /\ \A c \in Caches : Held(c)' = {}
  BY DEF Restart, Live, Open, Held
<1>3. AuthorityInv'
  BY <1>1, <1>2 DEF Restart, AuthorityInv
<1>4. RegistryInv'
  BY <1>1, <1>2, ServerAssumption DEF Restart, RegistryInv
<1>5. WorkInv' /\ SpentInv'
  BY <1>1, <1>2, ServerAssumption DEF Restart, WorkInv, SpentInv, WorkIsBounded
<1>6. RequestInv'
  BY DEF Restart, RequestInv, Busy
<1>7. TokenInv'
  <2>1. \A s : {t \in {} : t.session = s} = {}
    OBVIOUS
  <2> QED
    BY <2>1, ServerAssumption, FS_EmptySet DEF Restart, TokenInv
<1>8. CacheInv'
  <2>1. attempts' \in [Caches -> [Attempts -> Entry \cup {Absent}]]
    BY DEF Restart
  <2> QED
    BY <1>2, <2>1, ServerAssumption, FS_EmptySet DEF CacheInv, LinkInv, Caches
<1>9. AnswersBoundRoot'
  BY DEF Restart, AnswersBoundRoot, Silent
<1> QED
  BY <1>3, <1>4, <1>5, <1>6, <1>7, <1>8, <1>9 DEF Inv

\* Nothing happens.
LEMMA StutterKeeps ==
  ASSUME Inv, UNCHANGED vars
  PROVE  Inv'
<1>1. UNCHANGED <<head, moves, frames, maxSessions, issued, authority, slots, budgets,
                  diagnostics, pc, req, seen, answer, history>>
  BY DEF vars, env
<1>2. AuthorityInv' /\ RegistryInv' /\ WorkInv' /\ SpentInv' /\ Live' = Live
  BY <1>1, TableIdle DEF Inv, WorkInv
<1>3. TokenInv' /\ CacheInv'
  BY <1>1, <1>2, IdleDiagnostics DEF authority
<1>4. RequestInv' /\ AnswersBoundRoot'
  BY <1>1, <1>2 DEF Inv, RequestInv, AnswersBoundRoot, authority
<1> QED
  BY <1>2, <1>3, <1>4 DEF Inv
-----------------------------------------------------------------------------
(* The theorems.                                                           *)

\* Every step keeps the invariant.
LEMMA StepInv == Inv /\ [Next]_vars => Inv'
<1> SUFFICES ASSUME Inv, [Next]_vars
             PROVE  Inv'
  OBVIOUS
<1>1. CASE \E r \in Roots : OtherCommit(r) \/ CreateHead(r)
  BY <1>1, HeadKeeps
<1>2. CASE \E t \in tokens : TokenExpires(t)
  BY <1>2, ExpiryKeeps
<1>3. CASE \E s \in Names, id \in Ids : Admit(s, id) \/ AdmitOnly(s, id)
  BY <1>3, AdmitKeeps
<1>4. CASE \E r \in Roots : Commit(r) \/ NativeCommit(r)
  BY <1>4, CommitKeeps
<1>5. CASE \E m \in Methods : Dispatch(m)
  BY <1>5, DispatchKeeps
<1> QED
  BY <1>1, <1>2, <1>3, <1>4, <1>5, RestartKeeps, OpenKeeps, RefuseKeeps, RespondKeeps,
     RenewKeeps, CloseKeeps, ReadKeeps, CheckoutKeeps, TestsKeep, StutterKeeps
  DEF Next

\* The inductive invariant holds in every reachable state.
LEMMA Invariance == Spec => []Inv
  BY InitInv, StepInv, PTL DEF Spec

\* The variables of the server keep their types.
THEOREM TypeCorrect == Spec => []TypeOK
  BY Invariance, InvImplies, PTL

\* No answer of workspace.open, an entity read, a capsule or a handle is over
\* a root other than the one its session is bound to, whatever another process
\* commits between the loads of the head; and a test report that a cache
\* answers with is about the root that the request names, whatever attempts
\* were stored, forgotten and repeated in between.
THEOREM AnswersBoundRootInvariant == Spec => []AnswersBoundRoot
  BY Invariance, InvImplies, PTL

\* The authority, the registry and the budgets never disagree on a session,
\* and no error path keeps a slot.
THEOREM TablesAgreeInvariant == Spec => []TablesAgree
  BY Invariance, InvImplies, PTL

\* No token outlives the binding that it was minted under, no session and no
\* cache passes its cap.
THEOREM DiagnosticsFollowBindingInvariant == Spec => []DiagnosticsFollowBinding
  BY Invariance, InvImplies, PTL

\* A session runs no more requests than the negotiated work pays for.
THEOREM WorkIsBoundedInvariant == Spec => []WorkIsBounded
  BY Invariance, InvImplies, PTL

\* A request runs only under an identifier beyond all that ran or were
\* cancelled in its session.
LEMMA StepRunsOnce ==
  ASSUME Inv, [Next]_vars
  PROVE  [\A s \in Names : runs'[s] > runs[s] => spent'[s] > spent[s]]_vars
<1> SUFFICES ASSUME Next, NEW s \in Names, runs'[s] > runs[s]
             PROVE  spent'[s] > spent[s]
  OBVIOUS
<1>1. runs[s] \in Nat /\ runs \in [Names -> 0..MaxFrames] /\ spent \in [Names -> 0..MaxId]
  BY DEF Inv, WorkInv, SpentInv
<1>2. runs' # runs
  BY <1>1
<1>3. PICK m \in Methods : Dispatch(m)
  <2>1. CASE Restart
    BY <1>1, <2>1 DEF Restart
  <2> QED
    BY <1>2, <2>1 DEF Next, OtherCommit, CreateHead, TokenExpires, SessionOpen, Admit, AdmitOnly,
       Refuse, EngineRefuses, Respond, SessionRenew, SessionClose, FreeMethod, Checkout,
       WorkspaceOpen, EntityRead, QueryRoot, Capsule, HandleExpand, Survey, Commit, NativeCommit,
       CommitTo, MergeConflict, NativeCommitCheck, Diagnose, Replay, ReplayCached, RunAttempt, Mismatch,
       AttemptStatus, ReportRead, Answered, history
<1>4. /\ runs' = [runs EXCEPT ![req.session] = @ + 1] /\ req.session \in Names
      /\ spent' = [spent EXCEPT ![req.session] = req.id]
  BY <1>3 DEF Dispatch, Inv, RequestInv, Busy, Live
<1>5. s = req.session
  BY <1>1, <1>4
<1> QED
  BY <1>1, <1>3, <1>4, <1>5, DispatchKeeps

\* Nothing runs twice, and nothing runs after its cancellation.
THEOREM RunsOnceStep == Spec => RunsOnce
<1>1. Inv /\ [Next]_vars => [\A s \in Names : runs'[s] > runs[s] => spent'[s] > spent[s]]_vars
  BY StepRunsOnce
<1> QED
  BY <1>1, Invariance, PTL DEF Spec, RunsOnce
=============================================================================
