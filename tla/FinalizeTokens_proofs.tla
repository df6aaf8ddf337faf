------------------------ MODULE FinalizeTokens_proofs ------------------------
(***************************************************************************)
(* Proofs about FinalizeTokens, for every set of processes, nonces and      *)
(* digests, every TTL and every bound.                                      *)
(***************************************************************************)
EXTENDS FinalizeTokens, TLAPS

\* A process inside a finalize serves a request for a token that was signed.
RequestOK ==
  \A p \in Procs : pc[p] \in Finalizing =>
    /\ req[p] \in Requests
    /\ req[p].nonce \in issued

TypeInv == TypeOK /\ RequestOK

-----------------------------------------------------------------------------
(* Type correctness.                                                         *)

LEMMA KeyIsType ==
  ASSUME TypeInv, NEW p \in Procs, NEW k \in Keys, KeyIs(p, k),
         UNCHANGED <<req, issued>>
  PROVE  /\ key' \in [Procs -> Keys]
         /\ pc' \in [Procs -> {"new", "deriving", "idle", "prepare", "gone"} \cup Finalizing]
         /\ RequestOK'
BY DEF TypeInv, TypeOK, RequestOK, KeyIs, Finalizing

LEMMA AuthenticateType ==
  ASSUME TypeOK, NEW p \in Procs, Authenticate(p)
  PROVE  session' \in Sessions /\ fresh' \in Nat /\ epoch' \in Nat
BY DEF TypeOK, Authenticate, Replace, Refreshed, sessionVars, Sessions

LEMMA ExpiryType ==
  ASSUME NEW exp \in Nat, NEW now \in Nat
  PROVE  NonceExpiry(exp, now) \in Nat /\ ExpiryFrom(now) \in Nat
BY ConstantsAssumption DEF NonceExpiry, ExpiryFrom

LEMMA IssueType ==
  ASSUME TypeInv, NEW p \in Procs, NEW n \in Nonces,
         NEW kind \in {"push", "pull"}, NEW file \in MaybeDigest,
         NEW digest \in MaybeDigest, NEW fin \in BOOLEAN,
         Issue(p, n, kind, file, digest, fin)
  PROVE  TypeInv'
<1>1. /\ issued' \subseteq Nonces
      /\ issued \subseteq issued'
  BY DEF TypeInv, TypeOK, Issue
<1>2. ticket' \in [issued' -> Tickets]
  <2>1. ExpiryFrom(clock) \in Nat
    BY ExpiryType DEF TypeInv, TypeOK
  <2>2. key[p] \in Keys
    BY DEF TypeInv, TypeOK
  <2> QED
    BY <2>1, <2>2 DEF TypeInv, TypeOK, Issue, Tickets
<1>3. TypeOK'
  BY <1>1, <1>2 DEF TypeInv, TypeOK, Issue, sessionVars, procVars, keyVars, historyVars
<1>4. RequestOK'
  BY <1>1 DEF TypeInv, TypeOK, RequestOK, Issue, procVars, keyVars, Finalizing
<1> QED
  BY <1>3, <1>4 DEF TypeInv

LEMMA FinishType ==
  ASSUME TypeInv, NEW p \in Procs, Finish(p), UNCHANGED tokenVars
  PROVE  /\ pc' \in [Procs -> {"new", "deriving", "idle", "prepare", "gone"} \cup Finalizing]
         /\ req' \in [Procs -> Requests \cup {NoReq}]
         /\ RequestOK'
BY DEF TypeInv, TypeOK, RequestOK, Finish, tokenVars, keyVars, Finalizing

LEMMA ReceiveType ==
  ASSUME TypeInv, NEW p \in Procs, NEW op \in {"push", "pull"},
         NEW n \in Nonces, NEW d \in MaybeDigest, Receive(p, op, n, d),
         session' \in Sessions, fresh' \in Nat, epoch' \in Nat
  PROVE  TypeInv'
<1>1. req' \in [Procs -> Requests \cup {NoReq}]
  BY DEF TypeInv, TypeOK, Receive, Requests
<1>2. pc' \in [Procs -> {"new", "deriving", "idle", "prepare", "gone"} \cup Finalizing]
  BY DEF TypeInv, TypeOK, Receive, Finalizing
<1>3. TypeOK'
  BY <1>1, <1>2 DEF TypeInv, TypeOK, Receive, tokenVars, keyVars, historyVars
<1>4. RequestOK'
  BY DEF TypeInv, TypeOK, RequestOK, Receive, tokenVars, keyVars, Finalizing, Requests
<1> QED
  BY <1>3, <1>4 DEF TypeInv

LEMMA RecordType ==
  ASSUME TypeInv, NEW p \in Procs, pc[p] = "consume", Record(p)
  PROVE  /\ used' \in [Procs -> SUBSET NonceEntries]
         /\ accepts' \in [Procs -> [Nonces -> Nat]]
<1> DEFINE n == req[p].nonce
<1>1. n \in issued /\ n \in Nonces
  BY DEF TypeInv, TypeOK, RequestOK, Finalizing, Requests
<1>2. NonceExpiry(ticket[n].exp, clock) \in Nat
  BY <1>1, ExpiryType DEF TypeInv, TypeOK, Tickets
<1>3. used' \in [Procs -> SUBSET NonceEntries]
  BY <1>1, <1>2 DEF TypeInv, TypeOK, Record, Live, NonceEntries
<1>4. accepts' \in [Procs -> [Nonces -> Nat]]
  BY <1>1 DEF TypeInv, TypeOK, Record
<1> QED
  BY <1>3, <1>4

LEMMA TypeInvInit == Init => TypeInv
<1> SUFFICES ASSUME Init PROVE TypeInv
  OBVIOUS
<1>1. env \in [Procs -> EnvSources \cup {"none"}]
  BY ConstantsAssumption DEF Init
<1>2. session \in Sessions
  BY DEF Init, Sessions
<1>3. ticket \in [issued -> Tickets]
  BY DEF Init
<1>4. key \in [Procs -> Keys]
  BY DEF Init, NoKey, Keys, KeySources
<1>5. TypeOK
  BY <1>1, <1>2, <1>3, <1>4 DEF Init, TypeOK
<1>6. RequestOK
  BY DEF Init, RequestOK, Finalizing
<1> QED
  BY <1>5, <1>6 DEF TypeInv

LEMMA TypeInvNext == TypeInv /\ [Next]_vars => TypeInv'
<1> SUFFICES ASSUME TypeInv, [Next]_vars PROVE TypeInv'
  OBVIOUS
<1> USE DEF TypeInv
<1>1. CASE UNCHANGED vars
  BY <1>1 DEF vars, sessionVars, procVars, keyVars, tokenVars, historyVars, TypeOK, RequestOK
<1>2. CASE Tick
  BY <1>2 DEF Tick, sessionVars, procVars, keyVars, tokenVars, historyVars, TypeOK, RequestOK
<1>3. CASE SignIn
  BY <1>3 DEF SignIn, Replace, Sessions, procVars, keyVars, tokenVars, historyVars, TypeOK, RequestOK
<1>4. ASSUME NEW p \in Procs,
             StartWithEnv(p) \/ StartWithKeychain(p) \/ DeriveFromAccess(p)
      PROVE  TypeInv'
  <2>1. CASE StartWithEnv(p)
    <3>1. [src |-> env[p], id |-> 0] \in Keys
      BY <2>1 DEF StartWithEnv, Keys, KeySources
    <3> QED
      BY <2>1, <3>1, KeyIsType DEF StartWithEnv, TypeOK, sessionVars, tokenVars, keyVars, historyVars
  <2>2. CASE StartWithKeychain(p)
    <3>1. PICK got \in Get(FirstEntry(session)) :
            /\ born' = [born EXCEPT ![p] = epoch]
            /\ astray' = [astray EXCEPT ![p] = got # FirstEntry(session)]
            /\ IF got # 0
               THEN KeyIs(p, [src |-> "refresh_token", id |-> got])
               ELSE pc' = [pc EXCEPT ![p] = "deriving"] /\ UNCHANGED key
            /\ UNCHANGED <<clock, env, sessionVars, used, req, tokenVars, historyVars>>
      BY <2>2 DEF StartWithKeychain
    <3>2. [src |-> "refresh_token", id |-> got] \in Keys
      BY <3>1 DEF Get, FirstEntry, TypeOK, Sessions, Keys, KeySources
    <3>3. /\ key' \in [Procs -> Keys]
          /\ pc' \in [Procs -> {"new", "deriving", "idle", "prepare", "gone"} \cup Finalizing]
          /\ RequestOK'
      <4>1. CASE got # 0
        BY <3>1, <3>2, <4>1, KeyIsType DEF tokenVars, keyVars
      <4>2. CASE got = 0
        BY <3>1, <4>2 DEF TypeOK, RequestOK, Finalizing, tokenVars, keyVars
      <4> QED
        BY <4>1, <4>2
    <3>4. TypeOK'
      BY <3>1, <3>3 DEF TypeOK, sessionVars, tokenVars, keyVars, historyVars
    <3> QED
      BY <3>3, <3>4
  <2>3. CASE DeriveFromAccess(p)
    <3>1. PICK got \in Get(session.access) :
            /\ astray' = [astray EXCEPT ![p] = @ \/ got # session.access \/ born[p] # epoch]
            /\ \/ /\ got # 0
                  /\ KeyIs(p, [src |-> "stored_access_token", id |-> got])
                  /\ UNCHANGED fresh
               \/ /\ got = 0
                  /\ fresh < MaxGen
                  /\ fresh' = fresh + 1
                  /\ KeyIs(p, [src |-> "random", id |-> fresh + 1])
            /\ UNCHANGED <<clock, env, session, epoch, born, used, req, tokenVars, historyVars>>
      BY <2>3 DEF DeriveFromAccess
    <3>2. /\ [src |-> "stored_access_token", id |-> got] \in Keys
          /\ [src |-> "random", id |-> fresh + 1] \in Keys
      BY <3>1 DEF Get, TypeOK, Sessions, Keys, KeySources
    <3>3. /\ key' \in [Procs -> Keys]
          /\ pc' \in [Procs -> {"new", "deriving", "idle", "prepare", "gone"} \cup Finalizing]
          /\ RequestOK'
      BY <3>1, <3>2, KeyIsType DEF tokenVars, keyVars
    <3>4. fresh' \in Nat /\ astray' \in [Procs -> BOOLEAN]
      BY <3>1 DEF TypeOK
    <3>5. TypeOK'
      BY <3>1, <3>3, <3>4 DEF TypeOK, tokenVars, keyVars, historyVars
    <3> QED
      BY <3>3, <3>5
  <2> QED
    BY <1>4, <2>1, <2>2, <2>3
<1>5. ASSUME NEW p \in Procs, Exit(p) PROVE TypeInv'
  <2>1. TypeOK'
    BY <1>5 DEF Exit, TypeOK, sessionVars, tokenVars, keyVars, historyVars
  <2>2. RequestOK'
    BY <1>5 DEF Exit, TypeOK, RequestOK, tokenVars, keyVars, Finalizing
  <2> QED
    BY <2>1, <2>2
<1>6. ASSUME NEW p \in Procs, PrepareAuth(p) PROVE TypeInv'
  <2>1. session' \in Sessions /\ fresh' \in Nat /\ epoch' \in Nat
    BY <1>6, AuthenticateType DEF PrepareAuth
  <2>2. TypeOK'
    BY <1>6, <2>1 DEF PrepareAuth, TypeOK, procVars, keyVars, tokenVars, historyVars
  <2>3. RequestOK'
    BY <1>6 DEF PrepareAuth, TypeOK, RequestOK, procVars, keyVars, tokenVars, Finalizing
  <2> QED
    BY <2>2, <2>3
<1>7. ASSUME NEW p \in Procs, PrepareFails(p) PROVE TypeInv'
  BY <1>7 DEF PrepareFails, sessionVars, procVars, keyVars, tokenVars, historyVars, TypeOK,
     RequestOK, Finalizing
<1>8. ASSUME NEW p \in Procs, NEW n \in Nonces, PushPrepare(p, n) PROVE TypeInv'
  BY <1>8, IssueType DEF PushPrepare
<1>9. ASSUME NEW p \in Procs, NEW n \in Nonces, PullPrepare(p, n) PROVE TypeInv'
  <2>1. \A file, pack \in MaybeDigest : VerifyDigest(file, pack) \in MaybeDigest
    BY DEF VerifyDigest
  <2> QED
    BY <1>9, <2>1, IssueType DEF PullPrepare
<1>10. ASSUME NEW p \in Procs, NEW n \in Nonces, PushFinalize(p, n) PROVE TypeInv'
  BY <1>10, AuthenticateType, ReceiveType DEF PushFinalize, MaybeDigest
<1>11. ASSUME NEW p \in Procs, NEW n \in Nonces, NEW d \in MaybeDigest, PullFinalize(p, n, d)
       PROVE  TypeInv'
  BY <1>11, ReceiveType DEF PullFinalize, sessionVars, TypeOK
<1>12. ASSUME NEW p \in Procs, RefuseToken(p) PROVE TypeInv'
  BY <1>12, FinishType DEF RefuseToken, TypeOK, sessionVars, tokenVars, keyVars, historyVars
<1>13. ASSUME NEW p \in Procs, AdmitToken(p) PROVE TypeInv'
  BY <1>13 DEF AdmitToken, TypeOK, RequestOK, sessionVars, procVars, keyVars, tokenVars, historyVars,
     Finalizing
<1>14. ASSUME NEW p \in Procs, RejectReplay(p) PROVE TypeInv'
  <2>1. used' \in [Procs -> SUBSET NonceEntries]
    BY <1>14 DEF RejectReplay, TypeOK, Live
  <2> QED
    BY <1>14, <2>1, FinishType DEF RejectReplay, TypeOK, sessionVars, tokenVars, keyVars, historyVars
<1>15. ASSUME NEW p \in Procs, AcceptPush(p) PROVE TypeInv'
  <2>1. TypeOK'
    BY <1>15, RecordType DEF AcceptPush, Record, TypeOK, sessionVars, tokenVars, keyVars, Finalizing
  <2>2. RequestOK'
    BY <1>15 DEF AcceptPush, Record, TypeOK, RequestOK, tokenVars, keyVars, Finalizing
  <2> QED
    BY <2>1, <2>2
<1>16. ASSUME NEW p \in Procs, AcceptPull(p) PROVE TypeInv'
  <2>1. UNCHANGED <<clock, env, session, fresh, epoch, key, born, astray, issued, ticket, redeemed,
                    confirmed>>
    BY <1>16 DEF AcceptPull, Record, sessionVars, tokenVars, keyVars
  <2>2. used' \in [Procs -> SUBSET NonceEntries] /\ accepts' \in [Procs -> [Nonces -> Nat]]
    BY <1>16, RecordType DEF AcceptPull
  <2>3. CASE Finish(p)
    BY <2>1, <2>2, <2>3, FinishType DEF TypeOK, tokenVars, keyVars
  <2>4. CASE pc' = [pc EXCEPT ![p] = "client"] /\ UNCHANGED req
    <3>1. TypeOK'
      BY <2>1, <2>2, <2>4 DEF TypeOK, Finalizing
    <3>2. RequestOK'
      BY <1>16, <2>1, <2>4 DEF AcceptPull, TypeOK, RequestOK, Finalizing
    <3> QED
      BY <3>1, <3>2
  <2> QED
    BY <1>16, <2>3, <2>4 DEF AcceptPull
<1>17. ASSUME NEW p \in Procs, PullClient(p) PROVE TypeInv'
  <2>1. session' \in Sessions /\ fresh' \in Nat /\ epoch' \in Nat
    BY <1>17, AuthenticateType DEF PullClient
  <2>2. TypeOK'
    BY <1>17, <2>1 DEF PullClient, TypeOK, procVars, keyVars, tokenVars, historyVars, Finalizing
  <2>3. RequestOK'
    BY <1>17 DEF PullClient, TypeOK, RequestOK, procVars, keyVars, tokenVars, Finalizing
  <2> QED
    BY <2>2, <2>3
<1>18. ASSUME NEW p \in Procs, PullClientFails(p) PROVE TypeInv'
  BY <1>18, FinishType DEF PullClientFails, TypeOK, sessionVars, tokenVars, keyVars, historyVars
<1>19. ASSUME NEW p \in Procs, PushAnswered(p) PROVE TypeInv'
  BY <1>19, FinishType DEF PushAnswered, TypeOK, sessionVars, tokenVars, keyVars, historyVars
<1>20. ASSUME NEW p \in Procs, NEW reply \in {"consumed", "lost", "conflict", "error"},
              PullAnswered(p, reply)
       PROVE  TypeInv'
  <2> DEFINE n == req[p].nonce
  <2>1. n \in issued /\ n \in Nonces /\ req[p].digest \in MaybeDigest
    BY <1>20 DEF PullAnswered, TypeOK, RequestOK, Finalizing, Requests
  <2>2. redeemed' \subseteq Nonces
    BY <1>20, <2>1 DEF PullAnswered, TypeOK
  <2>3. confirmed' \subseteq [by : Procs, nonce : Nonces, digest : MaybeDigest]
    BY <1>20, <2>1 DEF PullAnswered, TypeOK
  <2> QED
    BY <1>20, <2>2, <2>3, FinishType DEF PullAnswered, TypeOK, sessionVars, tokenVars, keyVars
<1> QED
  BY <1>1, <1>2, <1>3, <1>4, <1>5, <1>6, <1>7, <1>8, <1>9, <1>10, <1>11, <1>12, <1>13,
     <1>14, <1>15, <1>16, <1>17, <1>18, <1>19, <1>20 DEF Next

\* Every state of the exchange is well typed, and a process in the middle of a
\* finalize holds a token that was signed.
THEOREM TypeCorrect == Spec => [](TypeOK /\ RequestOK)
<1> QED
  BY TypeInvInit, TypeInvNext, PTL DEF Spec, TypeInv
-----------------------------------------------------------------------------
(* Replay.  The argument: a nonce accepted once is remembered until the      *)
(* token's expiry, and one accepted twice (so at its expiry or later) for a  *)
(* further TTL, in the memory of every process that is still running.        *)

RemembersUntil(p, n, t) == \E e \in used[p] : e.nonce = n /\ e.exp >= t

ReplayInv ==
  /\ \A p \in Procs, n \in Nonces : accepts[p][n] >= 1 => n \in issued
  /\ \A p \in Procs, n \in issued :
       pc[p] # "gone" /\ accepts[p][n] >= 1 /\ clock < ticket[n].exp
         => RemembersUntil(p, n, ticket[n].exp)
  /\ \A p \in Procs, n \in issued :
       pc[p] # "gone" /\ accepts[p][n] >= 2 /\ clock < ticket[n].exp + TTL
         => RemembersUntil(p, n, ticket[n].exp + TTL)
  /\ NoReplayBeforeExpiry
  /\ ThirdUseNeedsStall

LEMMA ReplayInvInit == Init => ReplayInv
BY DEF Init, ReplayInv, NoReplayBeforeExpiry, ThirdUseNeedsStall

\* Steps that leave the memory, the tokens and the clock alone.
LEMMA ReplayFrame ==
  ASSUME ReplayInv, UNCHANGED <<clock, used, accepts, issued, ticket>>,
         \A p \in Procs : pc'[p] # "gone" => pc[p] # "gone"
  PROVE  ReplayInv'
BY DEF ReplayInv, RemembersUntil, NoReplayBeforeExpiry, ThirdUseNeedsStall

\* The cleanup keeps every entry that can still matter.
LEMMA LiveRemembers ==
  ASSUME TypeOK, NEW p \in Procs, NEW n \in Nonces, NEW t \in Nat,
         RemembersUntil(p, n, t), clock < t
  PROVE  \E e \in Live(used[p], clock) : e.nonce = n /\ e.exp >= t
<1>1. PICK e \in used[p] : e.nonce = n /\ e.exp >= t
  BY DEF RemembersUntil
<1>2. e.exp \in Nat
  BY <1>1 DEF TypeOK, NonceEntries
<1>3. e \in Live(used[p], clock)
  BY <1>1, <1>2 DEF Live, TypeOK
<1> QED
  BY <1>1, <1>3

LEMMA RejectKeepsReplayInv ==
  ASSUME TypeInv, ReplayInv, NEW p \in Procs, RejectReplay(p)
  PROVE  ReplayInv'
<1>1. UNCHANGED <<clock, accepts, issued, ticket>>
  BY DEF RejectReplay, tokenVars, keyVars, historyVars
<1>2. \A q \in Procs : pc'[q] # "gone" => pc[q] # "gone"
  BY DEF RejectReplay, Finish, TypeInv, TypeOK
<1>3. ASSUME NEW q \in Procs, NEW n \in Nonces, NEW t \in Nat, clock < t,
             RemembersUntil(q, n, t)
      PROVE  \E e \in used'[q] : e.nonce = n /\ e.exp >= t
  <2>1. CASE q = p
    <3>1. used'[p] = Live(used[p], clock)
      BY DEF RejectReplay, TypeInv, TypeOK
    <3> QED
      BY <1>3, <2>1, <3>1, LiveRemembers DEF RemembersUntil, TypeInv
  <2>2. CASE q # p
    BY <1>3, <2>2 DEF RejectReplay, RemembersUntil, TypeInv, TypeOK
  <2> QED
    BY <2>1, <2>2
<1>4. \A n \in issued : ticket[n].exp \in Nat /\ ticket[n].exp + TTL \in Nat /\ n \in Nonces
  BY ConstantsAssumption DEF TypeInv, TypeOK, Tickets
<1> QED
  BY <1>1, <1>2, <1>3, <1>4 DEF ReplayInv, NoReplayBeforeExpiry, ThirdUseNeedsStall,
     RemembersUntil

\* An acceptance: the nonce was not remembered, so the bounds have passed.
LEMMA RecordKeepsReplayInv ==
  ASSUME TypeInv, ReplayInv, NEW p \in Procs, pc[p] = "consume", Record(p),
         \A q \in Procs : pc'[q] # "gone" => pc[q] # "gone"
  PROVE  ReplayInv'
<1> DEFINE m == req[p].nonce
           x == ticket[m].exp
<1>1. m \in issued /\ m \in Nonces
  BY DEF TypeInv, TypeOK, RequestOK, Finalizing, Requests
<1>2. \A n \in issued : ticket[n].exp \in Nat /\ n \in Nonces
  BY DEF TypeInv, TypeOK, Tickets
<1>3. TTL \in Nat /\ TTL > 0 /\ clock \in Nat
  BY ConstantsAssumption DEF TypeInv, TypeOK
<1>4. UNCHANGED <<clock, issued, ticket>>
  BY DEF Record, tokenVars, keyVars
<1>5. \A q \in Procs, n \in Nonces :
        accepts'[q][n] = IF q = p /\ n = m THEN accepts[q][n] + 1 ELSE accepts[q][n]
  BY <1>1 DEF Record, TypeInv, TypeOK
<1>6. \A q \in Procs, n \in Nonces : accepts[q][n] \in Nat
  BY DEF TypeInv, TypeOK
<1>7. used'[p] = Live(used[p], clock) \cup {[nonce |-> m, exp |-> NonceExpiry(x, clock)]}
  BY DEF Record, TypeInv, TypeOK
<1>8. ASSUME NEW t \in Nat, RemembersUntil(p, m, t)
      PROVE  ~(clock < t)
  BY <1>1, <1>8, LiveRemembers DEF Record, Remembers, TypeInv
<1>9. accepts[p][m] >= 1 => clock >= x
  <2>1. x \in Nat
    BY <1>1, <1>2
  <2> QED
    BY <1>1, <1>3, <1>8, <2>1 DEF ReplayInv
<1>10. accepts[p][m] >= 2 => clock >= x + TTL
  <2>1. x + TTL \in Nat
    BY <1>1, <1>2, <1>3
  <2> QED
    BY <1>1, <1>3, <1>8, <2>1 DEF ReplayInv
<1>11. \E e \in used'[p] : e.nonce = m /\ e.exp >= NonceExpiry(x, clock)
  <2> DEFINE r == [nonce |-> m, exp |-> NonceExpiry(x, clock)]
  <2>1. NonceExpiry(x, clock) \in Nat
    BY <1>1, <1>2, <1>3, ExpiryType
  <2>2. r \in used'[p]
    BY <1>7
  <2>3. r.nonce = m /\ r.exp >= NonceExpiry(x, clock)
    BY <2>1
  <2> QED
    BY <2>2, <2>3
<1>12. ASSUME NEW q \in Procs, NEW n \in Nonces, NEW t \in Nat, clock < t,
              RemembersUntil(q, n, t)
       PROVE  \E e \in used'[q] : e.nonce = n /\ e.exp >= t
  <2>1. CASE q = p
    BY <1>7, <1>12, <2>1, LiveRemembers DEF TypeInv
  <2>2. CASE q # p
    BY <1>12, <2>2 DEF Record, RemembersUntil, TypeInv, TypeOK
  <2> QED
    BY <2>1, <2>2
<1>13. NonceExpiry(x, clock) >= x /\ (clock >= x => NonceExpiry(x, clock) >= x + TTL)
  BY <1>1, <1>2, <1>3 DEF NonceExpiry
<1>14. \E e \in used'[p] :
         e.nonce = m /\ e.exp >= x /\ (accepts[p][m] >= 1 => e.exp >= x + TTL)
  <2>1. x \in Nat /\ NonceExpiry(x, clock) \in Nat
    BY <1>1, <1>2, <1>3, ExpiryType
  <2>2. PICK e \in used'[p] : e.nonce = m /\ e.exp >= NonceExpiry(x, clock)
    BY <1>11
  <2>3. e.exp \in Nat
    BY <1>7, <2>1, <2>2 DEF Live, TypeInv, TypeOK, NonceEntries
  <2>4. e.exp >= x /\ (accepts[p][m] >= 1 => e.exp >= x + TTL)
    BY <1>3, <1>9, <1>13, <2>1, <2>2, <2>3
  <2> QED
    BY <2>2, <2>4
<1>15. \A q \in Procs, n \in Nonces : accepts'[q][n] >= 1 => n \in issued
  BY <1>1, <1>5 DEF ReplayInv
<1>16. ASSUME NEW q \in Procs, NEW n \in issued, pc'[q] # "gone", accepts'[q][n] >= 1,
              clock < ticket[n].exp
       PROVE  RemembersUntil(q, n, ticket[n].exp)'
  <2>1. CASE q = p /\ n = m
    BY <1>4, <1>14, <2>1 DEF RemembersUntil
  <2>2. CASE ~(q = p /\ n = m)
    <3>1. RemembersUntil(q, n, ticket[n].exp)
      BY <1>2, <1>5, <1>16, <2>2 DEF ReplayInv
    <3>2. \E e \in used'[q] : e.nonce = n /\ e.exp >= ticket[n].exp
      BY <1>2, <1>12, <1>16, <3>1
    <3> QED
      BY <1>4, <3>2 DEF RemembersUntil
  <2> QED
    BY <2>1, <2>2
<1>17. ASSUME NEW q \in Procs, NEW n \in issued, pc'[q] # "gone", accepts'[q][n] >= 2,
              clock < ticket[n].exp + TTL
       PROVE  RemembersUntil(q, n, ticket[n].exp + TTL)'
  <2>1. CASE q = p /\ n = m
    BY <1>1, <1>4, <1>5, <1>6, <1>14, <1>17, <2>1 DEF RemembersUntil
  <2>2. CASE ~(q = p /\ n = m)
    <3>1. RemembersUntil(q, n, ticket[n].exp + TTL)
      BY <1>2, <1>5, <1>17, <2>2 DEF ReplayInv
    <3>2. ticket[n].exp + TTL \in Nat
      BY <1>2, <1>3
    <3>3. \E e \in used'[q] : e.nonce = n /\ e.exp >= ticket[n].exp + TTL
      BY <1>2, <1>12, <1>17, <3>1, <3>2
    <3> QED
      BY <1>4, <3>3 DEF RemembersUntil
  <2> QED
    BY <2>1, <2>2
<1>18. NoReplayBeforeExpiry'
  BY <1>1, <1>2, <1>4, <1>5, <1>6, <1>9 DEF ReplayInv, NoReplayBeforeExpiry
<1>19. ThirdUseNeedsStall'
  BY <1>1, <1>2, <1>4, <1>5, <1>6, <1>10 DEF ReplayInv, ThirdUseNeedsStall
<1> QED
  BY <1>4, <1>15, <1>16, <1>17, <1>18, <1>19 DEF ReplayInv

\* Signing a token does not disturb the nonces of the others.
LEMMA IssueKeepsReplayInv ==
  ASSUME TypeInv, ReplayInv, NEW p \in Procs, NEW n \in Nonces, NEW kind, NEW file,
         NEW digest, NEW fin, Issue(p, n, kind, file, digest, fin)
  PROVE  ReplayInv'
<1>1. UNCHANGED <<clock, used, accepts>>
  BY DEF Issue, procVars, keyVars, historyVars
<1>2. \A q \in Procs : pc'[q] # "gone" => pc[q] # "gone"
  BY DEF Issue, TypeInv, TypeOK
<1>3. issued' = issued \cup {n} /\ n \notin issued
  BY DEF Issue
<1>4. \A m \in issued : ticket'[m] = ticket[m]
  BY <1>3 DEF Issue
<1>5. \A q \in Procs : ~(accepts[q][n] >= 1) /\ ~(accepts[q][n] >= 2) /\ ~(accepts[q][n] >= 3)
  BY <1>3 DEF ReplayInv, TypeInv, TypeOK
<1>6. \A q \in Procs, m \in Nonces : accepts'[q][m] >= 1 => m \in issued'
  BY <1>1, <1>3 DEF ReplayInv
<1>7. /\ \A q \in Procs, m \in issued' :
           pc'[q] # "gone" /\ accepts'[q][m] >= 1 /\ clock' < ticket'[m].exp
             => RemembersUntil(q, m, ticket[m].exp)'
      /\ \A q \in Procs, m \in issued' :
           pc'[q] # "gone" /\ accepts'[q][m] >= 2 /\ clock' < ticket'[m].exp + TTL
             => RemembersUntil(q, m, ticket[m].exp + TTL)'
  BY <1>1, <1>2, <1>3, <1>4, <1>5 DEF ReplayInv, RemembersUntil
<1>8. NoReplayBeforeExpiry' /\ ThirdUseNeedsStall'
  BY <1>1, <1>3, <1>4, <1>5 DEF ReplayInv, NoReplayBeforeExpiry, ThirdUseNeedsStall
<1> QED
  BY <1>6, <1>7, <1>8 DEF ReplayInv

LEMMA ReplayInvNext == TypeInv /\ ReplayInv /\ [Next]_vars => ReplayInv'
<1> SUFFICES ASSUME TypeInv, ReplayInv, [Next]_vars PROVE ReplayInv'
  OBVIOUS
<1>1. CASE UNCHANGED vars
  BY <1>1, ReplayFrame DEF vars, procVars, keyVars, tokenVars, historyVars
<1>2. CASE Tick
  <2>1. UNCHANGED <<pc, used, accepts, issued, ticket>> /\ clock' = clock + 1 /\ clock \in Nat
    BY <1>2 DEF Tick, procVars, keyVars, tokenVars, historyVars, TypeInv, TypeOK
  <2>2. \A n \in issued : ticket[n].exp \in Nat /\ ticket[n].exp + TTL \in Nat
    BY ConstantsAssumption DEF TypeInv, TypeOK, Tickets
  <2> QED
    BY <2>1, <2>2 DEF ReplayInv, RemembersUntil, NoReplayBeforeExpiry, ThirdUseNeedsStall
<1>3. CASE SignIn
  BY <1>3, ReplayFrame DEF SignIn, procVars, keyVars, tokenVars, historyVars
<1>4. ASSUME NEW p \in Procs,
             StartWithEnv(p) \/ StartWithKeychain(p) \/ DeriveFromAccess(p)
      PROVE  ReplayInv'
  BY <1>4, ReplayFrame DEF StartWithEnv, StartWithKeychain, DeriveFromAccess, KeyIs, tokenVars, keyVars,
     historyVars, TypeInv, TypeOK
<1>5. ASSUME NEW p \in Procs, Exit(p) PROVE ReplayInv'
  <2>1. UNCHANGED <<clock, accepts, issued, ticket>>
    BY <1>5 DEF Exit, tokenVars, keyVars, historyVars
  <2>2. /\ pc'[p] = "gone"
        /\ \A q \in Procs \ {p} : pc'[q] = pc[q] /\ used'[q] = used[q]
    BY <1>5 DEF Exit, TypeInv, TypeOK
  <2> QED
    BY <2>1, <2>2 DEF ReplayInv, RemembersUntil, NoReplayBeforeExpiry, ThirdUseNeedsStall
<1>6. ASSUME NEW p \in Procs,
             \/ PrepareAuth(p) \/ PrepareFails(p) \/ AdmitToken(p) \/ PullClient(p)
      PROVE  ReplayInv'
  BY <1>6, ReplayFrame DEF PrepareAuth, PrepareFails, AdmitToken, PullClient, procVars,
     tokenVars, keyVars, historyVars, TypeInv, TypeOK
<1>7. ASSUME NEW p \in Procs, NEW n \in Nonces, PushPrepare(p, n) \/ PullPrepare(p, n)
      PROVE  ReplayInv'
  BY <1>7, IssueKeepsReplayInv DEF PushPrepare, PullPrepare
<1>8. ASSUME NEW p \in Procs, NEW op, NEW n \in Nonces, NEW d, Receive(p, op, n, d)
      PROVE  ReplayInv'
  BY <1>8, ReplayFrame DEF Receive, tokenVars, keyVars, historyVars, TypeInv, TypeOK
<1>9. ASSUME NEW p \in Procs, RefuseToken(p) \/ PullClientFails(p) \/ PushAnswered(p)
      PROVE  ReplayInv'
  BY <1>9, ReplayFrame DEF RefuseToken, PullClientFails, PushAnswered, Finish, tokenVars, keyVars,
     historyVars, TypeInv, TypeOK
<1>10. ASSUME NEW p \in Procs, RejectReplay(p) PROVE ReplayInv'
  BY <1>10, RejectKeepsReplayInv
<1>11. ASSUME NEW p \in Procs, AcceptPush(p) \/ AcceptPull(p) PROVE ReplayInv'
  <2>1. \A q \in Procs : pc'[q] # "gone" => pc[q] # "gone"
    BY <1>11 DEF AcceptPush, AcceptPull, Finish, TypeInv, TypeOK
  <2> QED
    BY <1>11, <2>1, RecordKeepsReplayInv DEF AcceptPush, AcceptPull
<1>12. ASSUME NEW p \in Procs, NEW reply, PullAnswered(p, reply) PROVE ReplayInv'
  BY <1>12, ReplayFrame DEF PullAnswered, Finish, tokenVars, keyVars, TypeInv, TypeOK
<1> QED
  BY <1>1, <1>2, <1>3, <1>4, <1>5, <1>6, <1>7, <1>8, <1>9, <1>10, <1>11, <1>12
     DEF Next, PushFinalize, PullFinalize

\* Before a token expires no process accepts its nonce twice, however the
\* requests, the clock and the cleanup of the memory interleave.
THEOREM ReplayExcluded == Spec => []NoReplayBeforeExpiry
<1>1. ReplayInv => NoReplayBeforeExpiry
  BY DEF ReplayInv
<1> QED
  BY <1>1, TypeInvInit, TypeInvNext, ReplayInvInit, ReplayInvNext, PTL DEF Spec

\* A third acceptance needs a process that stalls for a whole TTL.
THEOREM ThirdUseBounded == Spec => []ThirdUseNeedsStall
<1>1. ReplayInv => ThirdUseNeedsStall
  BY DEF ReplayInv
<1> QED
  BY <1>1, TypeInvInit, TypeInvNext, ReplayInvInit, ReplayInvNext, PTL DEF Spec

-----------------------------------------------------------------------------
(* The signing key.  A session is kept, renewed with the same refresh token, *)
(* renewed with another one where the server rotates them, or replaced,      *)
(* which starts a new epoch.  Within an epoch the entry a key is taken from  *)
(* stays the same entry, and keeps its value unless the server rotates it.   *)

\* The entry of a session a key is taken from when no Get fails.
Kind(s) ==
  IF s.refresh # 0 THEN "refresh_token"
  ELSE IF s.access # 0 THEN "stored_access_token"
  ELSE "random"

SessionKey(s) ==
  [src |-> Kind(s), id |-> IF s.refresh # 0 THEN s.refresh ELSE s.access]

\* p took its key from the keychain, and nothing came in between.
Straight(p) == env[p] = "none" /\ HasKey(p) /\ ~astray[p]

\* p's key is the one of the session in the keychain.
Current(p) ==
  /\ key[p].src = Kind(session)
  /\ FromSession(p) => key[p] = SessionKey(session)

\* The token that carries n bears the signer's key.
SignedBy(n) == HasKey(ticket[n].by) /\ ticket[n].key = key[ticket[n].by]

KeyInv ==
  /\ \A p \in Procs : born[p] <= epoch
  /\ \A p \in Procs : pc[p] \in {"new", "deriving"} => key[p] = NoKey
  /\ \A p \in Procs : pc[p] \in {"idle", "prepare"} \cup Finalizing => HasKey(p)
  /\ \A p \in Procs : HasKey(p) /\ env[p] # "none" => key[p] = [src |-> env[p], id |-> 0]
  /\ \A p \in Procs :
       pc[p] = "deriving" => /\ env[p] = "none"
                             /\ ~astray[p] /\ born[p] = epoch => session.refresh = 0
  /\ \A p \in Procs : Straight(p) /\ born[p] = epoch => Current(p)
  /\ \A p, q \in Procs :
       Straight(p) /\ Straight(q) /\ born[p] = born[q] =>
         /\ key[p].src = key[q].src
         /\ FromSession(p) => key[p] = key[q]
  /\ \A n \in issued : SignedBy(n)

SessionKept     == session' = session /\ epoch' = epoch
SessionRenewed  == /\ session.refresh # 0 /\ session'.refresh = session.refresh
                   /\ session'.access # 0
                   /\ epoch' = epoch
SessionRotated  == /\ Rotates # FALSE
                   /\ session.refresh # 0 /\ session'.refresh # 0
                   /\ session'.access # 0
                   /\ epoch' = epoch
SessionReplaced == session'.access # 0 /\ epoch' = epoch + 1

SessionMoves == SessionKept \/ SessionRenewed \/ SessionRotated \/ SessionReplaced

LEMMA AuthenticateCases ==
  ASSUME TypeOK, NEW p \in Procs, Authenticate(p)
  PROVE  SessionMoves
<1>1. fresh + 1 # 0
  BY DEF TypeOK
<1>2. CASE \/ env[p] # "none" /\ UNCHANGED sessionVars
           \/ Replace(0)
           \/ env[p] = "none" /\ session.access # 0 /\ UNCHANGED sessionVars
  BY <1>1, <1>2 DEF Replace, SessionKept, SessionReplaced, SessionMoves, sessionVars
<1>3. CASE \E rotated \in {FALSE, Rotates} :
             /\ session.refresh # 0 /\ UNCHANGED epoch
             /\ session' = Refreshed(session, fresh + 1, rotated)
  <2>1. PICK rotated \in {FALSE, Rotates} :
          /\ session.refresh # 0 /\ UNCHANGED epoch
          /\ session' = Refreshed(session, fresh + 1, rotated)
    BY <1>3
  <2>2. session'.access # 0
    BY <1>1, <2>1 DEF Refreshed
  <2>3. CASE rotated = FALSE
    BY <2>1, <2>2, <2>3 DEF Refreshed, SessionRenewed, SessionMoves
  <2>4. CASE rotated # FALSE
    <3>1. session'.refresh # 0 /\ Rotates # FALSE
      BY <1>1, <2>1, <2>4 DEF Refreshed
    <3> QED
      BY <2>1, <2>2, <3>1 DEF SessionRotated, SessionMoves
  <2> QED
    BY <2>2, <2>3, <2>4
<1>4. env[p] = "client_credentials" => env[p] # "none"
  OBVIOUS
<1>5. \/ env[p] # "none" /\ UNCHANGED sessionVars
      \/ env[p] # "none" /\ Replace(0)
      \/ env[p] = "none" /\ session.access # 0 /\ UNCHANGED sessionVars
      \/ \E rotated \in {FALSE, Rotates} :
           /\ session.refresh # 0 /\ UNCHANGED epoch
           /\ session' = Refreshed(session, fresh + 1, rotated)
  BY <1>4 DEF Authenticate
<1> QED
  BY <1>2, <1>3, <1>5

\* Steps that sign nothing and derive no key.
LEMMA KeyFrame ==
  ASSUME TypeInv, KeyInv, SessionMoves,
         UNCHANGED <<env, key, born, astray, issued, ticket>>,
         \A p \in Procs : pc'[p] \in {"new", "deriving"} => pc'[p] = pc[p],
         \A p \in Procs : pc'[p] \in {"idle", "prepare"} \cup Finalizing => HasKey(p)
  PROVE  KeyInv'
<1>1. epoch \in Nat /\ (epoch' = epoch \/ epoch' = epoch + 1)
  BY DEF TypeInv, TypeOK, SessionMoves, SessionKept, SessionRenewed, SessionRotated, SessionReplaced
<1>2. \A p \in Procs : born[p] \in Nat /\ born[p] <= epoch
  BY DEF TypeInv, TypeOK, KeyInv
<1>3. \A p \in Procs : born'[p] <= epoch'
  BY <1>1, <1>2
<1>4. \A p \in Procs : born'[p] = epoch' => born[p] = epoch /\ epoch' = epoch
  BY <1>1, <1>2
<1>5. epoch' = epoch => /\ session.refresh = 0 => session'.refresh = 0
                        /\ Kind(session') = Kind(session)
                        /\ Rotates = FALSE \/ Kind(session) # "refresh_token"
                             => SessionKey(session') = SessionKey(session)
  <2>1. epoch' = epoch => SessionKept \/ SessionRenewed \/ SessionRotated
    BY <1>1 DEF SessionMoves, SessionReplaced
  <2>2. CASE SessionKept
    BY <2>2 DEF SessionKept
  <2>3. CASE SessionRenewed
    BY <2>3 DEF SessionRenewed, Kind, SessionKey
  <2>4. CASE SessionRotated
    BY <2>4 DEF SessionRotated, Kind
  <2> QED
    BY <2>1, <2>2, <2>3, <2>4
<1>6. \A p \in Procs : /\ HasKey(p)' <=> HasKey(p)
                       /\ Straight(p)' <=> Straight(p)
                       /\ FromSession(p)' <=> FromSession(p)
  BY DEF HasKey, Straight, FromSession
<1>7. \A p \in Procs :
        pc'[p] = "deriving" => /\ env'[p] = "none"
                               /\ ~astray'[p] /\ born'[p] = epoch' => session'.refresh = 0
  BY <1>4, <1>5 DEF KeyInv
<1>8. ASSUME NEW p \in Procs, Straight(p)', born'[p] = epoch'
      PROVE  Current(p)'
  <2>1. Current(p) /\ epoch' = epoch
    BY <1>4, <1>6, <1>8 DEF KeyInv
  <2> QED
    BY <1>5, <1>6, <2>1 DEF Current, FromSession
<1>9. \A p, q \in Procs :
        Straight(p)' /\ Straight(q)' /\ born'[p] = born'[q] =>
          /\ key'[p].src = key'[q].src
          /\ FromSession(p)' => key'[p] = key'[q]
  BY <1>6 DEF KeyInv
<1>10. \A p \in Procs : pc'[p] \in {"new", "deriving"} => key'[p] = NoKey
  BY DEF KeyInv
<1>11. \A p \in Procs : HasKey(p)' /\ env'[p] # "none" => key'[p] = [src |-> env'[p], id |-> 0]
  BY <1>6 DEF KeyInv
<1>12. \A n \in issued' : SignedBy(n)'
  BY <1>6 DEF KeyInv, SignedBy, HasKey
<1>13. \A p \in Procs : pc'[p] \in {"idle", "prepare"} \cup Finalizing => HasKey(p)'
  BY <1>6
<1> QED
  BY <1>3, <1>7, <1>8, <1>9, <1>10, <1>11, <1>12, <1>13 DEF KeyInv

LEMMA KeyInvInit == Init => KeyInv
BY DEF Init, KeyInv, HasKey, Straight, Finalizing

\* p gets the key k.
LEMMA KeyIsKeepsKeyInv ==
  ASSUME TypeInv, KeyInv, NEW p \in Procs, NEW k, KeyIs(p, k), k # NoKey,
         pc[p] \in {"new", "deriving"},
         UNCHANGED <<env, session, epoch, issued, ticket>>,
         \A q \in Procs \ {p} : born'[q] = born[q] /\ astray'[q] = astray[q],
         born'[p] <= epoch,
         env[p] # "none" => k = [src |-> env[p], id |-> 0],
         env[p] = "none" /\ ~astray'[p] =>
           /\ born'[p] = epoch
           /\ k.src = Kind(session)
           /\ k.src # "random" => k = SessionKey(session)
  PROVE  KeyInv'
<1>1. /\ key'[p] = k /\ pc'[p] = "idle"
      /\ \A q \in Procs \ {p} : key'[q] = key[q] /\ pc'[q] = pc[q]
  BY DEF KeyIs, TypeInv, TypeOK
<1>2. ~HasKey(p)
  BY DEF KeyInv, HasKey
<1>3. \A n \in issued : ticket[n].by \in Procs \ {p}
  BY <1>2 DEF KeyInv, SignedBy, TypeInv, TypeOK, Tickets
<1>4. \A q \in Procs \ {p} : /\ HasKey(q)' <=> HasKey(q)
                             /\ Straight(q)' <=> Straight(q)
                             /\ FromSession(q)' <=> FromSession(q)
                             /\ Current(q)' <=> Current(q)
  BY <1>1 DEF HasKey, Straight, FromSession, Current
<1>5. HasKey(p)'
  BY <1>1 DEF HasKey
<1>6. Straight(p)' => /\ born'[p] = epoch
                      /\ Current(p)'
  BY <1>1 DEF Straight, Current, FromSession
<1>7. \A q \in Procs : Straight(q)' /\ born'[q] = epoch' => Current(q)'
  BY <1>4, <1>6 DEF KeyInv
<1>8. ASSUME NEW q \in Procs, NEW t \in Procs, Straight(q)', Straight(t)', born'[q] = born'[t]
      PROVE  /\ key'[q].src = key'[t].src
             /\ FromSession(q)' => key'[q] = key'[t]
  <2>1. CASE q # p /\ t # p
    BY <1>1, <1>4, <1>8, <2>1 DEF KeyInv
  <2>2. CASE q = p \/ t = p
    <3>1. Current(q)' /\ Current(t)'
      BY <1>6, <1>7, <1>8, <2>2
    <3>2. key'[q].src = key'[t].src
      BY <3>1 DEF Current
    <3>3. FromSession(q)' => FromSession(t)'
      BY <1>8, <3>2 DEF FromSession, Straight
    <3> QED
      BY <3>1, <3>2, <3>3 DEF Current
  <2> QED
    BY <2>1, <2>2
<1>9. \A q \in Procs : born'[q] <= epoch'
  BY DEF KeyInv
<1>10. \A q \in Procs : pc'[q] \in {"new", "deriving"} => key'[q] = NoKey
  BY <1>1 DEF KeyInv
<1>11. \A q \in Procs : pc'[q] \in {"idle", "prepare"} \cup Finalizing => HasKey(q)'
  BY <1>1, <1>4, <1>5 DEF KeyInv
<1>12. \A q \in Procs : HasKey(q)' /\ env'[q] # "none" => key'[q] = [src |-> env'[q], id |-> 0]
  BY <1>1, <1>4 DEF KeyInv
<1>13. \A q \in Procs :
         pc'[q] = "deriving" => /\ env'[q] = "none"
                                /\ ~astray'[q] /\ born'[q] = epoch' => session'.refresh = 0
  BY <1>1 DEF KeyInv
<1>14. \A n \in issued' : SignedBy(n)'
  BY <1>1, <1>3, <1>4 DEF KeyInv, SignedBy
<1> QED
  BY <1>7, <1>8, <1>9, <1>10, <1>11, <1>12, <1>13, <1>14 DEF KeyInv

LEMMA StartWithEnvKeepsKeyInv ==
  ASSUME TypeInv, KeyInv, NEW p \in Procs, StartWithEnv(p)
  PROVE  KeyInv'
<1>1. [src |-> env[p], id |-> 0] # NoKey /\ env[p] # "none"
  BY DEF StartWithEnv, EnvSources, NoKey
<1>2. born'[p] = epoch /\ epoch <= epoch /\ \A q \in Procs \ {p} : born'[q] = born[q]
  BY DEF StartWithEnv, TypeInv, TypeOK
<1> QED
  BY <1>1, <1>2, KeyIsKeepsKeyInv DEF StartWithEnv, sessionVars, tokenVars

LEMMA StartWithKeychainKeepsKeyInv ==
  ASSUME TypeInv, KeyInv, NEW p \in Procs, StartWithKeychain(p)
  PROVE  KeyInv'
<1>1. PICK got \in Get(FirstEntry(session)) :
        /\ born' = [born EXCEPT ![p] = epoch]
        /\ astray' = [astray EXCEPT ![p] = got # FirstEntry(session)]
        /\ IF got # 0
           THEN KeyIs(p, [src |-> "refresh_token", id |-> got])
           ELSE pc' = [pc EXCEPT ![p] = "deriving"] /\ UNCHANGED key
  BY DEF StartWithKeychain
<1>2. UNCHANGED <<env, session, epoch, issued, ticket>> /\ pc[p] = "new"
  BY DEF StartWithKeychain, sessionVars, tokenVars
<1>3. env[p] = "none"
  BY DEF StartWithKeychain, TypeInv, TypeOK
<1>4. /\ born'[p] = epoch /\ astray'[p] = (got # session.refresh)
      /\ \A q \in Procs \ {p} : born'[q] = born[q] /\ astray'[q] = astray[q]
  BY <1>1 DEF TypeInv, TypeOK, FirstEntry
<1>5. epoch \in Nat /\ epoch <= epoch
  BY DEF TypeInv, TypeOK
<1>6. CASE got # 0
  <2>1. got = session.refresh
    BY <1>1, <1>6 DEF Get, FirstEntry
  <2>2. /\ "refresh_token" = Kind(session)
        /\ [src |-> "refresh_token", id |-> got] = SessionKey(session)
    BY <1>6, <2>1 DEF SessionKey, Kind
  <2>3. [src |-> "refresh_token", id |-> got] # NoKey
    BY DEF NoKey
  <2> QED
    BY <1>1, <1>2, <1>3, <1>4, <1>5, <1>6, <2>2, <2>3, KeyIsKeepsKeyInv
<1>7. CASE got = 0
  <2>1. pc' = [pc EXCEPT ![p] = "deriving"] /\ UNCHANGED key
    BY <1>1, <1>7
  <2>2. key[p] = NoKey
    BY <1>2 DEF KeyInv
  <2>3. pc'[p] = "deriving" /\ \A q \in Procs \ {p} : pc'[q] = pc[q]
    BY <2>1 DEF TypeInv, TypeOK
  <2>4. /\ ~HasKey(p) /\ ~HasKey(p)' /\ ~Straight(p)'
        /\ \A q \in Procs \ {p} : /\ HasKey(q)' <=> HasKey(q)
                                  /\ Straight(q)' <=> Straight(q)
                                  /\ FromSession(q)' <=> FromSession(q)
                                  /\ Current(q)' <=> Current(q)
    BY <1>2, <1>4, <2>1, <2>2 DEF HasKey, Straight, FromSession, Current
  <2>5. ~astray'[p] => session.refresh = 0
    BY <1>4, <1>7
  <2>6. \A q \in Procs : born'[q] <= epoch'
    BY <1>2, <1>4, <1>5 DEF KeyInv
  <2>7. \A q \in Procs : pc'[q] \in {"new", "deriving"} => key'[q] = NoKey
    BY <2>1, <2>2, <2>3 DEF KeyInv
  <2>8. \A q \in Procs : pc'[q] \in {"idle", "prepare"} \cup Finalizing => HasKey(q)'
    BY <2>3, <2>4 DEF KeyInv, Finalizing
  <2>9. \A q \in Procs : HasKey(q)' /\ env'[q] # "none" => key'[q] = [src |-> env'[q], id |-> 0]
    BY <1>2, <2>1, <2>4 DEF KeyInv
  <2>10. \A q \in Procs :
           pc'[q] = "deriving" => /\ env'[q] = "none"
                                  /\ ~astray'[q] /\ born'[q] = epoch' => session'.refresh = 0
    BY <1>2, <1>3, <1>4, <2>3, <2>5 DEF KeyInv
  <2>11. \A q \in Procs : Straight(q)' /\ born'[q] = epoch' => Current(q)'
    BY <1>2, <1>4, <2>4 DEF KeyInv
  <2>12. \A q, t \in Procs :
           Straight(q)' /\ Straight(t)' /\ born'[q] = born'[t] =>
             /\ key'[q].src = key'[t].src
             /\ FromSession(q)' => key'[q] = key'[t]
    BY <1>4, <2>1, <2>4 DEF KeyInv
  <2>13. \A n \in issued' : SignedBy(n)'
    BY <1>2, <2>1 DEF KeyInv, SignedBy, HasKey
  <2> QED
    BY <2>6, <2>7, <2>8, <2>9, <2>10, <2>11, <2>12, <2>13 DEF KeyInv
<1> QED
  BY <1>6, <1>7

LEMMA DeriveKeepsKeyInv ==
  ASSUME TypeInv, KeyInv, NEW p \in Procs, DeriveFromAccess(p)
  PROVE  KeyInv'
<1>1. PICK got \in Get(session.access) :
        /\ astray' = [astray EXCEPT ![p] = @ \/ got # session.access \/ born[p] # epoch]
        /\ \/ got # 0 /\ KeyIs(p, [src |-> "stored_access_token", id |-> got])
           \/ got = 0 /\ KeyIs(p, [src |-> "random", id |-> fresh + 1])
  BY DEF DeriveFromAccess
<1>2. UNCHANGED <<env, session, epoch, issued, ticket, born>> /\ pc[p] = "deriving"
  BY DEF DeriveFromAccess, tokenVars
<1>3. /\ astray'[p] <=> (astray[p] \/ got # session.access \/ born[p] # epoch)
      /\ \A q \in Procs \ {p} : astray'[q] = astray[q]
  BY <1>1 DEF TypeInv, TypeOK
<1>4. env[p] = "none" /\ born[p] <= epoch
  BY <1>2 DEF KeyInv
<1>5. ~astray'[p] => born[p] = epoch /\ session.refresh = 0 /\ got = session.access
  BY <1>2, <1>3 DEF KeyInv
<1>6. CASE got # 0 /\ KeyIs(p, [src |-> "stored_access_token", id |-> got])
  <2>1. ~astray'[p] => /\ "stored_access_token" = Kind(session)
                       /\ [src |-> "stored_access_token", id |-> got] = SessionKey(session)
    BY <1>5, <1>6 DEF SessionKey, Kind
  <2>2. [src |-> "stored_access_token", id |-> got] # NoKey
    BY DEF NoKey
  <2> QED
    BY <1>2, <1>3, <1>4, <1>5, <1>6, <2>1, <2>2, KeyIsKeepsKeyInv
<1>7. CASE got = 0 /\ KeyIs(p, [src |-> "random", id |-> fresh + 1])
  <2>1. ~astray'[p] => "random" = Kind(session)
    BY <1>5, <1>7 DEF Kind
  <2>2. [src |-> "random", id |-> fresh + 1] # NoKey
    BY DEF NoKey, TypeInv, TypeOK
  <2> QED
    BY <1>2, <1>3, <1>4, <1>5, <1>7, <2>1, <2>2, KeyIsKeepsKeyInv
<1> QED
  BY <1>1, <1>6, <1>7

\* Signing a token: with the process's own key.
LEMMA IssueKeepsKeyInv ==
  ASSUME TypeInv, KeyInv, NEW p \in Procs, NEW n \in Nonces, NEW kind, NEW file,
         NEW digest, NEW fin, Issue(p, n, kind, file, digest, fin)
  PROVE  KeyInv'
<1>1. UNCHANGED <<env, session, epoch, key, born, astray>> /\ pc[p] = "prepare"
  BY DEF Issue, sessionVars, procVars, keyVars
<1>2. HasKey(p)
  BY <1>1 DEF KeyInv
<1>3. pc' = [pc EXCEPT ![p] = "idle"] /\ issued' = issued \cup {n} /\ n \notin issued
  BY DEF Issue
<1>4. \A m \in issued : ticket'[m] = ticket[m]
  BY <1>3 DEF Issue
<1>5. ticket'[n].by = p /\ ticket'[n].key = key[p]
  BY <1>3 DEF Issue
<1>6. \A m \in issued' : SignedBy(m)'
  BY <1>1, <1>2, <1>3, <1>4, <1>5 DEF KeyInv, SignedBy, HasKey
<1>7. \A q \in Procs : /\ HasKey(q)' <=> HasKey(q)
                       /\ Straight(q)' <=> Straight(q)
                       /\ FromSession(q)' <=> FromSession(q)
                       /\ Current(q)' <=> Current(q)
  BY <1>1 DEF HasKey, Straight, FromSession, Current
<1>8. \A q \in Procs : pc'[q] = IF q = p THEN "idle" ELSE pc[q]
  BY <1>3 DEF TypeInv, TypeOK
<1>9. \A q \in Procs : pc'[q] \in {"new", "deriving"} => key'[q] = NoKey
  BY <1>1, <1>8 DEF KeyInv
<1>10. \A q \in Procs : pc'[q] \in {"idle", "prepare"} \cup Finalizing => HasKey(q)'
  BY <1>2, <1>7, <1>8 DEF KeyInv
<1>11. \A q \in Procs :
         pc'[q] = "deriving" => /\ env'[q] = "none"
                                /\ ~astray'[q] /\ born'[q] = epoch' => session'.refresh = 0
  BY <1>1, <1>8 DEF KeyInv
<1>12. \A q, t \in Procs :
         Straight(q)' /\ Straight(t)' /\ born'[q] = born'[t] =>
           /\ key'[q].src = key'[t].src
           /\ FromSession(q)' => key'[q] = key'[t]
  BY <1>1, <1>7 DEF KeyInv
<1>13. \A q \in Procs : Straight(q)' /\ born'[q] = epoch' => Current(q)'
  BY <1>1, <1>7 DEF KeyInv
<1>14. \A q \in Procs : HasKey(q)' /\ env'[q] # "none" => key'[q] = [src |-> env'[q], id |-> 0]
  BY <1>1, <1>7 DEF KeyInv
<1>15. \A q \in Procs : born'[q] <= epoch'
  BY <1>1 DEF KeyInv
<1> QED
  BY <1>6, <1>9, <1>10, <1>11, <1>12, <1>13, <1>14, <1>15 DEF KeyInv

LEMMA KeyInvNext == TypeInv /\ KeyInv /\ [Next]_vars => KeyInv'
<1> SUFFICES ASSUME TypeInv, KeyInv, [Next]_vars PROVE KeyInv'
  OBVIOUS
<1> DEFINE Kept == UNCHANGED <<env, key, born, astray, issued, ticket>>
           Steps == /\ \A q \in Procs : pc'[q] \in {"new", "deriving"} => pc'[q] = pc[q]
                    /\ \A q \in Procs : pc'[q] \in {"idle", "prepare"} \cup Finalizing => HasKey(q)
<1>1. CASE UNCHANGED vars
  <2>1. Kept /\ SessionMoves /\ Steps
    BY <1>1 DEF vars, sessionVars, procVars, keyVars, tokenVars, SessionKept, SessionMoves, KeyInv
  <2> QED
    BY <2>1, KeyFrame
<1>2. CASE Tick \/ SignIn
  <2>1. Kept /\ UNCHANGED pc
    BY <1>2 DEF Tick, SignIn, procVars, keyVars, tokenVars
  <2>2. SessionMoves
    BY <1>2 DEF Tick, SignIn, Replace, sessionVars, SessionKept, SessionReplaced, SessionMoves,
       TypeInv, TypeOK
  <2>3. Steps
    BY <2>1 DEF KeyInv
  <2> QED
    BY <2>1, <2>2, <2>3, KeyFrame
<1>3. ASSUME NEW p \in Procs,
             StartWithEnv(p) \/ StartWithKeychain(p) \/ DeriveFromAccess(p)
      PROVE  KeyInv'
  BY <1>3, StartWithEnvKeepsKeyInv, StartWithKeychainKeepsKeyInv, DeriveKeepsKeyInv
<1>4. ASSUME NEW p \in Procs, NEW n \in Nonces, PushPrepare(p, n) \/ PullPrepare(p, n)
      PROVE  KeyInv'
  BY <1>4, IssueKeepsKeyInv DEF PushPrepare, PullPrepare
<1>5. ASSUME NEW p \in Procs, NEW n, NEW d,
             \/ PrepareAuth(p) \/ PullClient(p)
             \/ PushFinalize(p, n) \/ PullFinalize(p, n, d)
      PROVE  KeyInv'
  <2>1. Kept
    BY <1>5 DEF PrepareAuth, PullClient, PushFinalize, PullFinalize, Receive, procVars, keyVars,
       tokenVars
  <2>2. SessionMoves
    <3>1. Authenticate(p) \/ UNCHANGED sessionVars
      BY <1>5 DEF PrepareAuth, PullClient, PushFinalize, PullFinalize
    <3> QED
      BY <3>1, AuthenticateCases DEF TypeInv, sessionVars, SessionKept, SessionMoves
  <2>3. /\ pc[p] \in {"idle", "client"}
        /\ \A q \in Procs : pc'[q] = pc[q] \/ (q = p /\ pc'[p] \in {"prepare", "call", "check"})
    BY <1>5 DEF PrepareAuth, PullClient, PushFinalize, PullFinalize, Receive, TypeInv, TypeOK
  <2>4. Steps
    BY <2>3 DEF KeyInv, Finalizing
  <2> QED
    BY <2>1, <2>2, <2>4, KeyFrame
<1>6. ASSUME NEW p \in Procs, NEW reply,
             \/ Exit(p) \/ PrepareFails(p) \/ RefuseToken(p) \/ AdmitToken(p)
             \/ RejectReplay(p) \/ AcceptPush(p) \/ AcceptPull(p) \/ PullClientFails(p)
             \/ PushAnswered(p) \/ PullAnswered(p, reply)
      PROVE  KeyInv'
  <2>1. Kept /\ SessionMoves
    BY <1>6 DEF Exit, PrepareFails, RefuseToken, AdmitToken, RejectReplay, AcceptPush, AcceptPull,
       Record, PullClientFails, PushAnswered, PullAnswered, sessionVars, procVars, keyVars,
       tokenVars, SessionKept, SessionMoves
  <2>2. \A q \in Procs :
          \/ pc'[q] = pc[q]
          \/ q = p /\ pc'[p] = "gone"
          \/ /\ q = p
             /\ pc[p] \in {"prepare"} \cup Finalizing
             /\ pc'[p] \in {"idle"} \cup Finalizing
    BY <1>6 DEF Exit, PrepareFails, RefuseToken, AdmitToken, RejectReplay, AcceptPush, AcceptPull,
       PullClientFails, PushAnswered, PullAnswered, Finish, Finalizing, TypeInv, TypeOK
  <2>3. Steps
    BY <2>2 DEF KeyInv, Finalizing
  <2> QED
    BY <2>1, <2>3, KeyFrame
<1> QED
  BY <1>1, <1>2, <1>3, <1>4, <1>5, <1>6 DEF Next

\* For every number of processes and whether the server rotates refresh tokens
\* or not: a token verifies in every process with the signer's environment,
\* unless the two took their keys from different sessions, a Get failed or a
\* sign-in came while one of them derived its key, there was nothing to derive it
\* from, or the server exchanged the refresh token the key came from.
THEOREM KeySettled == Spec => []PreparedTokenVerifies
<1>1. TypeInv /\ KeyInv => PreparedTokenVerifies
  <2> SUFFICES ASSUME TypeInv, KeyInv, NEW n \in issued, NEW q \in Procs, NEW p,
                      p = ticket[n].by, HasKey(q), env[q] = env[p],
                      env[p] = "none" => born[q] = born[p] /\ FromSession(p) /\ ~astray[q]
               PROVE  ticket[n].key = key[q]
    BY DEF PreparedTokenVerifies
  <2>1. p \in Procs /\ HasKey(p) /\ ticket[n].key = key[p]
    BY DEF TypeInv, TypeOK, Tickets, KeyInv, SignedBy
  <2>2. CASE env[p] # "none"
    <3>1. key[p] = [src |-> env[p], id |-> 0]
      BY <2>1, <2>2 DEF KeyInv
    <3>2. key[q] = [src |-> env[q], id |-> 0]
      BY <2>2 DEF KeyInv
    <3> QED
      BY <2>1, <3>1, <3>2
  <2>3. CASE env[p] = "none"
    BY <2>1, <2>3 DEF KeyInv, Straight, FromSession
  <2> QED
    BY <2>2, <2>3
<1> QED
  BY <1>1, TypeInvInit, TypeInvNext, KeyInvInit, KeyInvNext, PTL DEF Spec

-----------------------------------------------------------------------------
(* Confirmations.                                                            *)

ConfirmInv ==
  /\ redeemed \subseteq {n \in issued : ticket[n].kind = "pull"}
  /\ \A n \in issued : ticket[n].file # NoDigest => ticket[n].digest = ticket[n].file
  /\ \A p \in Procs : pc[p] \in {"client", "call"} /\ req[p].op = "pull" =>
       DigestMatches(req[p], ticket[req[p].nonce])
  /\ \A c \in confirmed :
       /\ c.nonce \in redeemed
       /\ c.digest # NoDigest
       /\ c.digest = ticket[c.nonce].digest
  /\ ConfirmedOnce

LEMMA ConfirmInvInit == Init => ConfirmInv
BY DEF Init, ConfirmInv, ConfirmedOnce

\* Steps that sign no token and get no answer, with a new request only for a
\* process that is not yet past the digest check.
LEMMA ConfirmFrame ==
  ASSUME ConfirmInv, UNCHANGED <<issued, ticket, redeemed, confirmed>>,
         \A p \in Procs : pc'[p] \in {"client", "call"} =>
           /\ pc[p] \in {"client", "call"}
           /\ req'[p] = req[p]
  PROVE  ConfirmInv'
BY DEF ConfirmInv, ConfirmedOnce

LEMMA IssueKeepsConfirmInv ==
  ASSUME TypeInv, ConfirmInv, NEW p \in Procs, NEW n \in Nonces, NEW kind, NEW file,
         NEW digest, NEW fin, Issue(p, n, kind, file, digest, fin),
         file # NoDigest => digest = file
  PROVE  ConfirmInv'
<1>1. UNCHANGED <<req, redeemed, confirmed>>
  BY DEF Issue, procVars, keyVars, historyVars
<1>2. \A q \in Procs : pc'[q] \in {"client", "call"} => pc[q] \in {"client", "call"}
  BY DEF Issue, TypeInv, TypeOK
<1>3. issued' = issued \cup {n}
  BY DEF Issue
<1>4. \A m \in issued : ticket'[m] = ticket[m]
  BY <1>3 DEF Issue
<1>5. ticket'[n].file # NoDigest => ticket'[n].digest = ticket'[n].file
  BY <1>3 DEF Issue
<1>6. \A q \in Procs : pc[q] \in {"client", "call"} => req[q].nonce \in issued
  BY DEF TypeInv, RequestOK, Finalizing
<1>7. redeemed \subseteq issued /\ \A c \in confirmed : c.nonce \in issued
  BY DEF ConfirmInv
<1> QED
  BY <1>1, <1>2, <1>3, <1>4, <1>5, <1>6, <1>7 DEF ConfirmInv, ConfirmedOnce

LEMMA AnswerKeepsConfirmInv ==
  ASSUME TypeInv, ConfirmInv, NEW p \in Procs, NEW reply, PullAnswered(p, reply)
  PROVE  ConfirmInv'
<1> DEFINE n == req[p].nonce
           c == [by |-> p, nonce |-> n, digest |-> req[p].digest]
<1>1. UNCHANGED <<issued, ticket>>
  BY DEF PullAnswered, tokenVars
<1>2. n \in issued
  BY DEF PullAnswered, TypeInv, RequestOK, Finalizing
<1>3. DigestMatches(req[p], ticket[n])
  BY DEF PullAnswered, ConfirmInv
<1>4. redeemed' = redeemed \/ (redeemed' = redeemed \cup {n} /\ ticket[n].kind = "pull")
  BY DEF PullAnswered
<1>5. \/ confirmed' = confirmed
      \/ confirmed' = confirmed \cup {c} /\ n \notin redeemed /\ n \in redeemed'
  BY DEF PullAnswered, Succeeded
<1>6. \A q \in Procs : pc'[q] \in {"client", "call"} =>
        pc[q] \in {"client", "call"} /\ req'[q] = req[q]
  BY DEF PullAnswered, Finish, TypeInv, TypeOK
<1>7. ConfirmedOnce'
  BY <1>5 DEF ConfirmInv, ConfirmedOnce
<1>8. \A d \in confirmed' : /\ d.nonce \in redeemed'
                            /\ d.digest # NoDigest
                            /\ d.digest = ticket[d.nonce].digest
  BY <1>3, <1>4, <1>5 DEF ConfirmInv, DigestMatches
<1> QED
  BY <1>1, <1>2, <1>4, <1>6, <1>7, <1>8 DEF ConfirmInv

LEMMA ConfirmInvNext == TypeInv /\ ConfirmInv /\ [Next]_vars => ConfirmInv'
<1> SUFFICES ASSUME TypeInv, ConfirmInv, [Next]_vars PROVE ConfirmInv'
  OBVIOUS
<1>1. CASE UNCHANGED vars
  BY <1>1, ConfirmFrame DEF vars, procVars, keyVars, tokenVars, historyVars
<1>2. CASE Tick \/ SignIn
  BY <1>2, ConfirmFrame DEF Tick, SignIn, procVars, keyVars, tokenVars, historyVars
<1>3. ASSUME NEW p \in Procs,
             \/ StartWithEnv(p) \/ StartWithKeychain(p) \/ DeriveFromAccess(p)
             \/ Exit(p) \/ PrepareAuth(p) \/ PrepareFails(p) \/ AdmitToken(p)
      PROVE  ConfirmInv'
  BY <1>3, ConfirmFrame DEF StartWithEnv, StartWithKeychain, DeriveFromAccess, KeyIs, Exit,
     PrepareAuth, PrepareFails, AdmitToken, procVars,
     tokenVars, historyVars, TypeInv, TypeOK
<1>4. ASSUME NEW p \in Procs, NEW n \in Nonces, PushPrepare(p, n) \/ PullPrepare(p, n)
      PROVE  ConfirmInv'
  BY <1>4, IssueKeepsConfirmInv DEF PushPrepare, PullPrepare, VerifyDigest
<1>5. ASSUME NEW p \in Procs, NEW op, NEW n \in Nonces, NEW d, Receive(p, op, n, d)
      PROVE  ConfirmInv'
  BY <1>5, ConfirmFrame DEF Receive, tokenVars, historyVars, TypeInv, TypeOK
<1>6. ASSUME NEW p \in Procs,
             \/ RefuseToken(p) \/ RejectReplay(p) \/ PullClientFails(p) \/ PushAnswered(p)
      PROVE  ConfirmInv'
  BY <1>6, ConfirmFrame DEF RefuseToken, RejectReplay, PullClientFails, PushAnswered, Finish,
     tokenVars, historyVars, TypeInv, TypeOK
<1>7. ASSUME NEW p \in Procs, AcceptPush(p) PROVE ConfirmInv'
  <2>1. UNCHANGED <<issued, ticket, redeemed, confirmed, req>> /\ req[p].op = "push"
    BY <1>7 DEF AcceptPush, Record, tokenVars
  <2>2. \A q \in Procs : pc'[q] \in {"client", "call"} => pc[q] \in {"client", "call"} \/ q = p
    BY <1>7 DEF AcceptPush, TypeInv, TypeOK
  <2> QED
    BY <2>1, <2>2 DEF ConfirmInv, ConfirmedOnce
<1>8. ASSUME NEW p \in Procs, AcceptPull(p) PROVE ConfirmInv'
  <2>1. UNCHANGED <<issued, ticket, redeemed, confirmed>>
    BY <1>8 DEF AcceptPull, Record, tokenVars
  <2>2. \A q \in Procs : pc'[q] \in {"client", "call"} =>
          /\ req'[q] = req[q]
          /\ pc[q] \in {"client", "call"} \/ DigestMatches(req[q], ticket[req[q].nonce])
    BY <1>8 DEF AcceptPull, Finish, TypeInv, TypeOK
  <2> QED
    BY <2>1, <2>2 DEF ConfirmInv, ConfirmedOnce
<1>9. ASSUME NEW p \in Procs, PullClient(p) PROVE ConfirmInv'
  <2>1. UNCHANGED <<issued, ticket, redeemed, confirmed, req>> /\ pc[p] = "client"
    BY <1>9 DEF PullClient, procVars, keyVars, tokenVars, historyVars
  <2>2. \A q \in Procs : pc'[q] \in {"client", "call"} => pc[q] \in {"client", "call"}
    BY <1>9 DEF PullClient, TypeInv, TypeOK
  <2> QED
    BY <2>1, <2>2, ConfirmFrame
<1>10. ASSUME NEW p \in Procs, NEW reply, PullAnswered(p, reply) PROVE ConfirmInv'
  BY <1>10, AnswerKeepsConfirmInv
<1> QED
  BY <1>1, <1>2, <1>3, <1>4, <1>5, <1>6, <1>7, <1>8, <1>9, <1>10
     DEF Next, PushFinalize, PullFinalize

\* One pull token yields one confirmation, in all processes together.
THEOREM OneConfirmation == Spec => []ConfirmedOnce
<1>1. ConfirmInv => ConfirmedOnce
  BY DEF ConfirmInv
<1> QED
  BY <1>1, TypeInvInit, TypeInvNext, ConfirmInvInit, ConfirmInvNext, PTL DEF Spec

\* A confirmation is for the file digest the server named.
THEOREM ConfirmationNamesFile == Spec => []ConfirmedFileDigest
<1>1. ConfirmInv => ConfirmedFileDigest
  BY DEF ConfirmInv, ConfirmedFileDigest
<1> QED
  BY <1>1, TypeInvInit, TypeInvNext, ConfirmInvInit, ConfirmInvNext, PTL DEF Spec

-----------------------------------------------------------------------------
(* The exchange implements DownloadConfirmation.                             *)

Offered == {n \in issued : ticket[n].kind = "pull"}

\* Steps the abstract exchange does not see.
LEMMA DownloadsStutter ==
  ASSUME UNCHANGED <<issued, ticket, redeemed, confirmed>>
  PROVE  UNCHANGED Downloads!vars
BY DEF Downloads!vars

LEMMA IssueOffers ==
  ASSUME NEW p \in Procs, NEW n \in Nonces, NEW kind, NEW file, NEW digest, NEW fin,
         Issue(p, n, kind, file, digest, fin)
  PROVE  [Downloads!Next]_(Downloads!vars)
<1>1. UNCHANGED <<redeemed, confirmed>> /\ n \notin issued /\ issued' = issued \cup {n}
  BY DEF Issue, historyVars
<1>2. \A m \in issued : ticket'[m] = ticket[m]
  BY <1>1 DEF Issue
<1>3. ticket'[n].kind = kind
  BY <1>1 DEF Issue
<1>4. Offered' = IF kind = "pull" THEN Offered \cup {n} ELSE Offered
  BY <1>1, <1>2, <1>3 DEF Offered
<1>5. CASE kind = "pull"
  <2>1. Downloads!Offer(n)
    BY <1>1, <1>4, <1>5 DEF Downloads!Offer, Offered
  <2> QED
    BY <2>1 DEF Downloads!Next
<1>6. CASE kind # "pull"
  BY <1>1, <1>4, <1>6 DEF Downloads!vars, Offered
<1> QED
  BY <1>5, <1>6

LEMMA AnswerConfirms ==
  ASSUME TypeInv, NEW p \in Procs, NEW reply, PullAnswered(p, reply)
  PROVE  [Downloads!Next]_(Downloads!vars)
<1> DEFINE n == req[p].nonce
           c == [by |-> p, nonce |-> n, digest |-> req[p].digest]
<1>1. UNCHANGED <<issued, ticket>> /\ n \in issued /\ n \in Nonces /\ req[p].digest \in MaybeDigest
  BY DEF PullAnswered, tokenVars, TypeInv, TypeOK, RequestOK, Requests, Finalizing
<1>2. CASE reply = "consumed"
  <2>1. c \in Downloads!Confirmations /\ c.nonce = n
    BY <1>1 DEF Downloads!Confirmations
  <2>2. Downloads!Confirm(c)
    BY <1>1, <1>2, <2>1 DEF PullAnswered, Succeeded, Downloads!Confirm, Downloads!Consume
  <2> QED
    BY <2>1, <2>2 DEF Downloads!Next
<1>3. CASE reply = "lost"
  <2>1. Downloads!Waste(n)
    BY <1>1, <1>3 DEF PullAnswered, Succeeded, Downloads!Waste, Downloads!Consume
  <2> QED
    BY <1>1, <2>1 DEF Downloads!Next
<1>4. CASE reply \notin {"consumed", "lost"}
  BY <1>1, <1>4, DownloadsStutter DEF PullAnswered, Succeeded
<1> QED
  BY <1>2, <1>3, <1>4

LEMMA DownloadsStep == TypeInv /\ [Next]_vars => [Downloads!Next]_(Downloads!vars)
<1> SUFFICES ASSUME TypeInv, [Next]_vars PROVE [Downloads!Next]_(Downloads!vars)
  OBVIOUS
<1>1. CASE UNCHANGED vars
  BY <1>1, DownloadsStutter DEF vars, tokenVars, historyVars
<1>2. CASE Tick \/ SignIn
  BY <1>2, DownloadsStutter DEF Tick, SignIn, tokenVars, historyVars
<1>3. ASSUME NEW p \in Procs,
             \/ StartWithEnv(p) \/ StartWithKeychain(p) \/ DeriveFromAccess(p)
             \/ Exit(p) \/ PrepareAuth(p) \/ PrepareFails(p)
             \/ RefuseToken(p) \/ AdmitToken(p) \/ RejectReplay(p)
             \/ AcceptPush(p) \/ AcceptPull(p)
             \/ PullClient(p) \/ PullClientFails(p) \/ PushAnswered(p)
      PROVE  [Downloads!Next]_(Downloads!vars)
  BY <1>3, DownloadsStutter DEF StartWithEnv, StartWithKeychain, DeriveFromAccess, Exit,
     PrepareAuth, PrepareFails, RefuseToken, AdmitToken,
     RejectReplay, AcceptPush, AcceptPull, Record, PullClient, PullClientFails, PushAnswered,
     tokenVars, historyVars
<1>4. ASSUME NEW p \in Procs, NEW n \in Nonces, PushPrepare(p, n) \/ PullPrepare(p, n)
      PROVE  [Downloads!Next]_(Downloads!vars)
  BY <1>4, IssueOffers DEF PushPrepare, PullPrepare
<1>5. ASSUME NEW p \in Procs, NEW op, NEW n, NEW d, Receive(p, op, n, d)
      PROVE  [Downloads!Next]_(Downloads!vars)
  BY <1>5, DownloadsStutter DEF Receive, tokenVars, historyVars
<1>6. ASSUME NEW p \in Procs, NEW reply, PullAnswered(p, reply)
      PROVE  [Downloads!Next]_(Downloads!vars)
  BY <1>6, AnswerConfirms
<1> QED
  BY <1>1, <1>2, <1>3, <1>4, <1>5, <1>6 DEF Next, PushFinalize, PullFinalize

\* The processes, keys, clock and memory of the exchange together do nothing
\* to downloads but what DownloadConfirmation allows.
THEOREM ImplementsDownloads == Spec => ConfirmsAsPromised
<1>1. Init => Downloads!Init
  BY DEF Init, Downloads!Init
<1> QED
  BY <1>1, TypeInvInit, TypeInvNext, DownloadsStep, PTL DEF Spec, ConfirmsAsPromised, Downloads!Spec

=============================================================================
