-------------------------- MODULE BrowserSignIn_proofs --------------------------
(***************************************************************************)
(* Proofs about BrowserSignIn, for any processes, sign-ins, environments    *)
(* and lifetimes: the types, and the five properties of its runs.           *)
(***************************************************************************)
EXTENDS BrowserSignIn, TLAPS

-----------------------------------------------------------------------------
(* URLs.                                                                     *)

\* The slash that NewOAuth cuts off makes no other part of the keychain.
LEMMA BaseURLIs ==
  ASSUME NEW env \in EndpointEnvs
  PROVE  /\ AuthURL(env) \in Urls /\ BaseURL(env) \in Urls
         /\ KeyNamespace(BaseURL(env)) = KeyNamespace(AuthURL(env))
<1>1. AuthURL(env) \in Urls
  <2>1. DefaultAuthBaseURL \in Urls
    BY DEF DefaultAuthBaseURL, Url, Urls
  <2>2. env.remoteAuth \in Urls \cup {NoUrl} /\ env.auth \in Urls \cup {NoUrl}
    BY DEF EndpointEnvs
  <2> QED
    BY <2>1, <2>2 DEF AuthURL, FirstNonEmpty, CustomAuth
<1>2. BaseURL(env) \in Urls
  BY <1>1 DEF BaseURL, Urls
<1>3. /\ BaseURL(env).scheme = AuthURL(env).scheme /\ BaseURL(env).host = AuthURL(env).host
      /\ BaseURL(env).port = AuthURL(env).port
  BY <1>1 DEF BaseURL, Urls
<1> QED
  BY <1>1, <1>2, <1>3 DEF KeyNamespace

LEMMA SameNamespace ==
  ASSUME NEW u \in Urls, NEW v \in Urls, KeyNamespace(u) = KeyNamespace(v)
  PROVE  SameServer(u, v)
<1>1. /\ KeyNamespace(u).scheme = u.scheme /\ KeyNamespace(v).scheme = v.scheme
      /\ KeyNamespace(u).host = u.host /\ KeyNamespace(v).host = v.host
      /\ KeyNamespace(u).port = IF u.port # "none" THEN u.port
                                ELSE IF u.scheme = "https" THEN "443" ELSE "80"
      /\ KeyNamespace(v).port = IF v.port # "none" THEN v.port
                                ELSE IF v.scheme = "https" THEN "443" ELSE "80"
  BY DEF KeyNamespace
<1>2. u.scheme = v.scheme /\ u.host = v.host /\ KeyNamespace(u).port = KeyNamespace(v).port
  BY <1>1
<1>3. u.port \in {"none", "443", "8443"} /\ v.port \in {"none", "443", "8443"}
  BY DEF Urls
<1> QED
  BY <1>1, <1>2, <1>3 DEF SameServer

\* An endpoint that resolves, and that loses no slash, is allowed.
LEMMA ResolvedIsAllowed ==
  ASSUME NEW env \in EndpointEnvs, Resolves(env), CustomAuth(env).path # "slash"
  PROVE  AllowedAuthURL(BaseURL(env), env)
<1>1. CASE CustomAuth(env) = NoUrl
  <2>1. BaseURL(env) = [scheme |-> "https", host |-> "app", port |-> "none", path |-> "none",
                        odd |-> FALSE]
    BY <1>1 DEF BaseURL, AuthURL, FirstNonEmpty, DefaultAuthBaseURL, Url
  <2> QED
    BY <2>1 DEF AllowedAuthURL, Valid, LocktivitysOwn
<1>2. CASE CustomAuth(env) # NoUrl
  <2>1. BaseURL(env) = CustomAuth(env)
    BY <1>2 DEF BaseURL, AuthURL, FirstNonEmpty
  <2>2. Valid(CustomAuth(env))
    BY <1>2 DEF Resolves
  <2> QED
    BY <2>1, <2>2 DEF AllowedAuthURL
<1> QED
  BY <1>1, <1>2

-----------------------------------------------------------------------------
(* Token sources.                                                            *)

\* The token is the environment's, or the mode leaves none.
MachineBound(c) ==
  \/ c.access
  \/ c.oidc /\ c.mode # "client_credentials_only"
  \/ ~c.client /\ c.mode = "client_credentials_only"

Credentials(c) == c.access \/ c.oidc \/ c.client

\* What a command may leave of a session: nothing that was kept is forgotten.
Follows(t, s) ==
  /\ t \in Sessions
  /\ s.kept \subseteq t.kept /\ t.kept \subseteq s.kept \cup {"machine"}
  /\ t.token = s.token \/ t.token # Nobody

LEMMA WithTokenIs ==
  ASSUME NEW s \in Sessions, NEW o \in SignIns \cup {"machine"}
  PROVE  /\ WithToken(s, o) \in Sessions
         /\ WithToken(s, o).token = o /\ WithToken(s, o).kept = s.kept \cup {o}
         /\ o \in s.kept \cup {"machine"} => Follows(WithToken(s, o), s)
<1>1. o \in Owners /\ o # Nobody
  BY OwnersAssumption DEF Owners
<1>2. s.kept \subseteq SignIns \cup {"machine"}
  BY DEF Sessions
<1> QED
  BY <1>1, <1>2 DEF WithToken, Follows, Sessions

LEMMA GetTokenIs ==
  ASSUME NEW c \in Configs, NEW s \in Sessions, NEW t \in GetToken(c, s)
  PROVE  /\ t.owner \in {"machine", Nobody} \cup s.kept /\ Follows(t.session, s)
         /\ MachineBound(c) => t.owner \in {"machine", Nobody}
         /\ t.owner = "machine" => Credentials(c) \/ "machine" \in s.kept
<1>1. Follows(s, s) /\ s.kept \subseteq SignIns \cup {"machine"}
  BY DEF Sessions, Follows
<1>2. Source(c, s) \in {"access_token", "error", "client", "oidc", "stored"}
  BY DEF Source
<1>3. /\ Source(c, s) \in {"client", "stored"} => ~MachineBound(c)
      /\ Source(c, s) \in {"access_token", "oidc", "client"} => Credentials(c)
  BY DEF Source, MachineBound, Credentials
<1>4. "machine" # Nobody
  BY OwnersAssumption
<1>5. CASE Source(c, s) \in {"access_token", "oidc", "error"}
  <2>1. \/ t = Refused(s)
        \/ t = AsMachine(s) /\ Source(c, s) \in {"access_token", "oidc"}
    BY <1>5 DEF GetToken
  <2> QED
    BY <1>1, <1>3, <1>4, <2>1 DEF AsMachine, Refused
<1>6. ASSUME t \in StoredToken(s)
      PROVE  /\ t.owner \in {Nobody} \cup s.kept /\ Follows(t.session, s)
  <2>1. CASE t = Refused(s)
    BY <1>1, <2>1 DEF Refused
  <2>2. CASE t \in FromKeychain(s)
    <3>1. PICK o \in s.kept : t \in {[owner |-> o, session |-> s],
                                    [owner |-> o, session |-> WithToken(s, o)]}
      BY <2>2 DEF FromKeychain
    <3>2. Follows(WithToken(s, o), s)
      BY <1>1, WithTokenIs
    <3> QED
      BY <1>1, <3>1, <3>2
  <2> QED
    BY <1>6, <2>1, <2>2 DEF StoredToken
<1>7. CASE Source(c, s) = "client"
  <2>1. t \in StoredToken(s) \/ t = AsMachine(s) \/ t = AsMachine(WithToken(s, "machine"))
    BY <1>7 DEF GetToken, ClientToken
  <2>2. Follows(WithToken(s, "machine"), s)
    BY WithTokenIs
  <2> QED
    BY <1>1, <1>3, <1>6, <1>7, <2>1, <2>2 DEF AsMachine
<1>8. CASE Source(c, s) = "stored"
  <2>1. t \in StoredToken(s)
    BY <1>8 DEF GetToken
  <2> QED
    BY <1>3, <1>4, <1>6, <1>8, <2>1
<1> QED
  BY <1>2, <1>5, <1>7, <1>8

LEMMA WhoamiIs ==
  ASSUME NEW c \in Configs, NEW s \in Sessions,
         NEW t \in Whoami(c, s) \cup WhoamiUnread(c, s)
  PROVE  /\ t.owner \in Owners /\ Follows(t.session, s)
         /\ t \in WhoamiUnread(c, s) =>
              \/ t.owner = Nobody \/ t.owner \in s.kept
              \/ t.owner = "machine" /\ Credentials(c)
         /\ t \in Whoami(c, s) /\ s.token # Nobody => t.owner \in {s.token, Nobody}
<1>1. Follows(s, s) /\ s.kept \subseteq SignIns \cup {"machine"} /\ s.token \in Owners
  BY DEF Sessions, Follows
<1>2. \/ t = Refused(s)
      \/ t \in GetToken(c, s)
      \/ t = [owner |-> s.token, session |-> s] /\ s.token # Nobody
  BY DEF Whoami, WhoamiUnread
<1>3. t.owner \in Owners /\ Follows(t.session, s)
  <2>1. CASE t \in GetToken(c, s)
    BY <1>1, <2>1, GetTokenIs DEF Owners
  <2>2. CASE t = Refused(s) \/ t = [owner |-> s.token, session |-> s]
    BY <1>1, <2>2 DEF Refused, Owners
  <2> QED
    BY <1>2, <2>1, <2>2
<1>4. ASSUME t \in WhoamiUnread(c, s)
      PROVE  \/ t.owner = Nobody \/ t.owner \in s.kept
             \/ t.owner = "machine" /\ Credentials(c)
  <2>1. t = Refused(s) \/ t \in GetToken(c, s)
    BY <1>4 DEF WhoamiUnread
  <2> QED
    BY <2>1, GetTokenIs DEF Refused
<1>5. ASSUME t \in Whoami(c, s), s.token # Nobody
      PROVE  t.owner \in {s.token, Nobody}
  <2>1. t = Refused(s) \/ t = [owner |-> s.token, session |-> s]
    BY <1>5 DEF Whoami
  <2> QED
    BY <2>1 DEF Refused
<1> QED
  BY <1>3, <1>4, <1>5

-----------------------------------------------------------------------------
(* The invariant.                                                            *)

Known(i) == started[i] # NoSignIn

\* Whom a completed sign-in may name.
NamesRight(p) ==
  actor[p] \notin {session[p], Nobody} \cup since[p] =>
    /\ missed[p]
    /\ \/ actor[p] = "machine" /\ Credentials(cfg[p])
       \/ actor[p] \in stored[Site(p)].kept

\* What a process is at, what it was given and whom it acted as.
ProcOK(p) ==
  /\ pc[p] \in {"idle", "login_refused"} \cup Busy => actor[p] = Nobody
  /\ pc[p] = "exchange" =>
       /\ session[p] \in approved /\ callback[p] = session[p]
       /\ opened[p] < started[session[p]].expires
  /\ pc[p] \in {"store", "store_token", "lookup", "signed_in"} =>
       session[p] \in approved /\ started[session[p]].at = BaseURL(cfg[p].env)
  /\ pc[p] = "lookup" =>
       /\ stored[Site(p)].token \in {session[p]} \cup since[p]
       /\ stored[Site(p)].token # Nobody
  /\ pc[p] = "signed_in" => NamesRight(p)
  /\ pc[p] = "acted" =>
       /\ actor[p] \in SignIns =>
            Known(actor[p]) /\ KeyNamespace(started[actor[p]].at) = Site(p)
       /\ MachineBound(cfg[p]) => actor[p] \in {"machine", Nobody}
  /\ pc[p] = "login_refused" => Resolves(cfg[p].env) /\ ~SignInAllowed(cfg[p])

\* A person's tokens lie in the part of the keychain of their endpoint.
StoredOK ==
  \A n \in Sites : \A i \in stored[n].kept \cap SignIns :
    Known(i) /\ KeyNamespace(started[i].at) = n

SignInInv ==
  /\ TypeOK
  /\ cfg \in [Procs -> Environments \cup {NoConfig}]
  /\ StoredOK
  /\ \A p \in Procs : ProcOK(p)

LEMMA SignInInit == Init => SignInInv
BY SignInAssumption, OwnersAssumption
   DEF Init, SignInInv, TypeOK, StoredOK, ProcOK, Busy, Owners, Sessions, NoSession

\* What a step of another does to the keychain and the notes of q.
Seen(q) ==
  /\ missed'[q] = missed[q]
  /\ pc[q] # "lookup" => since'[q] = since[q]
  /\ pc[q] = "lookup" =>
       /\ since[q] \subseteq since'[q]
       /\ stored'[Site(q)].token \in {stored[Site(q)].token} \cup since'[q]
       /\ stored[Site(q)].token # Nobody => stored'[Site(q)].token # Nobody

KeptKept == \A n \in Sites : stored[n].kept \subseteq stored'[n].kept

\* p moved on; sign-ins and tokens are not forgotten and a lookup notices new ones.
LEMMA OthersOK ==
  ASSUME SignInInv, TypeOK', StoredOK', NEW p \in Procs,
         cfg' \in [Procs -> Environments \cup {NoConfig}],
         \A q \in Procs \ {p} :
           /\ pc'[q] = pc[q] /\ cfg'[q] = cfg[q] /\ session'[q] = session[q]
           /\ callback'[q] = callback[q] /\ opened'[q] = opened[q] /\ actor'[q] = actor[q],
         \A q \in Procs \ {p} : Seen(q),
         KeptKept,
         \A i \in SignIns : Known(i) => started'[i] = started[i],
         approved \subseteq approved',
         ProcOK(p)'
  PROVE  SignInInv'
<1>1. ASSUME NEW q \in Procs \ {p}
      PROVE  ProcOK(q)'
  <2>1. approved \subseteq {i \in SignIns : Known(i)} /\ ProcOK(q)
    BY DEF SignInInv, TypeOK, Known
  <2>2. Site(q)' = Site(q)
    BY DEF Site
  <2>3. pc[q] = "signed_in" => Site(q) \in Sites
    BY DEF SignInInv, TypeOK, Site, Sites
  <2>4. /\ pc'[q] \in {"idle", "login_refused"} \cup Busy => actor'[q] = Nobody
        /\ pc'[q] = "exchange" =>
             /\ session'[q] \in approved' /\ callback'[q] = session'[q]
             /\ opened'[q] < started'[session'[q]].expires
        /\ pc'[q] \in {"store", "store_token", "lookup", "signed_in"} =>
             session'[q] \in approved' /\ started'[session'[q]].at = BaseURL(cfg'[q].env)
    BY <2>1 DEF ProcOK
  <2>5. pc'[q] = "lookup" =>
          /\ stored'[Site(q)].token \in {session'[q]} \cup since'[q]
          /\ stored'[Site(q)].token # Nobody
    BY <2>1 DEF ProcOK, Seen
  <2>6. pc'[q] = "signed_in" => NamesRight(q)'
    BY <2>1, <2>2, <2>3 DEF ProcOK, NamesRight, Seen, KeptKept
  <2>7. pc'[q] = "acted" =>
          /\ actor'[q] \in SignIns =>
               started'[actor'[q]] # NoSignIn /\ KeyNamespace(started'[actor'[q]].at) = Site(q)
          /\ MachineBound(cfg'[q]) => actor'[q] \in {"machine", Nobody}
    BY <2>1 DEF ProcOK, Known
  <2>8. pc'[q] = "login_refused" => Resolves(cfg'[q].env) /\ ~SignInAllowed(cfg'[q])
    BY <2>1 DEF ProcOK
  <2> QED
    BY <2>2, <2>4, <2>5, <2>6, <2>7, <2>8 DEF ProcOK, Known, Busy
<1> QED
  BY <1>1 DEF SignInInv

-----------------------------------------------------------------------------
(* What the steps have in common.                                            *)

\* The place and environment of a process whose request begins or goes on.
LEMMA MoveStep ==
  ASSUME SignInInv, NEW p \in Procs, NEW next \in Busy \cup Over,
         pc' = [pc EXCEPT ![p] = next],
         \/ \E c \in Environments : StartIn(p, c)
         \/ pc[p] # "idle" /\ UNCHANGED cfg
  PROVE  /\ pc' \in [Procs -> {"idle"} \cup Busy \cup Over]
         /\ cfg' \in [Procs -> Environments \cup {NoConfig}]
         /\ \A q \in Procs : cfg'[q] \in IF pc'[q] = "idle" THEN {NoConfig} ELSE Environments
         /\ pc'[p] = next /\ cfg'[p] \in Environments /\ cfg'[p] \in Configs
         /\ cfg'[p].env \in EndpointEnvs /\ Site(p)' \in Sites
         /\ \A c : StartIn(p, c) => cfg'[p] = c /\ pc[p] = "idle"
         /\ \A q \in Procs \ {p} : pc'[q] = pc[q] /\ cfg'[q] = cfg[q]
<1>1. /\ pc \in [Procs -> {"idle"} \cup Busy \cup Over]
      /\ cfg \in [Procs -> Environments \cup {NoConfig}]
      /\ \A q \in Procs : cfg[q] \in IF pc[q] = "idle" THEN {NoConfig} ELSE Environments
  BY DEF SignInInv, TypeOK
<1>2. next # "idle"
  BY DEF Busy, Over
<1>3. /\ pc' \in [Procs -> {"idle"} \cup Busy \cup Over]
      /\ pc'[p] = next /\ \A q \in Procs \ {p} : pc'[q] = pc[q]
  BY <1>1
<1>4. /\ cfg' \in [Procs -> Environments \cup {NoConfig}] /\ cfg'[p] \in Environments
      /\ \A q \in Procs \ {p} : cfg'[q] = cfg[q]
      /\ \A c : StartIn(p, c) => cfg'[p] = c /\ pc[p] = "idle"
  BY <1>1 DEF StartIn
<1>5. cfg'[p] \in Configs /\ cfg'[p].env \in EndpointEnvs
  BY <1>4, SignInAssumption DEF Configs
<1>6. Site(p)' \in Sites
  BY <1>4 DEF Site, Sites
<1> QED
  BY <1>1, <1>2, <1>3, <1>4, <1>5, <1>6

LEMMA KeepStep ==
  ASSUME SignInInv, NEW p \in Procs, NEW n \in Sites, NEW s \in Sessions, Keep(p, n, s),
         stored[n].kept \subseteq s.kept,
         s.token = stored[n].token \/ s.token # Nobody,
         \A i \in s.kept \cap SignIns : Known(i) /\ KeyNamespace(started[i].at) = n,
         UNCHANGED started, UNCHANGED missed \/ missed' = [missed EXCEPT ![p] = TRUE]
  PROVE  /\ stored' \in [Sites -> Sessions] /\ StoredOK' /\ stored'[n] = s
         /\ since' \in [Procs -> SUBSET Owners] /\ missed' \in [Procs -> BOOLEAN]
         /\ since'[p] = since[p]
         /\ \A q \in Procs \ {p} : Seen(q)
         /\ KeptKept
<1>1. /\ stored \in [Sites -> Sessions] /\ since \in [Procs -> SUBSET Owners]
      /\ missed \in [Procs -> BOOLEAN]
      /\ stored' = [stored EXCEPT ![n] = s] /\ s.token \in Owners
      /\ \A q \in Procs : pc[q] = "lookup" => cfg[q] \in Environments
  BY DEF SignInInv, TypeOK, Keep, Sessions
<1>2. /\ stored' \in [Sites -> Sessions] /\ stored'[n] = s
      /\ \A m \in Sites \ {n} : stored'[m] = stored[m]
  BY <1>1
<1>3. StoredOK'
  BY <1>2 DEF StoredOK, SignInInv, Known
<1>4. since' = [q \in Procs |->
        IF q # p /\ pc[q] = "lookup" /\ Site(q) = n THEN since[q] \cup {s.token} ELSE since[q]]
  BY DEF Keep
<1>5. since' \in [Procs -> SUBSET Owners] /\ since'[p] = since[p]
  BY <1>1, <1>4
<1>6. missed' \in [Procs -> BOOLEAN] /\ \A q \in Procs \ {p} : missed'[q] = missed[q]
  BY <1>1
<1>7. ASSUME NEW q \in Procs \ {p}
      PROVE  Seen(q)
  <2>1. pc[q] = "lookup" => Site(q) \in Sites
    BY <1>1 DEF Site, Sites
  <2>2. since'[q] = IF pc[q] = "lookup" /\ Site(q) = n THEN since[q] \cup {s.token} ELSE since[q]
    BY <1>4
  <2>3. CASE pc[q] = "lookup" /\ Site(q) = n
    BY <1>2, <1>6, <2>2, <2>3 DEF Seen
  <2>4. CASE ~(pc[q] = "lookup" /\ Site(q) = n)
    BY <1>2, <1>6, <2>1, <2>2, <2>4 DEF Seen
  <2> QED
    BY <2>3, <2>4
<1>8. KeptKept
  BY <1>2 DEF KeptKept
<1> QED
  BY <1>2, <1>3, <1>5, <1>6, <1>7, <1>8

\* A step that leaves keychain and notes alone.
LEMMA SeenNothing ==
  ASSUME UNCHANGED <<stored, since, missed>>
  PROVE  (\A q : Seen(q)) /\ KeptKept
BY DEF Seen, KeptKept

-----------------------------------------------------------------------------
(* Each step keeps the invariant.                                            *)

LEMMA AroundKeeps ==
  ASSUME SignInInv, Tick \/ (\E i \in SignIns : Approve(i))
  PROVE  SignInInv'
<1>1. /\ TypeOK
      /\ UNCHANGED <<started, stored, pc, cfg, session, callback, opened, actor, since, missed>>
  BY DEF Tick, Approve, SignInInv, serverVars, handVars, notes
<1>2. /\ approved \subseteq approved' /\ approved' \subseteq {i \in SignIns : Known(i)}
      /\ UNCHANGED spent /\ clock' \in 0..MaxTime
  BY <1>1, SignInAssumption DEF Tick, Approve, TypeOK, Known, serverVars
<1>3. TypeOK'
  BY <1>1, <1>2 DEF TypeOK, Known
<1>4. StoredOK'
  BY <1>1 DEF StoredOK, SignInInv, Known
<1>5. ASSUME NEW p \in Procs
      PROVE  ProcOK(p)'
  <2>1. ProcOK(p)
    BY DEF SignInInv
  <2> QED
    BY <1>1, <1>2, <2>1 DEF ProcOK, NamesRight, Known, Site
<1> QED
  BY <1>1, <1>3, <1>4, <1>5 DEF SignInInv

LEMMA EndKeeps ==
  ASSUME SignInInv, NEW p \in Procs, End(p)
  PROVE  SignInInv'
<1>1. /\ pc' = [pc EXCEPT ![p] = "idle"] /\ cfg' = [cfg EXCEPT ![p] = NoConfig]
      /\ session' = [session EXCEPT ![p] = NoSignIn]
      /\ callback' = [callback EXCEPT ![p] = NoSignIn]
      /\ opened' = [opened EXCEPT ![p] = 0] /\ actor' = [actor EXCEPT ![p] = Nobody]
      /\ since' = [since EXCEPT ![p] = {}] /\ missed' = [missed EXCEPT ![p] = FALSE]
      /\ UNCHANGED <<clock, started, approved, spent, stored>>
  BY DEF End, serverVars
<1>2. TypeOK /\ cfg \in [Procs -> Environments \cup {NoConfig}]
  BY DEF SignInInv
<1>3. /\ pc' \in [Procs -> {"idle"} \cup Busy \cup Over]
      /\ cfg' \in [Procs -> Environments \cup {NoConfig}]
      /\ pc'[p] = "idle" /\ cfg'[p] = NoConfig /\ actor'[p] = Nobody
      /\ \A q \in Procs \ {p} : pc'[q] = pc[q] /\ cfg'[q] = cfg[q]
  BY <1>1, <1>2 DEF TypeOK
<1>4. /\ session' \in [Procs -> SignIns \cup {NoSignIn}]
      /\ callback' \in [Procs -> SignIns \cup {NoSignIn}]
      /\ opened' \in [Procs -> 0..MaxTime]
      /\ actor' \in [Procs -> Owners]
      /\ since' \in [Procs -> SUBSET Owners] /\ missed' \in [Procs -> BOOLEAN]
  BY <1>1, <1>2, SignInAssumption DEF TypeOK, Owners
<1>5. TypeOK'
  BY <1>1, <1>2, <1>3, <1>4 DEF TypeOK
<1>6. StoredOK'
  BY <1>1 DEF SignInInv, StoredOK, Known
<1>7. \A q \in Procs \ {p} :
        /\ session'[q] = session[q] /\ callback'[q] = callback[q] /\ opened'[q] = opened[q]
        /\ actor'[q] = actor[q] /\ since'[q] = since[q] /\ missed'[q] = missed[q]
  BY <1>1, <1>2 DEF TypeOK
<1>8. ProcOK(p)'
  BY <1>3 DEF ProcOK, Busy
<1>9. (\A q \in Procs \ {p} : Seen(q)) /\ KeptKept
  BY <1>1, <1>7 DEF Seen, KeptKept
<1> QED
  BY <1>1, <1>3, <1>5, <1>6, <1>7, <1>8, <1>9, OthersOK

LEMMA CommandKeeps ==
  ASSUME SignInInv, NEW p \in Procs, NEW c \in Environments, Command(p, c) \/ AuthWhoami(p, c)
  PROVE  SignInInv'
<1> DEFINE n == KeyNamespace(AuthURL(c.env))
<1>1. TypeOK /\ n \in Sites /\ c \in Configs /\ stored[n] \in Sessions
  BY SignInAssumption DEF SignInInv, TypeOK, Sites
<1>2. /\ StartIn(p, c)
      /\ UNCHANGED <<clock, started, approved, spent, session, callback, opened, missed>>
  BY DEF Command, AuthWhoami, serverVars, handVars
<1>3. PICK t, next :
        /\ next \in {"acted", "told"}
        /\ actor' = [actor EXCEPT ![p] = t.owner]
        /\ Keep(p, n, t.session)
        /\ pc' = [pc EXCEPT ![p] = next]
        /\ t.owner \in Owners /\ Follows(t.session, stored[n])
        /\ next = "acted" => t.owner \in {"machine", Nobody} \cup stored[n].kept
        /\ next = "acted" /\ MachineBound(c) => t.owner \in {"machine", Nobody}
  <2>1. CASE Command(p, c)
    <3>1. PICK t \in GetToken(c, stored[n]) :
            actor' = [actor EXCEPT ![p] = t.owner] /\ Keep(p, n, t.session)
      BY <2>1 DEF Command
    <3>2. pc' = [pc EXCEPT ![p] = "acted"]
      BY <2>1 DEF Command
    <3> HIDE DEF n
    <3>3. /\ t.owner \in {"machine", Nobody} \cup stored[n].kept /\ Follows(t.session, stored[n])
          /\ MachineBound(c) => t.owner \in {"machine", Nobody}
      BY <1>1, GetTokenIs
    <3>4. t.owner \in Owners
      BY <1>1, <3>3 DEF Owners, Sessions
    <3> QED
      BY <3>1, <3>2, <3>3, <3>4
  <2>2. CASE AuthWhoami(p, c)
    <3>1. PICK t \in Whoami(c, stored[n]) \cup WhoamiUnread(c, stored[n]) :
            actor' = [actor EXCEPT ![p] = t.owner] /\ Keep(p, n, t.session)
      BY <2>2 DEF AuthWhoami
    <3>2. pc' = [pc EXCEPT ![p] = "told"]
      BY <2>2 DEF AuthWhoami
    <3> HIDE DEF n
    <3>3. t.owner \in Owners /\ Follows(t.session, stored[n])
      BY <1>1, WhoamiIs
    <3> QED
      BY <3>1, <3>2, <3>3
  <2> QED
    BY <2>1, <2>2
<1>4. /\ pc' \in [Procs -> {"idle"} \cup Busy \cup Over]
      /\ cfg' \in [Procs -> Environments \cup {NoConfig}]
      /\ \A q \in Procs : cfg'[q] \in IF pc'[q] = "idle" THEN {NoConfig} ELSE Environments
      /\ pc'[p] = next /\ cfg'[p] = c
      /\ \A q \in Procs \ {p} : pc'[q] = pc[q] /\ cfg'[q] = cfg[q]
  BY <1>2, <1>3, MoveStep DEF Over
<1>5. Site(p)' = n
  BY <1>4 DEF Site
<1> HIDE DEF n
<1>6. \A i \in stored[n].kept \cap SignIns : Known(i) /\ KeyNamespace(started[i].at) = n
  BY <1>1 DEF SignInInv, StoredOK
<1>7. \A i \in t.session.kept \cap SignIns : Known(i) /\ KeyNamespace(started[i].at) = n
  BY <1>3, <1>6, OwnersAssumption DEF Follows
<1>8. /\ stored' \in [Sites -> Sessions] /\ StoredOK'
      /\ since' \in [Procs -> SUBSET Owners] /\ missed' \in [Procs -> BOOLEAN]
      /\ \A q \in Procs \ {p} : Seen(q)
      /\ KeptKept
  BY <1>1, <1>2, <1>3, <1>7, KeepStep DEF Follows
<1>9. /\ actor' \in [Procs -> Owners] /\ actor'[p] = t.owner
      /\ \A q \in Procs \ {p} : actor'[q] = actor[q]
  BY <1>1, <1>3 DEF TypeOK
<1>10. TypeOK'
  BY <1>1, <1>2, <1>4, <1>8, <1>9 DEF TypeOK, Sites
<1>11. next = "acted" /\ actor'[p] \in SignIns =>
         Known(actor'[p]) /\ KeyNamespace(started[actor'[p]].at) = n
  BY <1>3, <1>6, <1>9, OwnersAssumption
<1>12. ProcOK(p)'
  BY <1>2, <1>3, <1>4, <1>5, <1>9, <1>11 DEF ProcOK, Known, Busy
<1> QED
  BY <1>2, <1>4, <1>8, <1>9, <1>10, <1>12, OthersOK

LEMMA LoginKeeps ==
  ASSUME SignInInv, NEW p \in Procs, NEW c \in Environments,
         (\E i \in SignIns : AuthLogin(p, c, i)) \/ LoginRefused(p, c)
  PROVE  SignInInv'
<1>1. TypeOK /\ c \in Configs /\ c.env \in EndpointEnvs
  BY SignInAssumption DEF SignInInv, Configs
<1>2. /\ StartIn(p, c)
      /\ UNCHANGED <<clock, approved, spent, stored, session, callback, opened, actor, since, missed>>
  BY DEF AuthLogin, LoginRefused, serverVars, handVars, notes
<1>3. PICK next \in {"acted", "login_refused"} :
        /\ pc' = [pc EXCEPT ![p] = next]
        /\ next = "login_refused" => Resolves(c.env) /\ ~SignInAllowed(c)
  BY DEF AuthLogin, LoginRefused, StartIn
<1>4. /\ pc' \in [Procs -> {"idle"} \cup Busy \cup Over]
      /\ cfg' \in [Procs -> Environments \cup {NoConfig}]
      /\ \A q \in Procs : cfg'[q] \in IF pc'[q] = "idle" THEN {NoConfig} ELSE Environments
      /\ pc'[p] = next /\ cfg'[p] = c /\ pc[p] = "idle"
      /\ \A q \in Procs \ {p} : pc'[q] = pc[q] /\ cfg'[q] = cfg[q]
  BY <1>2, <1>3, MoveStep DEF Over
<1>5. /\ started' \in [SignIns -> {NoSignIn} \cup [expires : 0..(MaxTime + Lifetime), at : Urls]]
      /\ \A i \in SignIns : Known(i) => started'[i] = started[i]
  <2>1. CASE UNCHANGED started
    BY <1>1, <2>1 DEF TypeOK
  <2>2. CASE \E i \in SignIns : AuthLogin(p, c, i)
    <3>1. PICK i \in SignIns :
            /\ ~Known(i)
            /\ started' = [started EXCEPT ![i] =
                 [expires |-> clock + Lifetime, at |-> BaseURL(c.env)]]
      BY <2>2 DEF AuthLogin, ExpiresAt, Known
    <3>2. clock + Lifetime \in 0..(MaxTime + Lifetime) /\ BaseURL(c.env) \in Urls
      BY <1>1, SignInAssumption, BaseURLIs DEF TypeOK
    <3> QED
      BY <1>1, <3>1, <3>2 DEF TypeOK, Known
  <2> QED
    BY <2>1, <2>2 DEF LoginRefused, serverVars
<1>6. \A i \in approved : Known(i) /\ i \in SignIns
  BY <1>1 DEF TypeOK, Known
<1>7. approved' \subseteq {i \in SignIns : started'[i] # NoSignIn}
  BY <1>2, <1>5, <1>6 DEF Known
<1>8. TypeOK'
  BY <1>1, <1>2, <1>4, <1>5, <1>7 DEF TypeOK, Sites
<1>9. StoredOK'
  BY <1>2, <1>5 DEF SignInInv, StoredOK, Known
<1>10. actor'[p] = Nobody
  BY <1>2, <1>4 DEF SignInInv, ProcOK
<1>11. ProcOK(p)'
  BY <1>3, <1>4, <1>10, OwnersAssumption DEF ProcOK, Busy
<1> QED
  BY <1>2, <1>4, <1>5, <1>8, <1>9, <1>11, OthersOK, SeenNothing

LEMMA CompleteKeeps ==
  ASSUME SignInInv, NEW p \in Procs, NEW c \in Environments, NEW i \in SignIns, NEW j \in SignIns,
         AuthComplete(p, c, i, j)
  PROVE  SignInInv'
<1>1. TypeOK
  BY DEF SignInInv
<1>2. /\ StartIn(p, c) /\ j \in approved /\ j = i /\ clock < started[i].expires
      /\ session' = [session EXCEPT ![p] = i] /\ callback' = [callback EXCEPT ![p] = j]
      /\ opened' = [opened EXCEPT ![p] = clock] /\ pc' = [pc EXCEPT ![p] = "exchange"]
      /\ UNCHANGED <<clock, started, approved, spent, stored, actor, since, missed>>
  BY DEF AuthComplete, Opens, serverVars, notes
<1>3. /\ pc' \in [Procs -> {"idle"} \cup Busy \cup Over]
      /\ cfg' \in [Procs -> Environments \cup {NoConfig}]
      /\ \A q \in Procs : cfg'[q] \in IF pc'[q] = "idle" THEN {NoConfig} ELSE Environments
      /\ pc'[p] = "exchange" /\ cfg'[p] = c /\ pc[p] = "idle"
      /\ \A q \in Procs \ {p} : pc'[q] = pc[q] /\ cfg'[q] = cfg[q]
  BY <1>2, MoveStep DEF Busy
<1>4. /\ session' \in [Procs -> SignIns \cup {NoSignIn}]
      /\ callback' \in [Procs -> SignIns \cup {NoSignIn}]
      /\ opened' \in [Procs -> 0..MaxTime]
      /\ session'[p] = i /\ callback'[p] = i /\ opened'[p] = clock
      /\ \A q \in Procs \ {p} :
           session'[q] = session[q] /\ callback'[q] = callback[q] /\ opened'[q] = opened[q]
  BY <1>1, <1>2 DEF TypeOK
<1>5. TypeOK'
  BY <1>1, <1>2, <1>3, <1>4 DEF TypeOK, Sites
<1>6. StoredOK'
  BY <1>2 DEF SignInInv, StoredOK, Known
<1>7. actor'[p] = Nobody
  BY <1>2, <1>3 DEF SignInInv, ProcOK
<1>8. ProcOK(p)'
  BY <1>2, <1>3, <1>4, <1>7 DEF ProcOK
<1> QED
  BY <1>2, <1>3, <1>4, <1>5, <1>6, <1>8, OthersOK, SeenNothing

LEMMA ExchangeKeeps ==
  ASSUME SignInInv, NEW p \in Procs, Exchange(p) \/ ExchangeFails(p)
  PROVE  SignInInv'
<1>1. TypeOK /\ ProcOK(p) /\ pc[p] = "exchange"
  BY DEF SignInInv, Exchange, ExchangeFails
<1>2. /\ spent' \subseteq spent \cup {callback[p]}
      /\ UNCHANGED <<clock, started, approved, stored, cfg, session, callback, opened, actor, since,
                   missed>>
  BY DEF Exchange, ExchangeFails, handVars, notes
<1>3. PICK next \in {"store", "acted"} :
        /\ pc' = [pc EXCEPT ![p] = next]
        /\ next = "store" => started[callback[p]].at = BaseURL(cfg[p].env)
  BY DEF Exchange, ExchangeFails
<1>4. /\ pc' \in [Procs -> {"idle"} \cup Busy \cup Over]
      /\ \A q \in Procs : cfg'[q] \in IF pc'[q] = "idle" THEN {NoConfig} ELSE Environments
      /\ pc'[p] = next
      /\ \A q \in Procs \ {p} : pc'[q] = pc[q]
  BY <1>1, <1>2, <1>3, MoveStep DEF Busy, Over
<1>5. /\ actor[p] = Nobody /\ session[p] \in approved /\ callback[p] = session[p]
  BY <1>1 DEF ProcOK, Busy
<1>6. spent' \subseteq approved'
  BY <1>1, <1>2, <1>5 DEF TypeOK
<1>7. TypeOK'
  BY <1>1, <1>2, <1>4, <1>6 DEF TypeOK, Sites
<1>8. StoredOK'
  BY <1>2 DEF SignInInv, StoredOK, Known
<1>9. ProcOK(p)'
  BY <1>2, <1>3, <1>4, <1>5, OwnersAssumption DEF ProcOK
<1> QED
  BY <1>2, <1>4, <1>7, <1>8, <1>9, OthersOK, SeenNothing DEF SignInInv

LEMMA StoreKeeps ==
  ASSUME SignInInv, NEW p \in Procs, StoreRefresh(p) \/ StoreToken(p)
  PROVE  SignInInv'
<1> DEFINE n == Site(p)
           i == session[p]
<1>1. PICK next \in {"store_token", "lookup"} :
        /\ TypeOK /\ ProcOK(p) /\ pc[p] \in {"store", "store_token"}
        /\ pc' = [pc EXCEPT ![p] = next]
        /\ next = "store_token" => StoreRefresh(p)
        /\ next = "lookup" => StoreToken(p)
        /\ UNCHANGED <<clock, started, approved, spent, cfg, session, callback, opened, actor,
                       missed>>
  BY DEF SignInInv, StoreRefresh, StoreToken, serverVars, handVars
<1>2. /\ pc' \in [Procs -> {"idle"} \cup Busy \cup Over]
      /\ \A q \in Procs : cfg'[q] \in IF pc'[q] = "idle" THEN {NoConfig} ELSE Environments
      /\ pc'[p] = next /\ cfg[p].env \in EndpointEnvs
      /\ Site(p)' = Site(p) /\ Site(p) \in Sites
      /\ \A q \in Procs \ {p} : pc'[q] = pc[q]
  <2>1. Site(p)' = Site(p)
    BY <1>1 DEF Site
  <2> QED
    BY <1>1, <2>1, MoveStep DEF Busy
<1>3. /\ i \in approved /\ i \in SignIns /\ Known(i)
      /\ started[i].at = BaseURL(cfg[p].env) /\ actor[p] = Nobody
  BY <1>1 DEF ProcOK, TypeOK, Known, Busy
<1>4. KeyNamespace(started[i].at) = n
  BY <1>2, <1>3, BaseURLIs DEF Site
<1>5. stored[n] \in Sessions /\ n \in Sites
  BY <1>1, <1>2 DEF TypeOK
<1>6. PICK s \in Sessions :
        /\ Keep(p, n, s) /\ s.kept = stored[n].kept \cup {i}
        /\ s.token = stored[n].token \/ s.token = i
        /\ next = "lookup" => s.token = i
  <2>1. CASE next = "store_token"
    <3>1. Keep(p, n, [stored[n] EXCEPT !.kept = stored[n].kept \cup {i}])
      BY <1>1, <2>1 DEF StoreRefresh
    <3>2. [stored[n] EXCEPT !.kept = stored[n].kept \cup {i}] \in Sessions
      BY <1>3, <1>5 DEF Sessions
    <3>3. /\ [stored[n] EXCEPT !.kept = stored[n].kept \cup {i}].kept = stored[n].kept \cup {i}
          /\ [stored[n] EXCEPT !.kept = stored[n].kept \cup {i}].token = stored[n].token
      BY <1>5 DEF Sessions
    <3> HIDE DEF n, i
    <3> QED
      BY <2>1, <3>1, <3>2, <3>3
  <2>2. CASE next = "lookup"
    <3>1. Keep(p, n, WithToken(stored[n], i))
      BY <1>1, <2>2 DEF StoreToken
    <3> QED
      BY <1>3, <1>5, <3>1, WithTokenIs
  <2> QED
    BY <2>1, <2>2
<1>7. i # Nobody
  BY <1>3, OwnersAssumption
<1> HIDE DEF i
<1>8. \A j \in s.kept \cap SignIns : Known(j) /\ KeyNamespace(started[j].at) = n
  BY <1>3, <1>4, <1>5, <1>6 DEF SignInInv, StoredOK
<1> HIDE DEF n
<1>9. /\ stored' \in [Sites -> Sessions] /\ StoredOK' /\ stored'[n] = s
      /\ since' \in [Procs -> SUBSET Owners] /\ missed' \in [Procs -> BOOLEAN]
      /\ \A q \in Procs \ {p} : Seen(q)
      /\ KeptKept
  BY <1>1, <1>5, <1>6, <1>7, <1>8, KeepStep
<1>10. TypeOK'
  BY <1>1, <1>2, <1>9 DEF TypeOK, Sites
<1>11. ProcOK(p)'
  <2>1. next = "lookup" => stored'[n].token = i /\ stored'[n].token # Nobody
    BY <1>6, <1>7, <1>9
  <2> QED
    BY <1>1, <1>2, <1>3, <2>1 DEF ProcOK, n, i
<1> QED
  BY <1>1, <1>2, <1>9, <1>10, <1>11, OthersOK DEF SignInInv

LEMMA StoreFailsKeeps ==
  ASSUME SignInInv, NEW p \in Procs, StoreFails(p)
  PROVE  SignInInv'
<1>1. /\ TypeOK /\ ProcOK(p) /\ pc[p] \in {"store", "store_token"}
      /\ pc' = [pc EXCEPT ![p] = "acted"]
      /\ UNCHANGED <<clock, started, approved, spent, stored, cfg, session, callback, opened,
                     actor, since, missed>>
  BY DEF SignInInv, StoreFails, serverVars, handVars, notes
<1>2. /\ pc' \in [Procs -> {"idle"} \cup Busy \cup Over]
      /\ \A q \in Procs : cfg'[q] \in IF pc'[q] = "idle" THEN {NoConfig} ELSE Environments
      /\ pc'[p] = "acted"
      /\ \A q \in Procs \ {p} : pc'[q] = pc[q]
  BY <1>1, MoveStep DEF Over
<1>3. TypeOK'
  BY <1>1, <1>2 DEF TypeOK, Sites
<1>4. StoredOK'
  BY <1>1 DEF SignInInv, StoredOK, Known
<1>5. actor'[p] = Nobody
  BY <1>1 DEF ProcOK, Busy
<1>6. ProcOK(p)'
  BY <1>2, <1>5, OwnersAssumption DEF ProcOK, Busy
<1> QED
  BY <1>1, <1>2, <1>3, <1>4, <1>6, OthersOK, SeenNothing DEF SignInInv

LEMMA LookUpKeeps ==
  ASSUME SignInInv, NEW p \in Procs, LookUp(p) \/ LookUpUnread(p)
  PROVE  SignInInv'
<1> DEFINE n == Site(p)
<1>1. /\ TypeOK /\ ProcOK(p) /\ pc[p] = "lookup"
      /\ pc' = [pc EXCEPT ![p] = "signed_in"]
      /\ UNCHANGED <<clock, started, approved, spent, cfg, session, callback, opened>>
      /\ UNCHANGED missed \/ missed' = [missed EXCEPT ![p] = TRUE]
  BY DEF SignInInv, LookUp, LookUpUnread, serverVars, handVars
<1>2. /\ pc' \in [Procs -> {"idle"} \cup Busy \cup Over]
      /\ \A q \in Procs : cfg'[q] \in IF pc'[q] = "idle" THEN {NoConfig} ELSE Environments
      /\ pc'[p] = "signed_in" /\ cfg[p] \in Configs
      /\ Site(p)' = n /\ n \in Sites
      /\ \A q \in Procs \ {p} : pc'[q] = pc[q]
  <2>1. Site(p)' = Site(p)
    BY <1>1 DEF Site
  <2> QED
    BY <1>1, <2>1, MoveStep DEF Over
<1>3. PICK t \in Whoami(cfg[p], stored[n]) \cup WhoamiUnread(cfg[p], stored[n]) :
        /\ actor' = [actor EXCEPT ![p] = t.owner] /\ Keep(p, n, t.session)
        /\ \/ t \in Whoami(cfg[p], stored[n])
           \/ t \in WhoamiUnread(cfg[p], stored[n]) /\ missed' = [missed EXCEPT ![p] = TRUE]
  BY DEF LookUp, LookUpUnread
<1> HIDE DEF n
<1>4. stored[n] \in Sessions
  BY <1>1, <1>2 DEF TypeOK
<1>5. t.owner \in Owners /\ Follows(t.session, stored[n])
  BY <1>2, <1>4, WhoamiIs
<1>6. \A i \in t.session.kept \cap SignIns : Known(i) /\ KeyNamespace(started[i].at) = n
  BY <1>2, <1>5, OwnersAssumption DEF SignInInv, StoredOK, Follows
<1>7. /\ stored' \in [Sites -> Sessions] /\ StoredOK' /\ stored'[n] = t.session
      /\ since' \in [Procs -> SUBSET Owners] /\ missed' \in [Procs -> BOOLEAN]
      /\ since'[p] = since[p]
      /\ \A q \in Procs \ {p} : Seen(q)
      /\ KeptKept
  BY <1>1, <1>2, <1>3, <1>5, <1>6, KeepStep DEF Follows
<1>8. /\ actor' \in [Procs -> Owners] /\ actor'[p] = t.owner
      /\ \A q \in Procs \ {p} : actor'[q] = actor[q]
  BY <1>1, <1>3, <1>5 DEF TypeOK
<1>9. TypeOK'
  BY <1>1, <1>2, <1>7, <1>8 DEF TypeOK, Sites
<1>10. /\ session[p] \in approved /\ started[session[p]].at = BaseURL(cfg[p].env)
       /\ stored[n].token \in {session[p]} \cup since[p] /\ stored[n].token # Nobody
  BY <1>1 DEF ProcOK, n
<1>11. NamesRight(p)'
  <2>1. CASE t \in Whoami(cfg[p], stored[n])
    <3>1. t.owner \in {stored[n].token, Nobody}
      BY <1>2, <1>4, <1>10, <2>1, WhoamiIs
    <3> QED
      BY <1>1, <1>7, <1>8, <1>10, <3>1 DEF NamesRight
  <2>2. CASE t \in WhoamiUnread(cfg[p], stored[n]) /\ missed' = [missed EXCEPT ![p] = TRUE]
    <3>1. missed'[p]
      BY <1>1, <2>2 DEF TypeOK
    <3>2. \/ t.owner = Nobody \/ t.owner \in stored[n].kept
          \/ t.owner = "machine" /\ Credentials(cfg[p])
      BY <1>2, <1>4, <2>2, WhoamiIs
    <3>3. stored[n].kept \subseteq stored'[n].kept
      BY <1>2, <1>7 DEF KeptKept
    <3> QED
      BY <1>1, <1>2, <1>8, <3>1, <3>2, <3>3 DEF NamesRight
  <2> QED
    BY <1>3, <2>1, <2>2
<1>12. ProcOK(p)'
  BY <1>1, <1>2, <1>10, <1>11 DEF ProcOK, Busy
<1> QED
  BY <1>1, <1>2, <1>7, <1>8, <1>9, <1>12, OthersOK DEF SignInInv

LEMMA SignInNext == SignInInv /\ [Next]_vars => SignInInv'
<1> SUFFICES ASSUME SignInInv, [Next]_vars PROVE SignInInv'
  OBVIOUS
<1>1. CASE UNCHANGED vars
  <2>1. /\ TypeOK' /\ StoredOK' /\ cfg' \in [Procs -> Environments \cup {NoConfig}]
    BY <1>1 DEF vars, SignInInv, TypeOK, StoredOK, Known, Sites
  <2>2. ASSUME NEW p \in Procs PROVE ProcOK(p)'
    BY <1>1 DEF vars, SignInInv, ProcOK, NamesRight, Known, Site
  <2> QED
    BY <2>1, <2>2 DEF SignInInv
<1> QED
  BY <1>1, AroundKeeps, EndKeeps, CommandKeeps, LoginKeeps, CompleteKeeps, ExchangeKeeps,
     StoreKeeps, StoreFailsKeeps, LookUpKeeps DEF Next

LEMMA SignInHolds == Spec => []SignInInv
BY SignInInit, SignInNext, PTL DEF Spec

-----------------------------------------------------------------------------
(* What holds of every sign-in.                                              *)

\* Nothing the browser, the server or other processes do takes the state out of
\* its ranges; no code is spent that was not brought back.
THEOREM SignInTypeCorrect == Spec => []TypeOK
<1>1. SignInInv => TypeOK
  BY DEF SignInInv
<1> QED
  BY <1>1, SignInHolds, PTL

\* Whatever sign-ins left in the keychain and in whatever order commands read it, a
\* command with an access or OIDC token in its environment, or bound to client
\* credentials it does not have, never acts as a person (GetToken, oauth.go:71).
THEOREM MachinesStayMachines == Spec => []MachineStaysMachine
<1>1. SignInInv => MachineStaysMachine
  BY DEF SignInInv, ProcOK, MachineBound, MachineStaysMachine
<1> QED
  BY <1>1, SignInHolds, PTL

\* A person's session goes to the server they signed in to and to no other.
THEOREM SessionsStayWithSites == Spec => []SessionStaysWithSite
<1>1. SignInInv => SessionStaysWithSite
  <2> SUFFICES ASSUME SignInInv, NEW p \in Procs, pc[p] = "acted", actor[p] \in SignIns
               PROVE  SameServer(started[actor[p]].at, AuthURL(cfg[p].env))
    BY DEF SessionStaysWithSite
  <2>1. cfg[p].env \in EndpointEnvs
    BY SignInAssumption DEF SignInInv, TypeOK, Configs
  <2>2. started[actor[p]].at \in Urls
        /\ KeyNamespace(started[actor[p]].at) = KeyNamespace(AuthURL(cfg[p].env))
    BY DEF SignInInv, TypeOK, ProcOK, Known, Site
  <2> QED
    BY <2>1, <2>2, BaseURLIs, SameNamespace
<1> QED
  BY <1>1, SignInHolds, PTL

\* However commands and sign-ins overlap, a sign-in names its person, nobody, or one
\* whose token others stored since; if its Get failed, at most another of the same
\* part of the keychain or the environment's machine (handler.go:1091, 1387).
THEOREM SignInsNameTheirPerson == Spec => []SignInNamesPerson
<1>1. SignInInv => SignInNamesPerson
  BY DEF SignInInv, ProcOK, NamesRight, Credentials, SignInNamesPerson
<1> QED
  BY <1>1, SignInHolds, PTL

\* What the capabilities advertise is refused only for the slash that NewOAuth cuts.
THEOREM AdvertisedLoginsWork == Spec => []AdvertisedLoginWorks
<1>1. SignInInv => AdvertisedLoginWorks
  <2> SUFFICES ASSUME SignInInv, NEW p \in Procs, pc[p] = "login_refused",
                      CustomAuth(cfg[p].env).path # "slash", LoginAdvertised(cfg[p])
               PROVE  FALSE
    BY DEF AdvertisedLoginWorks
  <2>1. cfg[p].env \in EndpointEnvs
    BY SignInAssumption DEF SignInInv, TypeOK, Configs
  <2>2. Resolves(cfg[p].env) /\ ~SignInAllowed(cfg[p])
    BY DEF SignInInv, ProcOK
  <2> QED
    BY <2>1, <2>2, ResolvedIsAllowed DEF SignInAllowed, LoginAdvertised, AuthEndpointAllowed
<1> QED
  BY <1>1, SignInHolds, PTL

\* A code is spent only by the process that opened its own session in time.
THEOREM CodesNotWasted == Spec => NoCodeWasted
<1>1. SignInInv /\ [Next]_vars =>
        [\A i \in spent' \ spent : \E p \in Procs :
           /\ pc[p] = "exchange" /\ callback[p] = i
           /\ session[p] = i /\ opened[p] < started[i].expires]_vars
  <2> SUFFICES ASSUME SignInInv, Next, NEW i \in spent' \ spent
               PROVE  \E p \in Procs :
                        /\ pc[p] = "exchange" /\ callback[p] = i
                        /\ session[p] = i /\ opened[p] < started[i].expires
    OBVIOUS
  <2>1. spent' # spent
    OBVIOUS
  <2>2. PICK p \in Procs : Exchange(p) \/ ExchangeFails(p)
    BY <2>1 DEF Next, Tick, Approve, Command, AuthWhoami, AuthLogin, LoginRefused, AuthComplete,
                StoreRefresh, StoreToken, StoreFails, LookUp, LookUpUnread, End, serverVars
  <2>3. i = callback[p] /\ pc[p] = "exchange"
    BY <2>2 DEF Exchange, ExchangeFails
  <2> QED
    BY <2>3 DEF SignInInv, ProcOK
<1> QED
  BY <1>1, SignInHolds, PTL DEF Spec, NoCodeWasted
=============================================================================
