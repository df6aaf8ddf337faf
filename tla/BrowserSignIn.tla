---------------------------- MODULE BrowserSignIn ----------------------------
(***************************************************************************)
(* A browser sign-in from auth.login to auth.complete                       *)
(* (internal/remote/handler.go, internal/auth/oauth.go) beside the other    *)
(* commands of the same person and machines.  Each request is served by a   *)
(* process of its own with an environment of its own; what a sign-in needs  *)
(* travels through epack.  Sessions are kept per auth endpoint.             *)
(*                                                                          *)
(* The verifier, the state and the challenge of a sign-in are its name; the *)
(* server ties a code to the sign-in that asked for it and takes it once.   *)
(* A command is one step, at its SetToken or at its end: what it read of    *)
(* the keychain before may be anything that has been there (TokenSources).  *)
(***************************************************************************)
EXTENDS TokenSources, Integers

CONSTANTS
  Procs,
  Environments,   \* the configurations a process may be started with
  Lifetime,       \* BrowserSignInLifetime
  MaxTime,        \* bound on the clock
  NoSignIn, NoConfig

ASSUME SignInAssumption ==
  /\ Environments \subseteq Configs
  /\ Lifetime \in Nat /\ MaxTime \in Nat
  /\ NoSignIn \notin SignIns

VARIABLES
  clock,
  started,    \* started[i]: when, at which endpoint; or NoSignIn
  approved,   \* sign-ins whose code and state the browser brought back
  spent,      \* codes the server has seen
  stored,     \* stored[ns]: the session in that part of the keychain
  pc,
  cfg,        \* the environment of the process
  session,    \* the session it was given
  callback,   \* the code and state it was given
  opened,     \* when it checked the session (history)
  actor,      \* whom the process acted as, or the identity it reported
  since,      \* whose tokens others stored since it stored its own (history)
  missed      \* did its Get of the stored token fail? (history)

vars == <<clock, started, approved, spent, stored, pc, cfg, session, callback,
          opened, actor, since, missed>>

serverVars == <<started, approved, spent>>
handVars   == <<session, callback, opened>>
notes      == <<since, missed>>

Sites == {KeyNamespace(AuthURL(c.env)) : c \in Environments}
Site(p) == KeyNamespace(AuthURL(cfg[p].env))
Busy  == {"exchange", "store", "store_token", "lookup"}
Over  == {"acted", "told", "signed_in", "login_refused"}

TypeOK ==
  /\ clock \in 0..MaxTime
  /\ started \in [SignIns -> {NoSignIn} \cup [expires : 0..(MaxTime + Lifetime), at : Urls]]
  /\ approved \subseteq {i \in SignIns : started[i] # NoSignIn}
  /\ spent \subseteq approved
  /\ stored \in [Sites -> Sessions]
  /\ pc \in [Procs -> {"idle"} \cup Busy \cup Over]
  /\ \A p \in Procs : cfg[p] \in IF pc[p] = "idle" THEN {NoConfig} ELSE Environments
  /\ session \in [Procs -> SignIns \cup {NoSignIn}]
  /\ callback \in [Procs -> SignIns \cup {NoSignIn}]
  /\ opened \in [Procs -> 0..MaxTime]
  /\ actor \in [Procs -> Owners]
  /\ since \in [Procs -> SUBSET Owners]
  /\ missed \in [Procs -> BOOLEAN]

Init ==
  /\ clock = 0
  /\ started = [i \in SignIns |-> NoSignIn]
  /\ approved = {}
  /\ spent = {}
  /\ stored = [n \in Sites |-> NoSession]
  /\ pc = [p \in Procs |-> "idle"]
  /\ cfg = [p \in Procs |-> NoConfig]
  /\ session = [p \in Procs |-> NoSignIn]
  /\ callback = [p \in Procs |-> NoSignIn]
  /\ opened = [p \in Procs |-> 0]
  /\ actor = [p \in Procs |-> Nobody]
  /\ since = [p \in Procs |-> {}]
  /\ missed = [p \in Procs |-> FALSE]

-----------------------------------------------------------------------------
(* Around the processes.                                                     *)

Tick ==
  /\ clock < MaxTime
  /\ clock' = clock + 1
  /\ UNCHANGED <<serverVars, stored, pc, cfg, handVars, actor, notes>>

\* The person approves in the browser, which returns to epack.
Approve(i) ==
  /\ started[i] # NoSignIn
  /\ approved' = approved \cup {i}
  /\ UNCHANGED <<clock, started, spent, stored, pc, cfg, handVars, actor, notes>>

\* A process ends: its request is served, or it dies.
End(p) ==
  /\ pc[p] # "idle"
  /\ pc' = [pc EXCEPT ![p] = "idle"]
  /\ cfg' = [cfg EXCEPT ![p] = NoConfig]
  /\ session' = [session EXCEPT ![p] = NoSignIn]
  /\ callback' = [callback EXCEPT ![p] = NoSignIn]
  /\ opened' = [opened EXCEPT ![p] = 0]
  /\ actor' = [actor EXCEPT ![p] = Nobody]
  /\ since' = [since EXCEPT ![p] = {}]
  /\ missed' = [missed EXCEPT ![p] = FALSE]
  /\ UNCHANGED <<clock, serverVars, stored>>

\* The keychain as p leaves it, and what others who look it up may find there.
Keep(p, n, s) ==
  /\ stored' = [stored EXCEPT ![n] = s]
  /\ since' = [q \in Procs |->
       IF q # p /\ pc[q] = "lookup" /\ Site(q) = n THEN since[q] \cup {s.token} ELSE since[q]]

\* NewHandler, in an environment whose endpoints resolve.
StartIn(p, c) ==
  /\ pc[p] = "idle"
  /\ Resolves(c.env)
  /\ cfg' = [cfg EXCEPT ![p] = c]

-----------------------------------------------------------------------------
(* Any other command: getClient.                                             *)

Command(p, c) ==
  LET n == KeyNamespace(AuthURL(c.env)) IN
  /\ StartIn(p, c)
  /\ \E t \in GetToken(c, stored[n]) :
       /\ actor' = [actor EXCEPT ![p] = t.owner]
       /\ Keep(p, n, t.session)
  /\ pc' = [pc EXCEPT ![p] = "acted"]
  /\ UNCHANGED <<clock, serverVars, handVars, missed>>

AuthWhoami(p, c) ==
  LET n == KeyNamespace(AuthURL(c.env)) IN
  /\ StartIn(p, c)
  /\ \E t \in Whoami(c, stored[n]) \cup WhoamiUnread(c, stored[n]) :
       /\ actor' = [actor EXCEPT ![p] = t.owner]
       /\ Keep(p, n, t.session)
  /\ pc' = [pc EXCEPT ![p] = "told"]
  /\ UNCHANGED <<clock, serverVars, handVars, missed>>

-----------------------------------------------------------------------------
(* auth.login.                                                               *)

\* A mistake: the lifetime subtracted.
ExpiresBefore(now) == now - Lifetime

ExpiresAt(now) == now + Lifetime

AuthLogin(p, c, i) ==
  /\ StartIn(p, c)
  /\ SignInAllowed(c)
  /\ started[i] = NoSignIn
  /\ started' = [started EXCEPT ![i] =
       [expires |-> ExpiresAt(clock), at |-> BaseURL(c.env)]]
  /\ pc' = [pc EXCEPT ![p] = "acted"]
  /\ UNCHANGED <<clock, approved, spent, stored, handVars, actor, notes>>

LoginRefused(p, c) ==
  /\ StartIn(p, c)
  /\ ~SignInAllowed(c)
  /\ pc' = [pc EXCEPT ![p] = "login_refused"]
  /\ UNCHANGED <<clock, serverVars, stored, handVars, actor, notes>>

-----------------------------------------------------------------------------
(* auth.complete.                                                            *)

\* A mistake: the state is not compared.
OpensAnyState(i, j) == clock < started[i].expires

\* openBrowserSession, of session i with the state of callback j.
Opens(i, j) == clock < started[i].expires /\ j = i

\* epack hands over a session and whatever came back from a browser.
AuthComplete(p, c, i, j) ==
  /\ StartIn(p, c)
  /\ SignInAllowed(c)
  /\ started[i] # NoSignIn
  /\ j \in approved
  /\ Opens(i, j)
  /\ session' = [session EXCEPT ![p] = i]
  /\ callback' = [callback EXCEPT ![p] = j]
  /\ opened' = [opened EXCEPT ![p] = clock]
  /\ pc' = [pc EXCEPT ![p] = "exchange"]
  /\ UNCHANGED <<clock, serverVars, stored, actor, notes>>

\* The endpoint gives a token for its own code, once, to the right verifier.
Exchange(p) ==
  /\ pc[p] = "exchange"
  /\ callback[p] \notin spent
  /\ session[p] = callback[p]
  /\ started[callback[p]].at = BaseURL(cfg[p].env)
  /\ spent' = spent \cup {callback[p]}
  /\ pc' = [pc EXCEPT ![p] = "store"]
  /\ UNCHANGED <<clock, started, approved, stored, cfg, handVars, actor, notes>>

\* Refused, or the answer lost; the endpoint that issued the code has seen it.
ExchangeFails(p) ==
  /\ pc[p] = "exchange"
  /\ spent' \in {spent, spent \cup
       (IF started[callback[p]].at = BaseURL(cfg[p].env) THEN {callback[p]} ELSE {})}
  /\ pc' = [pc EXCEPT ![p] = "acted"]
  /\ UNCHANGED <<clock, started, approved, stored, cfg, handVars, actor, notes>>

\* storeSignInToken: the refresh token first...
StoreRefresh(p) ==
  /\ pc[p] = "store"
  /\ Keep(p, Site(p), [stored[Site(p)] EXCEPT !.kept = @ \cup {session[p]}])
  /\ pc' = [pc EXCEPT ![p] = "store_token"]
  /\ UNCHANGED <<clock, serverVars, cfg, handVars, actor, missed>>

\* ...then the access token.
StoreToken(p) ==
  /\ pc[p] = "store_token"
  /\ Keep(p, Site(p), WithToken(stored[Site(p)], session[p]))
  /\ pc' = [pc EXCEPT ![p] = "lookup"]
  /\ UNCHANGED <<clock, serverVars, cfg, handVars, actor, missed>>

\* SetClientID or SetToken is refused.
StoreFails(p) ==
  /\ pc[p] \in {"store", "store_token"}
  /\ pc' = [pc EXCEPT ![p] = "acted"]
  /\ UNCHANGED <<clock, serverVars, stored, cfg, handVars, actor, notes>>

\* The identity is looked up the way of whoami; without one, no subject.
LookUp(p) ==
  /\ pc[p] = "lookup"
  /\ \E t \in Whoami(cfg[p], stored[Site(p)]) :
       /\ actor' = [actor EXCEPT ![p] = t.owner]
       /\ Keep(p, Site(p), t.session)
  /\ pc' = [pc EXCEPT ![p] = "signed_in"]
  /\ UNCHANGED <<clock, serverVars, cfg, handVars, missed>>

\* The error of the Get is ignored.
LookUpUnread(p) ==
  /\ pc[p] = "lookup"
  /\ missed' = [missed EXCEPT ![p] = TRUE]
  /\ \E t \in WhoamiUnread(cfg[p], stored[Site(p)]) :
       /\ actor' = [actor EXCEPT ![p] = t.owner]
       /\ Keep(p, Site(p), t.session)
  /\ pc' = [pc EXCEPT ![p] = "signed_in"]
  /\ UNCHANGED <<clock, serverVars, cfg, handVars>>

-----------------------------------------------------------------------------
Next ==
  \/ Tick
  \/ \E i \in SignIns : Approve(i)
  \/ \E p \in Procs :
       \/ \E c \in Environments :
            \/ Command(p, c) \/ AuthWhoami(p, c)
            \/ \E i \in SignIns : AuthLogin(p, c, i)
            \/ LoginRefused(p, c)
            \/ \E i, j \in SignIns : AuthComplete(p, c, i, j)
       \/ Exchange(p) \/ ExchangeFails(p) \/ StoreRefresh(p) \/ StoreToken(p) \/ StoreFails(p)
       \/ LookUp(p) \/ LookUpUnread(p) \/ End(p)

Spec == Init /\ [][Next]_vars

-----------------------------------------------------------------------------
(* Properties.                                                               *)

\* A command that has its token from the environment, or a mode that leaves it no
\* other, never acts as a person, whatever sign-ins left in the keychain (the
\* order of the sources, GetToken, oauth.go:71).  Client credentials are not among
\* them: their cached token is read from the keychain, and ClientIsolation of
\* StoredSession has when that goes wrong.
MachineStaysMachine ==
  \A p \in Procs :
    /\ pc[p] = "acted"
    /\ \/ cfg[p].access
       \/ cfg[p].oidc /\ cfg[p].mode # "client_credentials_only"
       \/ ~cfg[p].client /\ cfg[p].mode = "client_credentials_only"
    => actor[p] \in {"machine", Nobody}

SameServer(u, v) ==
  /\ u.scheme = v.scheme /\ u.host = v.host
  /\ u.port = v.port \/ (u.scheme = "https" /\ {u.port, v.port} = {"none", "443"})

\* A person's session is used at the endpoint they signed in to and at no other:
\* commands and sign-ins at several endpoints share one keychain (keyNamespace).
SessionStaysWithSite ==
  \A p \in Procs :
    pc[p] = "acted" /\ actor[p] \in SignIns =>
      SameServer(started[actor[p]].at, AuthURL(cfg[p].env))

\* A code is spent only with the verifier of its own sign-in, and only when that
\* was still open: epack may hold several sessions, and a browser answer late or
\* for another of them (openBrowserSession, oauth.go:496).
NoCodeWasted ==
  [][\A i \in spent' \ spent : \E p \in Procs :
       /\ pc[p] = "exchange" /\ callback[p] = i
       /\ session[p] = i /\ opened[p] < started[i].expires]_vars

\* auth.complete names the person who signed in, nobody, or one whose token another
\* process stored there after its own (handler.go:1091).  Only when its Get of the
\* stored token failed it names another: a machine if the environment has its
\* credentials, or one whose token was in the same part of the keychain before
\* (handler.go:1387).
SignInNamesPerson ==
  \A p \in Procs :
    pc[p] = "signed_in" /\ actor[p] \notin {session[p], Nobody} \cup since[p] =>
      /\ missed[p]
      /\ \/ actor[p] = "machine" /\ (cfg[p].access \/ cfg[p].oidc \/ cfg[p].client)
         \/ actor[p] \in stored[Site(p)].kept

\* A sign-in that the capabilities advertise is not refused for its endpoint,
\* whichever the operator configured, unless the URL ends in a slash: NewOAuth
\* cuts it off and the URL is no longer the configured one (endpoints.go:147,
\* oauth.go:52).
AdvertisedLoginWorks ==
  \A p \in Procs :
    pc[p] = "login_refused" =>
      ~LoginAdvertised(cfg[p]) \/ CustomAuth(cfg[p].env).path = "slash"
==============================================================================
