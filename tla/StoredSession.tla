----------------------------- MODULE StoredSession -----------------------------
(***************************************************************************)
(* The session in the OS keychain (internal/auth/keychain.go), shared by    *)
(* every adapter process of a user, and what the commands do to it          *)
(* (internal/auth/oauth.go): GetToken with client credentials from the      *)
(* environment, GetToken with the stored session, and the end of a browser  *)
(* sign-in.                                                                 *)
(*                                                                          *)
(* The keychain has four entries, each read and written on its own, with no *)
(* transaction over them: one step is one Get, one Set or one request.      *)
(* Between two steps other processes run and tokens expire; with Faults, a  *)
(* process may die ("crash"), a Set be refused ("set") or a Get fail        *)
(* ("get").                                                                 *)
(***************************************************************************)
EXTENDS Integers

CONSTANTS
  Procs,          \* adapter processes
  Clients,        \* the client ids of the machine credentials in use
  NoClient,       \* the empty client_id entry
  NoToken,        \* an absent token
  Faults,         \* what may go wrong
  Serial,         \* TRUE: a command starts only when no other is running
  RefreshTokens,  \* may a sign-in yield a refresh token?
  Lifetimes,      \* does a token response carry expires_in?
  MaxTokens       \* bound on the tokens the server issues

ASSUME SessionAssumption ==
  /\ Faults \subseteq {"crash", "set", "get"}
  /\ Serial \in BOOLEAN /\ RefreshTokens \in BOOLEAN
  /\ Lifetimes \subseteq BOOLEAN
  /\ MaxTokens \in Nat
  /\ NoClient \notin Clients
  /\ "person" \notin Clients /\ "signin" \notin Clients
  /\ \A n \in 0..MaxTokens : n \notin Clients

VARIABLES
  keychain,   \* the four entries
  issued,     \* the number of tokens issued by the server
  expired,    \* serials of the tokens whose expires_in has run out
  pc,         \* the next step of the process's command
  who,        \* whose token it asks for: a client's, the person's, or a sign-in
  tok,        \* the access token it has in hand
  ref,        \* the session of the refresh token it has in hand, 0: none
  signedIn,   \* the last sign-in that reported success (history)
  since       \* since[p]: signedIn when p's command started (history)

vars == <<keychain, issued, expired, pc, who, tok, ref, signedIn, since>>

\* A session is named by the serial of the token that started it; a token
\* belongs to a client or to a session.
Tokens == [owner : Clients \cup 1..MaxTokens, serial : 1..MaxTokens, lasts : BOOLEAN]

ASSUME NoTokenAssumption == NoToken \notin Tokens

\* expiry is the serial of the token it was computed for, 0: no expiry known.
Keychains == [access : Tokens \cup {NoToken}, refresh : 0..MaxTokens,
              client : Clients \cup {NoClient}, expiry : 0..MaxTokens]

Reading    == {"label", "token", "expiry", "refresh"}
Asking     == {"ask_refresh", "ask_client", "ask_signin"}
Refreshing == {"refreshed_token", "refreshed_refresh", "refreshed_expiry"}
Caching    == {"cache_token", "cache_expiry", "cache_label", "cache_refresh"}
SigningIn  == {"signin_label", "signin_refresh", "signin_token", "signin_expiry"}
Ended      == {"done", "denied", "signed_in"}

TypeOK ==
  /\ keychain \in Keychains
  /\ issued \in 0..MaxTokens
  /\ expired \subseteq 1..issued
  /\ pc \in [Procs -> {"idle"} \cup Reading \cup Asking \cup Refreshing \cup Caching
                       \cup SigningIn \cup Ended]
  /\ who \in [Procs -> Clients \cup {"person", "signin"}]
  /\ tok \in [Procs -> Tokens \cup {NoToken}]
  /\ ref \in [Procs -> 0..MaxTokens]
  /\ signedIn \in 0..MaxTokens
  /\ since \in [Procs -> 0..MaxTokens]

Init ==
  /\ keychain = [access |-> NoToken, refresh |-> 0, client |-> NoClient, expiry |-> 0]
  /\ issued = 0
  /\ expired = {}
  /\ pc = [p \in Procs |-> "idle"]
  /\ who = [p \in Procs |-> "person"]
  /\ tok = [p \in Procs |-> NoToken]
  /\ ref = [p \in Procs |-> 0]
  /\ signedIn = 0
  /\ since = [p \in Procs |-> 0]

-----------------------------------------------------------------------------
(* Steps.                                                                    *)

Goto(p, next) == pc' = [pc EXCEPT ![p] = next]

\* One Set of the keychain.
Put(p, entry, value, next, onError) ==
  /\ \/ /\ keychain' = [keychain EXCEPT ![entry] = value]
        /\ Goto(p, next)
     \/ /\ "set" \in Faults
        /\ Goto(p, onError)
        /\ UNCHANGED keychain
  /\ UNCHANGED <<issued, expired, who, tok, ref, signedIn, since>>

\* A Get that fails is answered like an absent entry.
GetFails(p, next) ==
  /\ "get" \in Faults
  /\ Goto(p, next)
  /\ UNCHANGED <<keychain, issued, expired, who, tok, ref, signedIn, since>>

\* The server answers with a token of owner.
Grant(p, owner, next) ==
  /\ issued < MaxTokens
  /\ issued' = issued + 1
  /\ \E lasts \in Lifetimes :
       tok' = [tok EXCEPT ![p] = [owner |-> owner, serial |-> issued + 1, lasts |-> lasts]]
  /\ Goto(p, next)

\* No usable stored token: client credentials ask for one, a person has none.
NoStored(p) == IF who[p] = "person" THEN "denied" ELSE "ask_client"

\* A command starts: GetToken for a client or the stored session, or the end of
\* a sign-in.
Start(p, w) ==
  /\ pc[p] = "idle"
  /\ Serial => \A q \in Procs : pc[q] = "idle"
  /\ who' = [who EXCEPT ![p] = w]
  /\ since' = [since EXCEPT ![p] = signedIn]
  /\ Goto(p, CASE w = "person" -> "token"
               [] w = "signin" -> "ask_signin"
               [] OTHER        -> "label")
  /\ UNCHANGED <<keychain, issued, expired, tok, ref, signedIn>>

\* The command is over and its process gone: nothing of it remains.
Forget(p) ==
  /\ Goto(p, "idle")
  /\ who' = [who EXCEPT ![p] = "person"]
  /\ tok' = [tok EXCEPT ![p] = NoToken]
  /\ ref' = [ref EXCEPT ![p] = 0]
  /\ since' = [since EXCEPT ![p] = 0]
  /\ UNCHANGED <<keychain, issued, expired>>

Finish(p) ==
  /\ pc[p] \in Ended
  /\ Forget(p)
  /\ signedIn' = IF pc[p] = "signed_in" /\ tok[p].owner > signedIn
                 THEN tok[p].owner ELSE signedIn

Crash(p) ==
  /\ "crash" \in Faults
  /\ pc[p] \notin {"idle"} \cup Ended
  /\ Forget(p)
  /\ UNCHANGED signedIn

\* The lifetime of a token with a known one runs out.
Expire(n) ==
  /\ n \in (1..issued) \ expired
  /\ expired' = expired \cup {n}
  /\ UNCHANGED <<keychain, issued, pc, who, tok, ref, signedIn, since>>

-----------------------------------------------------------------------------
(* getUsableStoredTokenForClient and getUsableStoredToken.                   *)

\* A mistake: any labelled token will do.
LabelPresent(label, c) == label # NoClient

LabelMatches(label, c) == label = c

ReadLabel(p) ==
  /\ pc[p] = "label"
  /\ \/ /\ Goto(p, IF LabelMatches(keychain.client, who[p]) THEN "token" ELSE "ask_client")
        /\ UNCHANGED <<keychain, issued, expired, who, tok, ref, signedIn, since>>
     \/ GetFails(p, "ask_client")

ReadToken(p) ==
  /\ pc[p] = "token"
  /\ \/ /\ tok' = [tok EXCEPT ![p] = keychain.access]
        /\ Goto(p, IF keychain.access = NoToken THEN NoStored(p) ELSE "expiry")
        /\ UNCHANGED <<keychain, issued, expired, who, ref, signedIn, since>>
     \/ GetFails(p, NoStored(p))

\* A mistake: expiry ignored.
NeverExpired(expiry) == FALSE

\* A mistake: a token with a lifetime always renewed.
AnyExpiry(expiry) == expiry # 0

\* isStoredTokenExpired: an unknown expiry counts as usable.
StoredTokenExpired(expiry) == expiry # 0 /\ expiry \in expired

ReadExpiry(p) ==
  /\ pc[p] = "expiry"
  /\ \/ /\ Goto(p, IF StoredTokenExpired(keychain.expiry) THEN "refresh" ELSE "done")
        /\ UNCHANGED <<keychain, issued, expired, who, tok, ref, signedIn, since>>
     \/ GetFails(p, "done")

-----------------------------------------------------------------------------
(* refreshStoredToken and storeRefreshedToken.                               *)

ReadRefresh(p) ==
  /\ pc[p] = "refresh"
  /\ \/ /\ ref' = [ref EXCEPT ![p] = keychain.refresh]
        /\ Goto(p, IF keychain.refresh = 0 THEN NoStored(p) ELSE "ask_refresh")
        /\ UNCHANGED <<keychain, issued, expired, who, tok, signedIn, since>>
     \/ GetFails(p, NoStored(p))

\* The server renews the session, with or without a new refresh token, or not.
AskRefresh(p) ==
  /\ pc[p] = "ask_refresh"
  /\ \/ /\ Grant(p, ref[p], "refreshed_token")
        /\ \E rotated \in BOOLEAN : ref' = IF rotated THEN ref ELSE [ref EXCEPT ![p] = 0]
     \/ /\ Goto(p, NoStored(p))
        /\ UNCHANGED <<issued, tok, ref>>
  /\ UNCHANGED <<keychain, expired, who, signedIn, since>>

StoreRefreshedToken(p) ==
  /\ pc[p] = "refreshed_token"
  /\ Put(p, "access", tok[p], IF ref[p] = 0 THEN "refreshed_expiry" ELSE "refreshed_refresh",
         NoStored(p))

StoreRefreshedRefresh(p) ==
  /\ pc[p] = "refreshed_refresh"
  /\ Put(p, "refresh", ref[p], "refreshed_expiry", "refreshed_expiry")

\* The expiry entry is written only for a response with expires_in.
StoreExpiry(p, next) ==
  IF tok[p].lasts THEN Put(p, "expiry", tok[p].serial, next, next)
  ELSE /\ Goto(p, next)
       /\ UNCHANGED <<keychain, issued, expired, who, tok, ref, signedIn, since>>

StoreRefreshedExpiry(p) == pc[p] = "refreshed_expiry" /\ StoreExpiry(p, "done")

-----------------------------------------------------------------------------
(* doClientCredentialsGrant and cacheTokenWithClientID.                      *)

AskClient(p) ==
  /\ pc[p] = "ask_client"
  /\ \/ Grant(p, who[p], "cache_token")
     \/ Goto(p, "denied") /\ UNCHANGED <<issued, tok>>
  /\ UNCHANGED <<keychain, expired, who, ref, signedIn, since>>

CacheToken(p) ==
  /\ pc[p] = "cache_token"
  /\ Put(p, "access", tok[p], "cache_expiry", "done")

CacheExpiry(p) == pc[p] = "cache_expiry" /\ StoreExpiry(p, "cache_label")

CacheLabel(p) ==
  /\ pc[p] = "cache_label"
  /\ Put(p, "client", who[p], "cache_refresh", "cache_refresh")

\* A mistake: the empty refresh token written over the client id.
ClearWrongEntry(p) ==
  /\ pc[p] = "cache_refresh"
  /\ Put(p, "client", 0, "done", "done")

\* A mistake: the person's refresh token left behind.
KeepRefresh(p) ==
  /\ pc[p] = "cache_refresh"
  /\ Goto(p, "done")
  /\ UNCHANGED <<keychain, issued, expired, who, tok, ref, signedIn, since>>

CacheRefresh(p) ==
  /\ pc[p] = "cache_refresh"
  /\ Put(p, "refresh", 0, "done", "done")

-----------------------------------------------------------------------------
(* CompleteBrowserSignIn and storeSignInToken.                               *)

AskSignIn(p) ==
  /\ pc[p] = "ask_signin"
  /\ \/ /\ Grant(p, issued + 1, "signin_label")
        /\ \E has \in {FALSE, RefreshTokens} :
             ref' = [ref EXCEPT ![p] = IF has THEN issued + 1 ELSE 0]
     \/ Goto(p, "denied") /\ UNCHANGED <<issued, tok, ref>>
  /\ UNCHANGED <<keychain, expired, who, signedIn, since>>

\* A mistake: a failure to clear the label only warned about.
ClearLabelOrWarn(p) ==
  /\ pc[p] = "signin_label"
  /\ Put(p, "client", NoClient, "signin_refresh", "signin_refresh")

SignInClearLabel(p) ==
  /\ pc[p] = "signin_label"
  /\ Put(p, "client", NoClient, "signin_refresh", "denied")

\* A mistake: an absent refresh token does not clear the old one.
ReplaceRefreshIfAny(p) ==
  /\ pc[p] = "signin_refresh"
  /\ IF ref[p] # 0 THEN Put(p, "refresh", ref[p], "signin_token", "signin_token")
     ELSE /\ Goto(p, "signin_token")
          /\ UNCHANGED <<keychain, issued, expired, who, tok, ref, signedIn, since>>

\* A failure here is only a warning.
SignInReplaceRefresh(p) ==
  /\ pc[p] = "signin_refresh"
  /\ Put(p, "refresh", ref[p], "signin_token", "signin_token")

SignInStoreToken(p) ==
  /\ pc[p] = "signin_token"
  /\ Put(p, "access", tok[p], "signin_expiry", "denied")

\* Unlike the other two, a sign-in resets the expiry when there is none.
SignInStoreExpiry(p) ==
  /\ pc[p] = "signin_expiry"
  /\ Put(p, "expiry", IF tok[p].lasts THEN tok[p].serial ELSE 0, "signed_in", "signed_in")

-----------------------------------------------------------------------------
Next ==
  \/ \E n \in 1..MaxTokens : Expire(n)
  \/ \E p \in Procs :
       \/ \E w \in Clients \cup {"person", "signin"} : Start(p, w)
       \/ Finish(p) \/ Crash(p)
       \/ ReadLabel(p) \/ ReadToken(p) \/ ReadExpiry(p) \/ ReadRefresh(p)
       \/ AskRefresh(p) \/ AskClient(p) \/ AskSignIn(p)
       \/ StoreRefreshedToken(p) \/ StoreRefreshedRefresh(p) \/ StoreRefreshedExpiry(p)
       \/ CacheToken(p) \/ CacheExpiry(p) \/ CacheLabel(p) \/ CacheRefresh(p)
       \/ SignInClearLabel(p) \/ SignInReplaceRefresh(p) \/ SignInStoreToken(p)
       \/ SignInStoreExpiry(p)

Spec == Init /\ [][Next]_vars

-----------------------------------------------------------------------------
(* Properties.                                                               *)

Quiet == \A p \in Procs : pc[p] = "idle"

\* Whatever sign-ins, refreshes and other clients did to the keychain, a command
\* with client credentials gets a token of that client, never a cached token of
\* another or of a person ("only reuses cached tokens if they were obtained with
\* the same client_id", oauth.go:166).
ClientIsolation ==
  \A p \in Procs : pc[p] = "done" /\ who[p] \in Clients => tok[p].owner = who[p]

\* A command started after a sign-in reported success never gets a token of an
\* earlier session ("an older refresh token could bring back an earlier session,
\* so both are replaced", oauth.go:539).
EarlierSessionGone ==
  \A p \in Procs :
    pc[p] = "done" /\ tok[p].owner \notin Clients => tok[p].owner >= since[p]

\* Between commands the entries belong together: a label names the owner of the
\* token and excludes a refresh token, and a refresh token renews the session of
\* the stored token.
EntriesAgree ==
  Quiet =>
    /\ keychain.client # NoClient =>
         keychain.access # NoToken /\ keychain.access.owner = keychain.client
    /\ keychain.refresh # 0 =>
         /\ keychain.client = NoClient
         /\ keychain.access # NoToken /\ keychain.access.owner = keychain.refresh

\* A stored token that came with a lifetime is not handed out after it ran out,
\* even when sign-ins and refreshes with and without expires_in alternate.
NoExpiredReuse ==
  [][\A p \in Procs :
       pc[p] = "expiry" /\ pc'[p] = "done" /\ tok[p].lasts => tok[p].serial \notin expired]_vars

-----------------------------------------------------------------------------
(* What the commands come to.                                                *)

Writing == Refreshing \cup Caching \cup SigningIn

\* The process whose command has a token and writes it, entry by entry.
Writers == {p \in Procs : pc[p] \in Writing}
Writer  == CHOOSE p \in Writers : TRUE

\* The session the entries are about to be.
TheToken == IF Writers = {} THEN keychain.access ELSE tok[Writer]

Renewable ==
  IF Writers = {} THEN keychain.refresh # 0
  ELSE pc[Writer] \in Refreshing \/ (pc[Writer] \in SigningIn /\ ref[Writer] # 0)

HasToken(p) == pc[p] \in Writing \cup {"done", "signed_in"}

Answers ==
  [p \in Procs |-> IF HasToken(p) THEN [to |-> who[p], token |-> tok[p]]
                   ELSE [to |-> "nobody", token |-> NoToken]]

Commands == INSTANCE SessionCommands WITH
  token <- TheToken, renewable <- Renewable, answer <- Answers,
  GetsMayFail <- "get" \in Faults

\* Commands that take turns are one step each, however many reads and writes they
\* take: the four entries are as good as one session, no usable token is asked
\* for anew, and the token handed out is the one that is stored
\* (getUsableStoredToken, oauth.go:243; cacheTokenWithClientID, oauth.go:184).
CommandsTakeOneStep == Commands!Spec
=============================================================================
