---------------------------- MODULE FinalizeTokens ----------------------------
(***************************************************************************)
(* The two-step exchanges of the adapter: push.prepare / push.finalize and  *)
(* pull.prepare / pull.finalize (internal/remote/handler.go).               *)
(*                                                                          *)
(* A prepare request signs a finalize token and hands it to epack; a later  *)
(* finalize request, usually sent to ANOTHER adapter process, presents it.  *)
(* The only thing the two processes share is the auth material the signing  *)
(* key is derived from: the environment, or the session in the keychain.    *)
(* The memory of the nonces already used belongs to one process.            *)
(*                                                                          *)
(* A process (pc) is "new", "deriving" between the two keychain Gets its key *)
(* may take, "idle" between two lines of stdin, inside a                    *)
(* prepare ("prepare"), inside a finalize ("check", "consume", "client",    *)
(* "call", in the order of the code), or "gone".  It serves one request at  *)
(* a time (main.go run); other processes and the clock move in between.     *)
(*                                                                          *)
(* A Get of the keychain may fail at any time.  An update of the keychain is *)
(* one step here and several in StoredSession; the retry loop of            *)
(* push.finalize is one step here and ReleaseRetry's subject.               *)
(***************************************************************************)
EXTENDS Integers

CONSTANTS
  Procs,       \* adapter processes; an identity is never started twice
  Nonces,      \* the values randomNonce can return, one per finalize token
  Digests,     \* pack digests
  NoDigest,    \* the empty digest string
  NoReq,       \* a process that holds no finalize request
  EnvChoices,  \* credentials a process may find in its environment
  TTL,         \* finalizeTokenTTL
  MaxTime,     \* bound on the clock
  MaxGen,      \* bound on the tokens and keys ever created
  Rotates      \* does the server return a new refresh token on a refresh?

EnvSources == {"access_token", "client_credentials", "oidc_token"}

ASSUME ConstantsAssumption ==
  /\ TTL \in Nat \ {0}
  /\ MaxTime \in Nat
  /\ MaxGen \in Nat
  /\ Rotates \in BOOLEAN
  /\ EnvChoices \subseteq EnvSources \cup {"none"}
  /\ NoDigest \notin Digests

VARIABLES
  clock,     \* wall clock, in seconds
  env,       \* env[p]: the credentials in p's environment
  session,   \* the keychain: access and refresh token, 0 when absent
  fresh,     \* the last token or random key created
  epoch,     \* how often the session was replaced (history)
  pc,        \* where p is
  key,       \* key[p]: Handler.tokenKey, derived once when p starts
  born,      \* born[p]: epoch when p began to derive its key (history)
  astray,    \* astray[p]: p's key may not be the session's (history)
  used,      \* used[p]: Handler.usedNonces
  req,       \* req[p]: the finalize request p is serving
  issued,    \* nonces of the finalize tokens signed so far
  ticket,    \* ticket[n]: the signed token that carries nonce n
  redeemed,  \* finalize intents the server has consumed
  accepts,   \* accepts[p][n]: how often p accepted nonce n (history)
  confirmed  \* the confirmations pull.finalize returned (history)

sessionVars == <<session, fresh, epoch>>
keyVars     == <<key, born, astray>>
procVars    == <<keyVars, used, req>>
tokenVars   == <<issued, ticket>>
historyVars == <<redeemed, accepts, confirmed>>
vars == <<clock, env, sessionVars, pc, procVars, tokenVars, historyVars>>

MaybeDigest == Digests \cup {NoDigest}
KeySources  == EnvSources \cup {"refresh_token", "stored_access_token", "random"}
Keys        == [src : KeySources, id : Nat]
NoKey       == [src |-> "random", id |-> 0]   \* before NewHandler
Sessions    == [access : Nat, refresh : Nat]
NonceEntries == [nonce : Nonces, exp : Nat]
Requests    == [op : {"push", "pull"}, nonce : Nonces, digest : MaybeDigest]

\* file is what the server called file_digest, and by the signer: both history.
Tickets == [kind : {"push", "pull"}, key : Keys, exp : Nat, digest : MaybeDigest,
            fin : BOOLEAN, file : MaybeDigest, by : Procs]

Finalizing == {"check", "consume", "client", "call"}

-----------------------------------------------------------------------------
(* The signing key: tokenKeyMaterial and generateTokenKey.                   *)

\* What a Get returns: the entry, or an error, which tokenKeyMaterial takes for
\* an empty entry.
Get(entry) == {entry, 0}

\* A mistake: the access token first.
AccessTokenFirst(s) == s.access

\* The entry tokenKeyMaterial reads first.
FirstEntry(s) == s.refresh

-----------------------------------------------------------------------------
(* Expiry and the memory of used nonces: consumeFinalizeNonce.               *)

\* A mistake: the lifetime subtracted.
ExpiryBefore(now) == now - TTL

\* The expiry a prepare puts in the token.
ExpiryFrom(now) == now + TTL

Expired(exp, now) == now > exp

\* A mistake: entries forgotten one second early.
LiveEarly(entries, now) == {e \in entries : e.exp > now + 1}

\* The entries the cleanup keeps.
Live(entries, now) == {e \in entries : e.exp > now}

Remembers(entries, n) == \E e \in entries : e.nonce = n

\* A mistake: the token's own expiry, even when it has passed.
NonceExpiryAsGiven(exp, now) == exp

\* How long a nonce accepted now is remembered.
NonceExpiry(exp, now) == IF exp <= now THEN now + TTL ELSE exp

-----------------------------------------------------------------------------
(* Digests and the server's answers.                                         *)

\* A mistake: the artifact digest before the file digest.
VerifyPackDigest(file, pack) == IF pack = NoDigest THEN file ELSE pack

\* PullPrepare signs file_digest, or pack_digest when there is none.
VerifyDigest(file, pack) == IF file = NoDigest THEN pack ELSE file

\* PullFinalize's checks on an accepted token.
DigestMatches(r, t) == r.digest # NoDigest /\ r.digest = t.digest

\* A mistake: "already consumed" taken for success.
SucceededOrConflict(reply) == reply \in {"consumed", "conflict"}

Succeeded(reply) == reply = "consumed"

-----------------------------------------------------------------------------
TypeOK ==
  /\ clock \in Nat
  /\ env \in [Procs -> EnvSources \cup {"none"}]
  /\ session \in Sessions
  /\ fresh \in Nat
  /\ epoch \in Nat
  /\ pc \in [Procs -> {"new", "deriving", "idle", "prepare", "gone"} \cup Finalizing]
  /\ key \in [Procs -> Keys]
  /\ born \in [Procs -> Nat]
  /\ astray \in [Procs -> BOOLEAN]
  /\ used \in [Procs -> SUBSET NonceEntries]
  /\ req \in [Procs -> Requests \cup {NoReq}]
  /\ issued \subseteq Nonces
  /\ ticket \in [issued -> Tickets]
  /\ redeemed \subseteq Nonces
  /\ accepts \in [Procs -> [Nonces -> Nat]]
  /\ confirmed \subseteq [by : Procs, nonce : Nonces, digest : MaybeDigest]

\* The keychain may hold nothing, either token or both: a first run, a session
\* without a refresh token, one whose access token was never written.
Init ==
  /\ clock = 0
  /\ env \in [Procs -> EnvChoices]
  /\ session \in [access : {0, 1}, refresh : {0, 1}]
  /\ fresh = 1
  /\ epoch = 0
  /\ pc = [p \in Procs |-> "new"]
  /\ key = [p \in Procs |-> NoKey]
  /\ born = [p \in Procs |-> 0]
  /\ astray = [p \in Procs |-> FALSE]
  /\ used = [p \in Procs |-> {}]
  /\ req = [p \in Procs |-> NoReq]
  /\ issued = {}
  /\ ticket = [n \in {} |-> NoReq]
  /\ redeemed = {}
  /\ accepts = [p \in Procs |-> [n \in Nonces |-> 0]]
  /\ confirmed = {}

-----------------------------------------------------------------------------
(* The world around the processes.                                           *)

Tick ==
  /\ clock < MaxTime
  /\ clock' = clock + 1
  /\ UNCHANGED <<env, sessionVars, pc, procVars, tokenVars, historyVars>>

\* The session in the keychain is replaced as a whole.
Replace(refresh) ==
  /\ fresh < MaxGen
  /\ fresh' = fresh + 1
  /\ epoch' = epoch + 1
  /\ session' = [access |-> fresh + 1, refresh |-> refresh]

\* A person finishes a browser sign-in in a process of its own; the server may
\* or may not return a refresh token.
SignIn ==
  /\ \/ Replace(fresh + 1)
     \/ Replace(0)
  /\ UNCHANGED <<clock, env, pc, procVars, tokenVars, historyVars>>

-----------------------------------------------------------------------------
(* A process starts and ends.                                                *)

\* p has its key, and serves requests with it until it ends.
KeyIs(p, k) ==
  /\ key' = [key EXCEPT ![p] = k]
  /\ pc' = [pc EXCEPT ![p] = "idle"]

\* NewHandler: the key comes from the environment...
StartWithEnv(p) ==
  /\ pc[p] = "new"
  /\ env[p] \in EnvSources
  /\ KeyIs(p, [src |-> env[p], id |-> 0])
  /\ born' = [born EXCEPT ![p] = epoch]
  /\ UNCHANGED <<clock, env, sessionVars, astray, used, req, tokenVars, historyVars>>

\* ...or from the stored refresh token...
StartWithKeychain(p) ==
  \E got \in Get(FirstEntry(session)) :
    /\ pc[p] = "new"
    /\ env[p] \notin EnvSources
    /\ born' = [born EXCEPT ![p] = epoch]
    /\ astray' = [astray EXCEPT ![p] = got # FirstEntry(session)]
    /\ IF got # 0
       THEN KeyIs(p, [src |-> "refresh_token", id |-> got])
       ELSE pc' = [pc EXCEPT ![p] = "deriving"] /\ UNCHANGED key
    /\ UNCHANGED <<clock, env, sessionVars, used, req, tokenVars, historyVars>>

\* ...or, when that Get gave nothing, from the stored access token.  When this
\* one gives nothing either the key is random.
DeriveFromAccess(p) ==
  \E got \in Get(session.access) :
    /\ pc[p] = "deriving"
    /\ astray' = [astray EXCEPT ![p] = @ \/ got # session.access \/ born[p] # epoch]
    /\ \/ /\ got # 0
          /\ KeyIs(p, [src |-> "stored_access_token", id |-> got])
          /\ UNCHANGED fresh
       \/ /\ got = 0
          /\ fresh < MaxGen
          /\ fresh' = fresh + 1
          /\ KeyIs(p, [src |-> "random", id |-> fresh + 1])
    /\ UNCHANGED <<clock, env, session, epoch, born, used, req, tokenVars, historyVars>>

\* End of input, a crash or a kill, at any point: the memory is lost.
Exit(p) ==
  /\ pc[p] \notin {"new", "gone"}
  /\ pc' = [pc EXCEPT ![p] = "gone"]
  /\ used' = [used EXCEPT ![p] = {}]
  /\ req' = [req EXCEPT ![p] = NoReq]
  /\ UNCHANGED <<clock, env, sessionVars, keyVars, tokenVars, historyVars>>

-----------------------------------------------------------------------------
(* getClient: what authenticating may do to the stored session.              *)

\* storeRefreshedToken: the old refresh token stays unless a new one came back.
Refreshed(s, g, rotated) ==
  [access |-> g, refresh |-> IF rotated THEN g ELSE s.refresh]

\* GetToken succeeds.  An access token or an OIDC token from the environment
\* leaves the keychain alone; client credentials may fetch and cache a token;
\* otherwise the stored token is used, or refreshed when it has expired.
Authenticate(p) ==
  \/ /\ env[p] # "none"
     /\ UNCHANGED sessionVars
  \/ /\ env[p] = "client_credentials"
     /\ Replace(0)
  \/ /\ env[p] = "none"
     /\ session.access # 0
     /\ UNCHANGED sessionVars
  \/ /\ env[p] = "none"
     /\ session.access # 0
     /\ session.refresh # 0
     /\ fresh < MaxGen
     /\ fresh' = fresh + 1
     /\ \E rotated \in {FALSE, Rotates} : session' = Refreshed(session, fresh + 1, rotated)
     /\ UNCHANGED epoch

-----------------------------------------------------------------------------
(* push.prepare and pull.prepare.                                            *)

PrepareAuth(p) ==
  /\ pc[p] = "idle"
  /\ Authenticate(p)
  /\ pc' = [pc EXCEPT ![p] = "prepare"]
  /\ UNCHANGED <<clock, env, procVars, tokenVars, historyVars>>

\* The server calls of the prepare succeeded: a token is signed.
Issue(p, n, kind, file, digest, fin) ==
  /\ pc[p] = "prepare"
  /\ n \notin issued
  /\ issued' = issued \cup {n}
  /\ ticket' = [m \in issued \cup {n} |->
       IF m = n THEN [kind |-> kind, key |-> key[p], exp |-> ExpiryFrom(clock),
                      digest |-> digest, fin |-> fin, file |-> file, by |-> p]
       ELSE ticket[m]]
  /\ pc' = [pc EXCEPT ![p] = "idle"]
  /\ UNCHANGED <<clock, env, sessionVars, procVars, historyVars>>

\* CreatePack answered; an existing pack may come without a finalize token.
PushPrepare(p, n) ==
  \E file \in MaybeDigest, fin \in BOOLEAN : Issue(p, n, "push", file, file, fin)

\* The release, its pack and a finalize intent were found.
PullPrepare(p, n) ==
  \E file, pack \in MaybeDigest, fin \in BOOLEAN :
    Issue(p, n, "pull", file, VerifyDigest(file, pack), fin)

\* One of the prepare's server calls failed.
PrepareFails(p) ==
  /\ pc[p] = "prepare"
  /\ pc' = [pc EXCEPT ![p] = "idle"]
  /\ UNCHANGED <<clock, env, sessionVars, procVars, tokenVars, historyVars>>

-----------------------------------------------------------------------------
(* push.finalize and pull.finalize, with any token signed so far: the two    *)
(* payloads share their fields, so either handler decodes either token.      *)

Receive(p, op, n, d) ==
  /\ pc[p] = "idle"
  /\ n \in issued
  /\ req' = [req EXCEPT ![p] = [op |-> op, nonce |-> n, digest |-> d]]
  /\ pc' = [pc EXCEPT ![p] = "check"]
  /\ UNCHANGED <<clock, env, keyVars, used, tokenVars, historyVars>>

\* PushFinalize authenticates before it looks at the token...
PushFinalize(p, n) ==
  Receive(p, "push", n, NoDigest) /\ Authenticate(p)

\* ...and PullFinalize after.
PullFinalize(p, n, d) ==
  Receive(p, "pull", n, d) /\ UNCHANGED sessionVars

\* decodeSignedToken and the expiry check.
Admissible(p) ==
  LET t == ticket[req[p].nonce] IN t.key = key[p] /\ ~Expired(t.exp, clock)

\* The request ends; what the process answers does not matter to its state.
Finish(p) ==
  /\ pc' = [pc EXCEPT ![p] = "idle"]
  /\ req' = [req EXCEPT ![p] = NoReq]

RefuseToken(p) ==
  /\ pc[p] = "check"
  /\ ~Admissible(p)
  /\ Finish(p)
  /\ UNCHANGED <<clock, env, sessionVars, keyVars, used, tokenVars, historyVars>>

AdmitToken(p) ==
  /\ pc[p] = "check"
  /\ Admissible(p)
  /\ pc' = [pc EXCEPT ![p] = "consume"]
  /\ UNCHANGED <<clock, env, sessionVars, procVars, tokenVars, historyVars>>

\* consumeFinalizeNonce refuses: the nonce is still remembered.
RejectReplay(p) ==
  LET live == Live(used[p], clock) IN
  /\ pc[p] = "consume"
  /\ Remembers(live, req[p].nonce)
  /\ used' = [used EXCEPT ![p] = live]
  /\ Finish(p)
  /\ UNCHANGED <<clock, env, sessionVars, keyVars, tokenVars, historyVars>>

\* consumeFinalizeNonce records the nonce.
Record(p) ==
  LET n    == req[p].nonce
      live == Live(used[p], clock)
  IN /\ ~Remembers(live, n)
     /\ used' = [used EXCEPT ![p] =
          live \cup {[nonce |-> n, exp |-> NonceExpiry(ticket[n].exp, clock)]}]
     /\ accepts' = [accepts EXCEPT ![p][n] = @ + 1]
     /\ UNCHANGED <<clock, env, sessionVars, keyVars, tokenVars, redeemed, confirmed>>

AcceptPush(p) ==
  /\ pc[p] = "consume"
  /\ req[p].op = "push"
  /\ Record(p)
  /\ pc' = [pc EXCEPT ![p] = "call"]
  /\ UNCHANGED req

\* The nonce is spent before the digest and the server's token are checked.
AcceptPull(p) ==
  /\ pc[p] = "consume"
  /\ req[p].op = "pull"
  /\ Record(p)
  /\ LET t == ticket[req[p].nonce] IN
     IF DigestMatches(req[p], t) /\ t.fin
     THEN pc' = [pc EXCEPT ![p] = "client"] /\ UNCHANGED req
     ELSE Finish(p)

PullClient(p) ==
  /\ pc[p] = "client"
  /\ Authenticate(p)
  /\ pc' = [pc EXCEPT ![p] = "call"]
  /\ UNCHANGED <<clock, env, procVars, tokenVars, historyVars>>

PullClientFails(p) ==
  /\ pc[p] = "client"
  /\ Finish(p)
  /\ UNCHANGED <<clock, env, sessionVars, keyVars, used, tokenVars, historyVars>>

\* The retry loop of push.finalize ends, with a release or an error.
PushAnswered(p) ==
  /\ pc[p] = "call"
  /\ req[p].op = "push"
  /\ Finish(p)
  /\ UNCHANGED <<clock, env, sessionVars, keyVars, used, tokenVars, historyVars>>

\* ConsumeFinalizeIntent.  The server consumes an intent once; the answer may
\* be lost after it did ("lost"), or the call fail before ("error").
PullAnswered(p, reply) ==
  LET n    == req[p].nonce
      open == ticket[n].kind = "pull" /\ n \notin redeemed
  IN /\ pc[p] = "call"
     /\ req[p].op = "pull"
     /\ reply \in {"consumed", "lost"} => open
     /\ reply = "conflict" => n \in redeemed
     /\ redeemed' = IF reply \in {"consumed", "lost"} THEN redeemed \cup {n} ELSE redeemed
     /\ confirmed' = IF Succeeded(reply)
          THEN confirmed \cup {[by |-> p, nonce |-> n, digest |-> req[p].digest]}
          ELSE confirmed
     /\ Finish(p)
     /\ UNCHANGED <<clock, env, sessionVars, keyVars, used, tokenVars, accepts>>

-----------------------------------------------------------------------------
Next ==
  \/ Tick
  \/ SignIn
  \/ \E p \in Procs :
       \/ StartWithEnv(p) \/ StartWithKeychain(p) \/ DeriveFromAccess(p)
       \/ Exit(p)
       \/ PrepareAuth(p) \/ PrepareFails(p)
       \/ \E n \in Nonces : PushPrepare(p, n) \/ PullPrepare(p, n)
       \/ \E n \in Nonces : PushFinalize(p, n)
       \/ \E n \in Nonces, d \in MaybeDigest : PullFinalize(p, n, d)
       \/ RefuseToken(p) \/ AdmitToken(p)
       \/ RejectReplay(p) \/ AcceptPush(p) \/ AcceptPull(p)
       \/ PullClient(p) \/ PullClientFails(p)
       \/ PushAnswered(p)
       \/ \E reply \in {"consumed", "lost", "conflict", "error"} : PullAnswered(p, reply)

Spec == Init /\ [][Next]_vars

-----------------------------------------------------------------------------
(* Properties.                                                               *)

\* While a token has not reached its expiry, one process accepts its nonce at
\* most once, whatever it served in between (consumeFinalizeNonce).
NoReplayBeforeExpiry ==
  \A p \in Procs, n \in issued :
    accepts[p][n] >= 2 => clock >= ticket[n].exp

\* A nonce accepted at its expiry second or later is remembered for a further
\* TTL, so a third acceptance takes a process that stalls that long between
\* the expiry check and consumeFinalizeNonce.
ThirdUseNeedsStall ==
  \A p \in Procs, n \in issued :
    accepts[p][n] >= 3 => clock >= ticket[n].exp + TTL

\* However many processes accept one pull token, and however often an answer is
\* lost and the request retried, pull.finalize reports one confirmation.
ConfirmedOnce ==
  \A c1, c2 \in confirmed : c1.nonce = c2.nonce => c1 = c2

\* Tokens, processes and lost answers put aside, the exchange is the one of
\* DownloadConfirmation: a download is confirmed by the step that consumes its
\* intent and never afterwards.
Downloads == INSTANCE DownloadConfirmation WITH
  offered  <- {n \in issued : ticket[n].kind = "pull"},
  consumed <- redeemed

ConfirmsAsPromised == Downloads!Spec

\* A confirmation is for the digest of the file when the server named one: a
\* caller that verified another digest is not told its download is confirmed.
ConfirmedFileDigest ==
  \A c \in confirmed :
    /\ c.nonce \in issued
    /\ c.digest # NoDigest
    /\ ticket[c.nonce].file # NoDigest => c.digest = ticket[c.nonce].file

HasKey(p) == key[p] # NoKey

\* The session tells p's key: no Get failed and no sign-in came while p derived
\* it, there was something to derive it from, and it does not hang on a refresh
\* token the server exchanges for others.
FromSession(p) ==
  /\ ~astray[p]
  /\ key[p].src # "random"
  /\ Rotates = FALSE \/ key[p].src # "refresh_token"

\* A token prepared in one process verifies in another that has the same
\* environment, however often the session was refreshed in between: always when
\* the credentials come from the environment, and otherwise when both derived
\* their keys from one session and no Get failed meanwhile (tokenKeyMaterial).
PreparedTokenVerifies ==
  \A n \in issued, q \in Procs :
    LET p == ticket[n].by IN
    HasKey(q) /\ env[q] = env[p] =>
      \/ ticket[n].key = key[q]
      \/ env[p] = "none" /\ (born[q] # born[p] \/ ~FromSession(p) \/ astray[q])

\* What the README says of a nonce, for one process: it is used once.
SingleUseInProcess ==
  \A p \in Procs, n \in Nonces : accepts[p][n] <= 1
=============================================================================
