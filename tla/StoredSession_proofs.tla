-------------------------- MODULE StoredSession_proofs --------------------------
(***************************************************************************)
(* Proofs about StoredSession, for any number of processes, clients and     *)
(* tokens.  Types hold whatever overlaps and fails; the rest is about       *)
(* commands that take turns (SSRace shows what happens to commands that     *)
(* overlap), each part with the failures it bears.                          *)
(***************************************************************************)
EXTENDS StoredSession, TLAPS

\* What a command has in hand, step by step.
CommandOK(p) ==
  /\ pc[p] \in {"label", "ask_client"} \cup Caching => who[p] \in Clients
  /\ pc[p] \in {"token", "expiry", "refresh", "ask_refresh"} \cup Refreshing =>
       who[p] \in Clients \cup {"person"}
  /\ pc[p] = "ask_refresh" => ref[p] # 0
  /\ pc[p] \in {"expiry", "refresh", "ask_refresh", "done", "signed_in"}
              \cup Refreshing \cup Caching \cup SigningIn => tok[p] \in Tokens
  /\ pc[p] \in SigningIn \cup {"signed_in"} => tok[p].owner \in 1..issued

TypeInv ==
  /\ TypeOK
  /\ signedIn <= issued
  /\ \A p \in Procs : CommandOK(p)

\* The entries belong together.
Agreed ==
  /\ keychain.client # NoClient =>
       keychain.access # NoToken /\ keychain.access.owner = keychain.client
  /\ keychain.refresh # 0 =>
       /\ keychain.client = NoClient
       /\ keychain.access # NoToken /\ keychain.access.owner = keychain.refresh
  /\ keychain.access # NoToken /\ keychain.access.lasts =>
       keychain.expiry = keychain.access.serial

\* What a command that runs alone knows of the entries and has written of them.
Reads(p) ==
  /\ pc[p] \in Reading \cup Asking \cup Ended => Agreed
  /\ pc[p] \in {"token", "expiry", "refresh"} /\ who[p] \in Clients => keychain.client = who[p]
  /\ pc[p] \in {"expiry", "refresh", "done", "signed_in"} => tok[p] = keychain.access
  /\ pc[p] = "done" /\ who[p] \in Clients => tok[p].owner = who[p]
  /\ pc[p] = "ask_refresh" => who[p] = "person" /\ ref[p] = keychain.refresh

Refreshes(p) ==
  /\ pc[p] \in Refreshing =>
       /\ who[p] = "person" /\ keychain.client = NoClient
       /\ keychain.refresh = tok[p].owner /\ ref[p] \in {0, tok[p].owner}
  /\ pc[p] \in {"refreshed_refresh", "refreshed_expiry"} => keychain.access = tok[p]
  /\ pc[p] = "refreshed_refresh" => ref[p] # 0

Caches(p) ==
  /\ pc[p] \in Caching => tok[p].owner = who[p]
  /\ pc[p] \in Caching \ {"cache_token"} => keychain.access = tok[p]
  /\ pc[p] \in {"cache_label", "cache_refresh"} /\ tok[p].lasts =>
       keychain.expiry = tok[p].serial
  /\ pc[p] = "cache_refresh" => keychain.client = who[p]

SignsIn(p) ==
  /\ pc[p] \in SigningIn => ref[p] \in {0, tok[p].owner}
  /\ pc[p] \in SigningIn \ {"signin_label"} => keychain.client = NoClient
  /\ pc[p] \in {"signin_token", "signin_expiry"} => keychain.refresh = ref[p]
  /\ pc[p] = "signin_expiry" => keychain.access = tok[p]

AloneOK(p) ==
  /\ Reads(p) /\ Refreshes(p) /\ Caches(p) /\ SignsIn(p)

SerialInv ==
  /\ \A p, q \in Procs : pc[p] # "idle" /\ pc[q] # "idle" => p = q
  /\ Quiet => Agreed
  /\ \A p \in Procs : pc[p] # "idle" => AloneOK(p)

-----------------------------------------------------------------------------
(* Types.                                                                    *)

PCs == {"idle"} \cup Reading \cup Asking \cup Refreshing \cup Caching \cup SigningIn \cup Ended

\* One process moved on; the others' commands are as they were.
LEMMA OthersOK ==
  ASSUME TypeInv, NEW p \in Procs,
         TypeOK', signedIn' <= issued', issued' >= issued,
         \A q \in Procs \ {p} :
           pc'[q] = pc[q] /\ who'[q] = who[q] /\ tok'[q] = tok[q] /\ ref'[q] = ref[q],
         CommandOK(p)'
  PROVE  TypeInv'
<1>1. issued \in Int /\ issued' \in Int
  BY DEF TypeInv, TypeOK
<1>2. ASSUME NEW q \in Procs \ {p}
      PROVE  CommandOK(q)'
  BY <1>1 DEF TypeInv, CommandOK
<1> QED
  BY <1>2 DEF TypeInv

LEMMA GotoStep ==
  ASSUME TypeInv, NEW p \in Procs, NEW next \in PCs, Goto(p, next),
         UNCHANGED <<keychain, issued, expired, who, tok, ref, signedIn, since>>
  PROVE  /\ TypeOK' /\ signedIn' <= issued' /\ issued' >= issued
         /\ pc'[p] = next
         /\ \A q \in Procs \ {p} : pc'[q] = pc[q]
<1>1. pc' = [pc EXCEPT ![p] = next]
  BY DEF Goto
<1>2. pc \in [Procs -> PCs] /\ pc' \in [Procs -> PCs]
  BY <1>1 DEF TypeInv, TypeOK, PCs
<1> QED
  BY <1>1, <1>2 DEF TypeInv, TypeOK, PCs

\* A Get that fails moves on.
LEMMA GetFailsStep ==
  ASSUME TypeInv, NEW p \in Procs, NEW next \in PCs, GetFails(p, next)
  PROVE  /\ Faults # {}
         /\ Goto(p, next)
         /\ UNCHANGED <<keychain, issued, expired, who, tok, ref, signedIn, since>>
BY DEF GetFails

LEMMA NoStoredIs ==
  ASSUME TypeInv, NEW p \in Procs
  PROVE  /\ NoStored(p) \in PCs
         /\ NoStored(p) = "denied" \/ (NoStored(p) = "ask_client" /\ who[p] # "person")
BY DEF NoStored, PCs, Ended, Asking

LEMMA TypeInvInit == Init => TypeInv
BY SessionAssumption
   DEF Init, TypeInv, TypeOK, Keychains, CommandOK, Refreshing, Caching, SigningIn

LEMMA TypeStart ==
  ASSUME TypeInv, NEW p \in Procs, NEW w \in Clients \cup {"person", "signin"}, Start(p, w)
  PROVE  TypeInv'
<1> DEFINE next == CASE w = "person" -> "token"
                     [] w = "signin" -> "ask_signin"
                     [] OTHER        -> "label"
<1>1. /\ w = "person" => next = "token"
      /\ w = "signin" => next = "ask_signin"
      /\ w \in Clients => next = "label"
  BY SessionAssumption
<1>2. /\ pc' = [pc EXCEPT ![p] = next] /\ who' = [who EXCEPT ![p] = w]
      /\ since' = [since EXCEPT ![p] = signedIn]
      /\ UNCHANGED <<keychain, issued, expired, tok, ref, signedIn>>
  BY DEF Start, Goto
<1> HIDE DEF next
<1>3. next \in {"token", "ask_signin", "label"}
  BY <1>1
<1>4. pc' \in [Procs -> PCs] /\ who' \in [Procs -> Clients \cup {"person", "signin"}]
      /\ since' \in [Procs -> 0..MaxTokens]
  BY <1>2, <1>3 DEF TypeInv, TypeOK, PCs, Reading, Asking
<1>5. TypeOK'
  BY <1>2, <1>4 DEF TypeInv, TypeOK, PCs
<1>6. pc'[p] = next /\ who'[p] = w
  BY <1>2 DEF TypeInv, TypeOK
<1>7. CommandOK(p)'
  BY <1>1, <1>3, <1>6 DEF CommandOK, Refreshing, Caching, SigningIn
<1> QED
  BY <1>2, <1>5, <1>7, OthersOK DEF TypeInv, TypeOK

LEMMA TypeForget ==
  ASSUME TypeInv, NEW p \in Procs, Finish(p) \/ Crash(p)
  PROVE  TypeInv'
<1>1. /\ pc' = [pc EXCEPT ![p] = "idle"] /\ who' = [who EXCEPT ![p] = "person"]
      /\ tok' = [tok EXCEPT ![p] = NoToken] /\ ref' = [ref EXCEPT ![p] = 0]
      /\ since' = [since EXCEPT ![p] = 0]
      /\ UNCHANGED <<keychain, issued, expired>>
  BY DEF Finish, Crash, Forget, Goto
<1>2. signedIn' \in 0..MaxTokens /\ signedIn' <= issued
  <2>1. UNCHANGED signedIn \/ (pc[p] = "signed_in" /\ signedIn' = tok[p].owner)
    BY DEF Finish, Crash
  <2>2. pc[p] = "signed_in" => tok[p].owner \in 1..issued
    BY DEF TypeInv, CommandOK
  <2> QED
    BY <2>1, <2>2, SessionAssumption DEF TypeInv, TypeOK
<1>3. TypeOK'
  BY <1>1, <1>2, SessionAssumption DEF TypeInv, TypeOK
<1>4. pc'[p] = "idle"
  BY <1>1 DEF TypeInv, TypeOK
<1>5. CommandOK(p)'
  BY <1>4 DEF CommandOK, Refreshing, Caching, SigningIn
<1> QED
  BY <1>1, <1>2, <1>3, <1>5, OthersOK DEF TypeInv, TypeOK

\* A command goes on, or ends, without an entry it looked for.
LEMMA TypeGoto ==
  ASSUME TypeInv, NEW p \in Procs, NEW next \in PCs, Goto(p, next),
         UNCHANGED <<keychain, issued, expired, who, tok, ref, signedIn, since>>,
         \/ next = "denied"
         \/ next = "ask_client" /\ who[p] \in Clients
         \/ next = "token" /\ who[p] \in Clients
         \/ next \in {"refresh", "done"} /\ pc[p] = "expiry"
         \/ next = "done" /\ pc[p] = "refreshed_expiry"
         \/ next = "cache_label" /\ pc[p] = "cache_expiry"
  PROVE  TypeInv'
<1>1. /\ TypeOK' /\ signedIn' <= issued' /\ issued' >= issued
      /\ pc'[p] = next
      /\ \A q \in Procs \ {p} : pc'[q] = pc[q]
  BY GotoStep
<1>2. CommandOK(p)
  BY DEF TypeInv
<1>3. CommandOK(p)'
  BY <1>1, <1>2 DEF CommandOK, Refreshing, Caching, SigningIn
<1> QED
  BY <1>1, <1>3, OthersOK

LEMMA TypeRead ==
  ASSUME TypeInv, NEW p \in Procs, ReadLabel(p) \/ ReadToken(p) \/ ReadExpiry(p) \/ ReadRefresh(p)
  PROVE  TypeInv'
<1>1. /\ NoStored(p) \in PCs
      /\ pc[p] \in {"token", "refresh"} =>
           NoStored(p) = "denied" \/ (NoStored(p) = "ask_client" /\ who[p] \in Clients)
      /\ pc[p] = "label" => who[p] \in Clients
      /\ {"token", "ask_client", "expiry", "refresh", "done", "denied"} \subseteq PCs
  BY NoStoredIs DEF TypeInv, CommandOK, PCs, Reading, Asking, Ended
<1>2. ASSUME NEW next \in PCs, GetFails(p, next) \/
               (Goto(p, next) /\ UNCHANGED <<keychain, issued, expired, who, tok, ref, signedIn, since>>),
             \/ pc[p] = "label" /\ next \in {"token", "ask_client"}
             \/ pc[p] \in {"token", "refresh"} /\ next = NoStored(p)
             \/ pc[p] = "expiry" /\ next \in {"refresh", "done"}
      PROVE  TypeInv'
  BY <1>1, <1>2, TypeGoto, GetFailsStep
<1>3. CASE ReadLabel(p)
  <2>1. PICK next \in {"token", "ask_client"} : GetFails(p, next) \/
          (Goto(p, next) /\ UNCHANGED <<keychain, issued, expired, who, tok, ref, signedIn, since>>)
    BY <1>3 DEF ReadLabel
  <2> QED
    BY <1>1, <1>2, <1>3, <2>1 DEF ReadLabel
<1>4. CASE ReadExpiry(p)
  <2>1. PICK next \in {"refresh", "done"} : GetFails(p, next) \/
          (Goto(p, next) /\ UNCHANGED <<keychain, issued, expired, who, tok, ref, signedIn, since>>)
    BY <1>4 DEF ReadExpiry
  <2> QED
    BY <1>1, <1>2, <1>4, <2>1 DEF ReadExpiry
<1>5. CASE ReadToken(p)
  <2>1. CASE GetFails(p, NoStored(p))
    BY <1>1, <1>2, <1>5, <2>1 DEF ReadToken
  <2>2. CASE ~GetFails(p, NoStored(p))
    <3> DEFINE next == IF keychain.access = NoToken THEN NoStored(p) ELSE "expiry"
    <3>1. /\ tok' = [tok EXCEPT ![p] = keychain.access] /\ pc' = [pc EXCEPT ![p] = next]
          /\ pc[p] = "token"
          /\ UNCHANGED <<keychain, issued, expired, who, ref, signedIn, since>>
      BY <1>5, <2>2 DEF ReadToken, Goto
    <3>2. next \in PCs /\ keychain.access \in Tokens \cup {NoToken}
      BY <1>1 DEF TypeInv, TypeOK, Keychains
    <3>3. \/ next = "denied"
          \/ next = "ask_client" /\ who[p] \in Clients
          \/ next = "expiry" /\ keychain.access \in Tokens
      BY <1>1, <3>1, <3>2
    <3> HIDE DEF next
    <3>4. TypeOK'
      BY <3>1, <3>2 DEF TypeInv, TypeOK, PCs
    <3>5. pc'[p] = next /\ tok'[p] = keychain.access
      BY <3>1 DEF TypeInv, TypeOK
    <3>6. CommandOK(p)'
      BY <3>1, <3>3, <3>5 DEF TypeInv, CommandOK, Refreshing, Caching, SigningIn
    <3> QED
      BY <3>1, <3>4, <3>6, OthersOK DEF TypeInv, TypeOK
  <2> QED
    BY <2>1, <2>2
<1>6. CASE ReadRefresh(p)
  <2>1. CASE GetFails(p, NoStored(p))
    BY <1>1, <1>2, <1>6, <2>1 DEF ReadRefresh
  <2>2. CASE ~GetFails(p, NoStored(p))
    <3> DEFINE next == IF keychain.refresh = 0 THEN NoStored(p) ELSE "ask_refresh"
    <3>1. /\ ref' = [ref EXCEPT ![p] = keychain.refresh] /\ pc' = [pc EXCEPT ![p] = next]
          /\ pc[p] = "refresh"
          /\ UNCHANGED <<keychain, issued, expired, who, tok, signedIn, since>>
      BY <1>6, <2>2 DEF ReadRefresh, Goto
    <3>2. next \in PCs /\ keychain.refresh \in 0..MaxTokens
      BY <1>1 DEF TypeInv, TypeOK, Keychains, PCs, Asking
    <3>3. \/ next = "denied"
          \/ next = "ask_client" /\ who[p] \in Clients
          \/ next = "ask_refresh" /\ keychain.refresh # 0
      BY <1>1, <3>1
    <3> HIDE DEF next
    <3>4. TypeOK'
      BY <3>1, <3>2 DEF TypeInv, TypeOK, PCs
    <3>5. pc'[p] = next /\ ref'[p] = keychain.refresh
      BY <3>1 DEF TypeInv, TypeOK
    <3>6. CommandOK(p)'
      BY <3>1, <3>3, <3>5 DEF TypeInv, CommandOK, Refreshing, Caching, SigningIn
    <3> QED
      BY <3>1, <3>4, <3>6, OthersOK DEF TypeInv, TypeOK
  <2> QED
    BY <2>1, <2>2
<1> QED
  BY <1>3, <1>4, <1>5, <1>6

\* A token the server grants.
LEMMA GrantStep ==
  ASSUME TypeInv, NEW p \in Procs, NEW owner \in Clients \cup 1..MaxTokens, NEW next \in PCs,
         Grant(p, owner, next), ref' \in [Procs -> 0..MaxTokens],
         UNCHANGED <<keychain, expired, who, signedIn, since>>
  PROVE  /\ TypeOK' /\ signedIn' <= issued' /\ issued' >= issued
         /\ issued' = issued + 1 /\ issued' \in 1..MaxTokens
         /\ pc'[p] = next /\ tok'[p] \in Tokens /\ tok'[p].owner = owner
         /\ \A q \in Procs \ {p} : pc'[q] = pc[q] /\ tok'[q] = tok[q]
<1>1. PICK lasts \in Lifetimes :
        tok' = [tok EXCEPT ![p] = [owner |-> owner, serial |-> issued + 1, lasts |-> lasts]]
  BY DEF Grant
<1>2. /\ issued < MaxTokens /\ issued' = issued + 1 /\ pc' = [pc EXCEPT ![p] = next]
      /\ issued \in 0..MaxTokens /\ MaxTokens \in Nat /\ issued' \in 1..MaxTokens
  BY SessionAssumption DEF Grant, Goto, TypeInv, TypeOK
<1>3. [owner |-> owner, serial |-> issued + 1, lasts |-> lasts] \in Tokens
  BY <1>2, SessionAssumption DEF Tokens
<1>4. tok' \in [Procs -> Tokens \cup {NoToken}] /\ tok'[p] \in Tokens /\ tok'[p].owner = owner
  BY <1>1, <1>3 DEF TypeInv, TypeOK
<1>5. expired' \subseteq 1..issued'
  BY <1>2 DEF TypeInv, TypeOK
<1>6. pc' \in [Procs -> PCs] /\ pc'[p] = next
  BY <1>2 DEF TypeInv, TypeOK, PCs
<1>7. TypeOK'
  BY <1>2, <1>4, <1>5, <1>6 DEF TypeInv, TypeOK, PCs
<1> QED
  BY <1>1, <1>2, <1>4, <1>6, <1>7 DEF TypeInv, TypeOK

LEMMA TypeAsk ==
  ASSUME TypeInv, NEW p \in Procs, AskRefresh(p) \/ AskClient(p) \/ AskSignIn(p)
  PROVE  TypeInv'
<1>1. /\ {"refreshed_token", "cache_token", "signin_label", "denied"} \subseteq PCs
      /\ issued \in 0..MaxTokens /\ MaxTokens \in Nat
  BY SessionAssumption DEF PCs, Refreshing, Caching, SigningIn, Ended, TypeInv, TypeOK
<1>2. CASE AskRefresh(p)
  <2>1. /\ pc[p] = "ask_refresh" /\ who[p] \in Clients \cup {"person"}
        /\ ref[p] \in 1..MaxTokens
        /\ UNCHANGED <<keychain, expired, who, signedIn, since>>
    BY <1>1, <1>2 DEF AskRefresh, TypeInv, CommandOK, TypeOK
  <2>2. CASE Goto(p, NoStored(p)) /\ UNCHANGED <<issued, tok, ref>>
    BY <2>1, <2>2, NoStoredIs, TypeGoto
  <2>3. CASE Grant(p, ref[p], "refreshed_token")
              /\ \E rotated \in BOOLEAN : ref' = IF rotated THEN ref ELSE [ref EXCEPT ![p] = 0]
    <3>1. ref' \in [Procs -> 0..MaxTokens] /\ \A q \in Procs \ {p} : ref'[q] = ref[q]
      BY <1>1, <2>3 DEF TypeInv, TypeOK
    <3>2. /\ TypeOK' /\ signedIn' <= issued' /\ issued' >= issued
          /\ pc'[p] = "refreshed_token" /\ tok'[p] \in Tokens
          /\ \A q \in Procs \ {p} : pc'[q] = pc[q] /\ tok'[q] = tok[q]
      BY <1>1, <2>1, <2>3, <3>1, GrantStep
    <3>3. CommandOK(p)'
      BY <2>1, <3>2 DEF CommandOK, Refreshing, Caching, SigningIn
    <3> QED
      BY <2>1, <3>1, <3>2, <3>3, OthersOK
  <2> QED
    BY <1>2, <2>2, <2>3 DEF AskRefresh
<1>3. CASE AskClient(p)
  <2>1. /\ pc[p] = "ask_client" /\ who[p] \in Clients
        /\ UNCHANGED <<keychain, expired, who, ref, signedIn, since>>
    BY <1>3 DEF AskClient, TypeInv, CommandOK
  <2>2. CASE Goto(p, "denied") /\ UNCHANGED <<issued, tok>>
    BY <1>1, <2>1, <2>2, TypeGoto
  <2>3. CASE Grant(p, who[p], "cache_token")
    <3>1. ref' \in [Procs -> 0..MaxTokens]
      BY <2>1 DEF TypeInv, TypeOK
    <3>2. /\ TypeOK' /\ signedIn' <= issued' /\ issued' >= issued
          /\ pc'[p] = "cache_token" /\ tok'[p] \in Tokens
          /\ \A q \in Procs \ {p} : pc'[q] = pc[q] /\ tok'[q] = tok[q]
      BY <1>1, <2>1, <2>3, <3>1, GrantStep
    <3>3. CommandOK(p)'
      BY <2>1, <3>2 DEF CommandOK, Refreshing, Caching, SigningIn
    <3> QED
      BY <2>1, <3>2, <3>3, OthersOK
  <2> QED
    BY <1>3, <2>2, <2>3 DEF AskClient
<1>4. CASE AskSignIn(p)
  <2>1. UNCHANGED <<keychain, expired, who, signedIn, since>>
    BY <1>4 DEF AskSignIn
  <2>2. CASE Goto(p, "denied") /\ UNCHANGED <<issued, tok, ref>>
    BY <1>1, <2>1, <2>2, TypeGoto
  <2>3. CASE /\ Grant(p, issued + 1, "signin_label")
             /\ \E has \in {FALSE, RefreshTokens} :
                  ref' = [ref EXCEPT ![p] = IF has THEN issued + 1 ELSE 0]
    <3>1. issued + 1 \in 1..MaxTokens
      BY <1>1, <2>3 DEF Grant
    <3>2. ref' \in [Procs -> 0..MaxTokens] /\ \A q \in Procs \ {p} : ref'[q] = ref[q]
      BY <1>1, <2>3, <3>1 DEF TypeInv, TypeOK
    <3>3. /\ TypeOK' /\ signedIn' <= issued' /\ issued' >= issued
          /\ pc'[p] = "signin_label" /\ tok'[p] \in Tokens /\ tok'[p].owner = issued'
          /\ issued' \in 1..MaxTokens
          /\ \A q \in Procs \ {p} : pc'[q] = pc[q] /\ tok'[q] = tok[q]
      BY <1>1, <2>1, <2>3, <3>1, <3>2, GrantStep
    <3>4. CommandOK(p)'
      BY <3>3 DEF CommandOK, Refreshing, Caching, SigningIn
    <3> QED
      BY <2>1, <3>2, <3>3, <3>4, OthersOK
  <2> QED
    BY <1>4, <2>2, <2>3 DEF AskSignIn
<1> QED
  BY <1>2, <1>3, <1>4

LEMMA TypePut ==
  ASSUME TypeInv, NEW p \in Procs,
         \/ StoreRefreshedToken(p) \/ StoreRefreshedRefresh(p) \/ StoreRefreshedExpiry(p)
         \/ CacheToken(p) \/ CacheExpiry(p) \/ CacheLabel(p) \/ CacheRefresh(p)
         \/ SignInClearLabel(p) \/ SignInReplaceRefresh(p) \/ SignInStoreToken(p)
         \/ SignInStoreExpiry(p)
  PROVE  TypeInv'
<1>1. /\ pc[p] \in Refreshing \cup Caching \cup SigningIn
      /\ tok[p] \in Tokens /\ CommandOK(p)
      /\ keychain \in Keychains /\ who[p] \in Clients \cup {"person", "signin"}
      /\ ref[p] \in 0..MaxTokens /\ MaxTokens \in Nat
      /\ NoStored(p) \in PCs
      /\ NoStored(p) # "denied" => NoStored(p) = "ask_client" /\ who[p] # "person"
  BY NoStoredIs, SessionAssumption
     DEF TypeInv, TypeOK, CommandOK, Refreshing, Caching, SigningIn,
         StoreRefreshedToken, StoreRefreshedRefresh, StoreRefreshedExpiry, CacheToken,
         CacheExpiry, CacheLabel, CacheRefresh, SignInClearLabel, SignInReplaceRefresh,
         SignInStoreToken, SignInStoreExpiry
<1>2. /\ Refreshing \cup Caching \cup SigningIn \cup {"signed_in", "done", "denied", "ask_client"}
           \subseteq PCs
      /\ tok[p].serial \in 0..MaxTokens /\ 0 \in 0..MaxTokens
  BY <1>1 DEF PCs, Ended, Asking, Tokens
\* The places a Set may lead to keep what the command has in hand.
<1>3. ASSUME NEW n \in PCs, Goto(p, n), keychain' \in Keychains,
             UNCHANGED <<issued, expired, who, tok, ref, signedIn, since>>,
             \/ n \in {"denied", "done"}
             \/ n = "ask_client" /\ who[p] \in Clients
             \/ n \in Refreshing /\ pc[p] \in Refreshing
             \/ n \in Caching /\ pc[p] \in Caching
             \/ n \in SigningIn \cup {"signed_in"} /\ pc[p] \in SigningIn
      PROVE  TypeInv'
  <2>1. pc' = [pc EXCEPT ![p] = n] /\ pc \in [Procs -> PCs] /\ pc' \in [Procs -> PCs]
    BY <1>3 DEF Goto, TypeInv, TypeOK, PCs
  <2>2. TypeOK' /\ signedIn' <= issued' /\ issued' >= issued
    BY <1>3, <2>1 DEF TypeInv, TypeOK, PCs
  <2>3. pc'[p] = n /\ \A q \in Procs \ {p} : pc'[q] = pc[q]
    BY <2>1
  <2>4. CommandOK(p)'
    BY <1>1, <1>3, <2>3 DEF CommandOK, Refreshing, Caching, SigningIn
  <2> QED
    BY <1>3, <2>2, <2>3, <2>4, OthersOK
<1>4. ASSUME NEW next \in PCs, StoreExpiry(p, next),
             \/ next = "done" /\ pc[p] = "refreshed_expiry"
             \/ next = "cache_label" /\ pc[p] = "cache_expiry"
      PROVE  TypeInv'
  <2>1. Goto(p, next) /\ UNCHANGED <<issued, expired, who, tok, ref, signedIn, since>>
    BY <1>4 DEF StoreExpiry, Put
  <2>2. keychain' \in Keychains
    BY <1>1, <1>2, <1>4 DEF StoreExpiry, Put, Keychains
  <2> QED
    BY <1>3, <1>4, <2>1, <2>2 DEF Caching
<1>5. CASE StoreRefreshedExpiry(p)
  BY <1>2, <1>4, <1>5 DEF StoreRefreshedExpiry
<1>6. CASE CacheExpiry(p)
  BY <1>2, <1>4, <1>6 DEF CacheExpiry, Caching
<1>7. CASE StoreRefreshedToken(p)
  <2> DEFINE next == IF ref[p] = 0 THEN "refreshed_expiry" ELSE "refreshed_refresh"
  <2>1. /\ pc[p] = "refreshed_token" /\ pc[p] \in Refreshing
        /\ next \in Refreshing
        /\ Goto(p, next) \/ Goto(p, NoStored(p))
        /\ UNCHANGED <<issued, expired, who, tok, ref, signedIn, since>>
    BY <1>7 DEF StoreRefreshedToken, Put, Refreshing
  <2>2. NoStored(p) = "denied" \/ (NoStored(p) = "ask_client" /\ who[p] \in Clients)
    BY <1>1, <2>1 DEF CommandOK, Refreshing
  <2>3. keychain' \in Keychains
    BY <1>1, <1>7 DEF StoreRefreshedToken, Put, Keychains
  <2> HIDE DEF next
  <2>4. CASE Goto(p, next)
    BY <1>2, <1>3, <2>1, <2>3, <2>4
  <2>5. CASE Goto(p, NoStored(p))
    BY <1>1, <1>2, <1>3, <2>1, <2>2, <2>3, <2>5
  <2> QED
    BY <2>1, <2>4, <2>5
<1>8. CASE StoreRefreshedRefresh(p)
  <2>1. /\ pc[p] \in Refreshing /\ "refreshed_expiry" \in Refreshing /\ Goto(p, "refreshed_expiry")
        /\ UNCHANGED <<issued, expired, who, tok, ref, signedIn, since>>
    BY <1>8 DEF StoreRefreshedRefresh, Put, Refreshing
  <2>2. keychain' \in Keychains
    BY <1>1, <1>8 DEF StoreRefreshedRefresh, Put, Keychains
  <2> QED
    BY <1>2, <1>3, <2>1, <2>2
<1>9. CASE CacheToken(p) \/ CacheLabel(p) \/ CacheRefresh(p)
  <2>1. /\ pc[p] \in Caching /\ {"cache_expiry", "cache_refresh"} \subseteq Caching
        /\ Goto(p, "cache_expiry") \/ Goto(p, "cache_refresh") \/ Goto(p, "done")
        /\ UNCHANGED <<issued, expired, who, tok, ref, signedIn, since>>
    BY <1>9 DEF CacheToken, CacheLabel, CacheRefresh, Put, Caching
  <2>2. who[p] \in Clients
    BY <1>1, <2>1 DEF CommandOK
  <2>3. keychain' \in Keychains
    BY <1>1, <1>2, <1>9, <2>2 DEF CacheToken, CacheLabel, CacheRefresh, Put, Keychains
  <2> QED
    BY <1>2, <1>3, <2>1, <2>3
<1>10. CASE SignInClearLabel(p) \/ SignInReplaceRefresh(p) \/ SignInStoreToken(p)
            \/ SignInStoreExpiry(p)
  <2>1. /\ pc[p] \in SigningIn
        /\ {"signin_refresh", "signin_token", "signin_expiry"} \subseteq SigningIn
        /\ \/ Goto(p, "signin_refresh") \/ Goto(p, "signin_token") \/ Goto(p, "signin_expiry")
           \/ Goto(p, "denied") \/ Goto(p, "signed_in")
        /\ UNCHANGED <<issued, expired, who, tok, ref, signedIn, since>>
    BY <1>10 DEF SignInClearLabel, SignInReplaceRefresh, SignInStoreToken, SignInStoreExpiry,
                 Put, SigningIn
  <2>2. keychain' \in Keychains
    BY <1>1, <1>2, <1>10 DEF SignInClearLabel, SignInReplaceRefresh, SignInStoreToken,
                             SignInStoreExpiry, Put, Keychains
  <2> QED
    BY <1>2, <1>3, <2>1, <2>2
<1> QED
  BY <1>5, <1>6, <1>7, <1>8, <1>9, <1>10

LEMMA TypeInvNext == TypeInv /\ [Next]_vars => TypeInv'
<1> SUFFICES ASSUME TypeInv, [Next]_vars PROVE TypeInv'
  OBVIOUS
<1>1. CASE UNCHANGED vars
  BY <1>1 DEF vars, TypeInv, TypeOK, CommandOK
<1>2. ASSUME NEW n \in 1..MaxTokens, Expire(n)
      PROVE  TypeInv'
  <2>1. expired' \subseteq 1..issued /\ UNCHANGED <<keychain, issued, pc, who, tok, ref, signedIn, since>>
    BY <1>2 DEF Expire, TypeInv, TypeOK
  <2> QED
    BY <2>1 DEF TypeInv, TypeOK, CommandOK
<1> QED
  BY <1>1, <1>2, TypeStart, TypeForget, TypeRead, TypeAsk, TypePut DEF Next

\* Whatever overlaps and fails, the entries and what a command has in hand stay in
\* their ranges; a refresh is asked for with a refresh token only.
THEOREM SessionTypeCorrect == Spec => []TypeOK
<1>1. TypeInv => TypeOK
  BY DEF TypeInv
<1> QED
  BY <1>1, TypeInvInit, TypeInvNext, PTL DEF Spec

-----------------------------------------------------------------------------
(* Commands that take turns and are not cut short; a Get may fail.           *)

TakingTurns == Serial /\ Faults \subseteq {"get"}

\* The command that runs goes on: nobody else does anything.
LEMMA AloneStep ==
  ASSUME TypeInv, SerialInv, NEW p \in Procs, NEW n \in PCs \ {"idle"},
         pc[p] # "idle", pc' = [pc EXCEPT ![p] = n],
         pc'[p] = n => AloneOK(p)'
  PROVE  SerialInv'
<1>1. pc'[p] = n /\ \A q \in Procs \ {p} : pc'[q] = pc[q] /\ pc[q] = "idle"
  BY DEF TypeInv, TypeOK, SerialInv
<1>2. \A q \in Procs : pc'[q] # "idle" => q = p
  BY <1>1
<1>3. ~Quiet'
  BY <1>1 DEF Quiet
<1> QED
  BY <1>1, <1>2, <1>3 DEF SerialInv

LEMMA SerialInit == Init => SerialInv
BY DEF Init, SerialInv, Agreed

LEMMA TurnStart ==
  ASSUME TypeInv, SerialInv, TakingTurns,
         NEW p \in Procs, NEW w \in Clients \cup {"person", "signin"}, Start(p, w)
  PROVE  SerialInv'
<1> DEFINE next == CASE w = "person" -> "token"
                     [] w = "signin" -> "ask_signin"
                     [] OTHER        -> "label"
<1>1. /\ w = "person" => next = "token"
      /\ w = "signin" => next = "ask_signin"
      /\ w \in Clients => next = "label"
  BY SessionAssumption
<1>2. /\ pc' = [pc EXCEPT ![p] = next] /\ who' = [who EXCEPT ![p] = w]
      /\ since' = [since EXCEPT ![p] = signedIn]
      /\ UNCHANGED <<keychain, issued, expired, tok, ref, signedIn>>
      /\ Quiet
  BY DEF Start, Goto, TakingTurns, Quiet
<1> HIDE DEF next
<1>3. /\ pc'[p] = next /\ who'[p] = w /\ since'[p] = signedIn'
      /\ \A q \in Procs \ {p} : pc'[q] = "idle"
  BY <1>2 DEF TypeInv, TypeOK, Quiet
<1>4. Agreed'
  BY <1>2 DEF SerialInv, Agreed
<1>5. next \in {"token", "ask_signin", "label"} /\ (w \in Clients => next = "label")
  BY <1>1
<1>6. Reads(p)'
  BY <1>3, <1>4, <1>5 DEF Reads
<1>7. Refreshes(p)' /\ Caches(p)' /\ SignsIn(p)'
  BY <1>3, <1>5 DEF Refreshes, Caches, SignsIn, Refreshing, Caching, SigningIn
<1>8. AloneOK(p)'
  BY <1>3, <1>6, <1>7 DEF AloneOK
<1>9. ~Quiet'
  BY <1>3, <1>5 DEF Quiet
<1> QED
  BY <1>3, <1>8, <1>9 DEF SerialInv

LEMMA TurnFinish ==
  ASSUME TypeInv, SerialInv, NEW p \in Procs, Finish(p)
  PROVE  SerialInv'
<1>1. /\ pc' = [pc EXCEPT ![p] = "idle"] /\ UNCHANGED keychain
      /\ pc[p] \in Ended /\ pc[p] # "idle"
  BY DEF Finish, Forget, Goto, Ended
<1>2. \A q \in Procs : pc'[q] = "idle"
  BY <1>1 DEF TypeInv, TypeOK, SerialInv
<1>3. Agreed'
  BY <1>1 DEF SerialInv, AloneOK, Reads, Agreed
<1> QED
  BY <1>2, <1>3 DEF SerialInv

LEMMA TurnRead ==
  ASSUME TypeInv, SerialInv, TakingTurns, NEW p \in Procs,
         ReadLabel(p) \/ ReadToken(p) \/ ReadExpiry(p) \/ ReadRefresh(p)
  PROVE  SerialInv'
<1>1. PICK n : /\ pc' = [pc EXCEPT ![p] = n]
               /\ \/ /\ pc[p] = "label"
                     /\ n = IF LabelMatches(keychain.client, who[p]) THEN "token" ELSE "ask_client"
                     /\ UNCHANGED <<tok, ref>>
                  \/ /\ pc[p] = "label" /\ n = "ask_client" /\ UNCHANGED <<tok, ref>>
                  \/ /\ pc[p] \in {"token", "refresh"} /\ n = NoStored(p)
                     /\ UNCHANGED <<tok, ref>>
                  \/ /\ pc[p] = "expiry" /\ n = "done" /\ UNCHANGED <<tok, ref>>
                  \/ /\ pc[p] = "token"
                     /\ n = IF keychain.access = NoToken THEN NoStored(p) ELSE "expiry"
                     /\ tok' = [tok EXCEPT ![p] = keychain.access] /\ UNCHANGED ref
                  \/ /\ pc[p] = "expiry"
                     /\ n = IF StoredTokenExpired(keychain.expiry) THEN "refresh" ELSE "done"
                     /\ UNCHANGED <<tok, ref>>
                  \/ /\ pc[p] = "refresh"
                     /\ n = IF keychain.refresh = 0 THEN NoStored(p) ELSE "ask_refresh"
                     /\ ref' = [ref EXCEPT ![p] = keychain.refresh] /\ UNCHANGED tok
               /\ UNCHANGED <<keychain, who, signedIn, since>>
  BY DEF ReadLabel, ReadToken, ReadExpiry, ReadRefresh, GetFails, Goto
<1>2. /\ pc[p] # "idle" /\ Agreed
      /\ pc[p] \in {"token", "expiry", "refresh"} /\ who[p] \in Clients => keychain.client = who[p]
      /\ pc[p] \in {"expiry", "refresh"} => tok[p] = keychain.access
      /\ pc[p] \in {"label", "token", "expiry", "refresh"}
      /\ who[p] \in Clients \cup {"person"}
      /\ pc[p] = "label" => who[p] \in Clients
  BY <1>1 DEF SerialInv, AloneOK, Reads, TypeInv, CommandOK, Reading
<1>3. /\ n = "expiry" => tok'[p] = keychain.access
      /\ pc[p] # "token" => tok'[p] = tok[p]
      /\ n = "ask_refresh" => ref'[p] = keychain.refresh
  BY <1>1, NoStoredIs DEF TypeInv, TypeOK
<1>4. n \in {"token", "ask_client", "denied", "expiry", "refresh", "done", "ask_refresh"}
  BY <1>1, NoStoredIs
<1>5. n \in PCs \ {"idle"}
  BY <1>4 DEF PCs, Reading, Asking, Ended
<1>6. Agreed'
  BY <1>1, <1>2 DEF Agreed
<1>7. ASSUME pc'[p] = n PROVE AloneOK(p)'
  <2>1. n \in {"token", "expiry", "refresh"} /\ who'[p] \in Clients => keychain'.client = who'[p]
    BY <1>1, <1>2, NoStoredIs DEF LabelMatches
  <2>2. n \in {"expiry", "refresh", "done", "signed_in"} => tok'[p] = keychain'.access
    BY <1>1, <1>2, <1>3, NoStoredIs
  <2>3. n = "done" /\ who'[p] \in Clients => tok'[p].owner = who'[p]
    <3>1. n = "done" => pc[p] = "expiry"
      BY <1>1, NoStoredIs
    <3>2. pc[p] = "expiry" /\ who[p] \in Clients => keychain.access.owner = who[p]
      BY <1>2, SessionAssumption DEF Agreed
    <3> QED
      BY <1>1, <1>2, <1>3, <3>1, <3>2
  <2>4. n = "ask_refresh" => who'[p] = "person" /\ ref'[p] = keychain'.refresh
    <3>1. n = "ask_refresh" => pc[p] = "refresh" /\ keychain.refresh # 0
      BY <1>1, NoStoredIs
    <3>2. pc[p] = "refresh" /\ keychain.refresh # 0 => who[p] \notin Clients
      BY <1>2, SessionAssumption DEF Agreed
    <3> QED
      BY <1>1, <1>2, <1>3, <3>1, <3>2
  <2>5. Reads(p)'
    BY <1>6, <1>7, <2>1, <2>2, <2>3, <2>4 DEF Reads
  <2>6. Refreshes(p)' /\ Caches(p)' /\ SignsIn(p)'
    BY <1>4, <1>7 DEF Refreshes, Caches, SignsIn, Refreshing, Caching, SigningIn
  <2> QED
    BY <1>1, <1>2, <2>5, <2>6 DEF AloneOK
<1> QED
  BY <1>1, <1>2, <1>5, <1>7, AloneStep

LEMMA TurnAsk ==
  ASSUME TypeInv, SerialInv, NEW p \in Procs, AskRefresh(p) \/ AskClient(p) \/ AskSignIn(p)
  PROVE  SerialInv'
<1>1. PICK n : /\ pc' = [pc EXCEPT ![p] = n]
               /\ \/ n = "denied"
                  \/ pc[p] = "ask_refresh" /\ n = NoStored(p)
                  \/ pc[p] = "ask_refresh" /\ n = "refreshed_token"
                  \/ pc[p] = "ask_client" /\ n = "cache_token"
                  \/ pc[p] = "ask_signin" /\ n = "signin_label"
               /\ UNCHANGED <<keychain, who, signedIn, since>>
  BY DEF AskRefresh, AskClient, AskSignIn, Grant, Goto
<1>2. /\ pc[p] \in Asking /\ pc[p] # "idle" /\ Agreed
      /\ pc[p] = "ask_refresh" => who[p] = "person" /\ ref[p] = keychain.refresh /\ ref[p] # 0
  BY DEF AskRefresh, AskClient, AskSignIn, SerialInv, AloneOK, Reads, TypeInv, CommandOK, Asking
<1>3. /\ n \in {"denied", "ask_client", "refreshed_token", "cache_token", "signin_label"}
      /\ n \in PCs \ {"idle"} /\ pc'[p] = n
      /\ NoStored(p) \in {"denied", "ask_client"}
  BY <1>1, NoStoredIs DEF PCs, Asking, Refreshing, Caching, SigningIn, Ended, TypeInv, TypeOK
<1>4. Agreed'
  BY <1>1, <1>2 DEF Agreed
<1>5. Reads(p)'
  BY <1>3, <1>4 DEF Reads
<1>6. n = "refreshed_token" =>
        /\ who[p] = "person" /\ keychain.client = NoClient
        /\ keychain.refresh = tok'[p].owner /\ ref'[p] \in {0, tok'[p].owner}
  <2> SUFFICES ASSUME n = "refreshed_token" PROVE <1>6!2
    OBVIOUS
  <2>1. AskRefresh(p) /\ pc'[p] # NoStored(p)
    BY <1>1, <1>3, <1>2 DEF AskRefresh, AskClient, AskSignIn
  <2>2. pc' # [pc EXCEPT ![p] = NoStored(p)]
    BY <2>1 DEF TypeInv, TypeOK
  <2>3. /\ Grant(p, ref[p], "refreshed_token")
        /\ ref' = ref \/ ref' = [ref EXCEPT ![p] = 0]
        /\ pc[p] = "ask_refresh"
    BY <2>1, <2>2 DEF AskRefresh, Goto
  <2>4. tok'[p].owner = ref[p] /\ ref'[p] \in {0, ref[p]}
    BY <2>3 DEF Grant, TypeInv, TypeOK
  <2>5. keychain.client = NoClient /\ keychain.access # NoToken /\ keychain.access.owner = ref[p]
    BY <1>2, <2>3 DEF Agreed
  <2>6. ref[p] \notin Clients
    BY SessionAssumption DEF TypeInv, TypeOK
  <2> QED
    BY <1>2, <2>3, <2>4, <2>5, <2>6 DEF Agreed
<1>7. Refreshes(p)'
  BY <1>1, <1>3, <1>6 DEF Refreshes, Refreshing
<1>8. n = "cache_token" => tok'[p].owner = who[p]
  <2> SUFFICES ASSUME n = "cache_token" PROVE <1>8!2
    OBVIOUS
  <2>1. Grant(p, who[p], "cache_token")
    BY <1>1, <1>2, <1>3 DEF AskRefresh, AskClient, AskSignIn, Grant, Goto
  <2> QED
    BY <2>1 DEF Grant, TypeInv, TypeOK
<1>9. Caches(p)'
  BY <1>1, <1>3, <1>8 DEF Caches, Caching
<1>10. n = "signin_label" => ref'[p] \in {0, tok'[p].owner}
  <2> SUFFICES ASSUME n = "signin_label" PROVE <1>10!2
    OBVIOUS
  <2>1. AskSignIn(p) /\ pc' # [pc EXCEPT ![p] = "denied"]
    BY <1>1, <1>2, <1>3 DEF AskRefresh, AskClient, AskSignIn
  <2>2. /\ Grant(p, issued + 1, "signin_label")
        /\ ref' = [ref EXCEPT ![p] = issued + 1] \/ ref' = [ref EXCEPT ![p] = 0]
    BY <2>1 DEF AskSignIn, Goto
  <2>3. tok'[p].owner = issued + 1 /\ ref'[p] \in {0, issued + 1}
    BY <2>2 DEF Grant, TypeInv, TypeOK
  <2> QED
    BY <2>3, SessionAssumption DEF TypeInv, TypeOK
<1>11. SignsIn(p)'
  BY <1>1, <1>3, <1>10 DEF SignsIn, SigningIn
<1> QED
  BY <1>1, <1>2, <1>3, <1>5, <1>7, <1>9, <1>11, AloneStep DEF AloneOK

\* A Set that is not refused.
LEMMA TurnPut ==
  ASSUME TypeInv, SerialInv, TakingTurns, NEW p \in Procs,
         \/ StoreRefreshedToken(p) \/ StoreRefreshedRefresh(p) \/ StoreRefreshedExpiry(p)
         \/ CacheToken(p) \/ CacheExpiry(p) \/ CacheLabel(p) \/ CacheRefresh(p)
         \/ SignInClearLabel(p) \/ SignInReplaceRefresh(p) \/ SignInStoreToken(p)
         \/ SignInStoreExpiry(p)
  PROVE  SerialInv'
<1>1. /\ pc[p] \in Refreshing \cup Caching \cup SigningIn /\ pc[p] # "idle"
      /\ UNCHANGED <<who, tok, ref, signedIn, since>>
      /\ AloneOK(p) /\ tok[p] \in Tokens /\ tok[p] # NoToken
      /\ keychain \in Keychains /\ pc \in [Procs -> PCs]
      /\ pc[p] \in SigningIn => tok[p].owner \notin Clients
      /\ pc[p] \in Caching => who[p] \in Clients
  <2>1. /\ pc[p] \in Refreshing \cup Caching \cup SigningIn /\ pc[p] # "idle"
        /\ UNCHANGED <<who, tok, ref, signedIn, since>>
    BY DEF StoreRefreshedToken, StoreRefreshedRefresh, StoreRefreshedExpiry, StoreExpiry, CacheToken,
           CacheExpiry, CacheLabel, CacheRefresh, SignInClearLabel, SignInReplaceRefresh,
           SignInStoreToken, SignInStoreExpiry, Put, Refreshing, Caching, SigningIn
  <2>2. /\ tok[p] \in Tokens /\ keychain \in Keychains /\ pc \in [Procs -> PCs]
        /\ pc[p] \in SigningIn => tok[p].owner \in 0..MaxTokens
        /\ pc[p] \in Caching => who[p] \in Clients
    BY <2>1, SessionAssumption DEF TypeInv, TypeOK, CommandOK, PCs
  <2> QED
    BY <2>1, <2>2, SessionAssumption, NoTokenAssumption DEF SerialInv
<1>2. ASSUME NEW n \in PCs \ {"idle"}, pc' = [pc EXCEPT ![p] = n],
             Reads(p)' /\ Refreshes(p)' /\ Caches(p)' /\ SignsIn(p)'
      PROVE  SerialInv'
  <2>1. AloneOK(p)'
    BY <1>1, <1>2 DEF AloneOK
  <2> QED
    BY <1>1, <1>2, <2>1, AloneStep
<1>3. {"refreshed_refresh", "refreshed_expiry", "cache_expiry", "cache_label", "cache_refresh",
       "signin_refresh", "signin_token", "signin_expiry", "done", "signed_in"} \subseteq PCs \ {"idle"}
  BY DEF PCs, Refreshing, Caching, SigningIn, Ended
<1>4. CASE StoreRefreshedToken(p) \/ StoreRefreshedRefresh(p)
  <2>1. PICK n \in {"refreshed_refresh", "refreshed_expiry"} :
          /\ pc' = [pc EXCEPT ![p] = n]
          /\ n = "refreshed_refresh" => ref[p] # 0
          /\ \/ pc[p] = "refreshed_token" /\ keychain' = [keychain EXCEPT !["access"] = tok[p]]
             \/ pc[p] = "refreshed_refresh" /\ keychain' = [keychain EXCEPT !["refresh"] = ref[p]]
    BY <1>4 DEF StoreRefreshedToken, StoreRefreshedRefresh, Put, Goto, TakingTurns
  <2>2. Refreshes(p) /\ pc[p] \in Refreshing
    BY <1>1, <2>1 DEF AloneOK, Refreshing
  <2>3. /\ pc'[p] = n /\ keychain'.access = tok[p] /\ keychain'.client = NoClient
        /\ keychain'.refresh = tok[p].owner
    BY <1>1, <2>1, <2>2 DEF Refreshes, Keychains
  <2>4. Refreshes(p)'
    BY <1>1, <2>1, <2>2, <2>3 DEF Refreshes
  <2>5. Reads(p)' /\ Caches(p)' /\ SignsIn(p)'
    BY <2>3 DEF Reads, Caches, SignsIn, Reading, Asking, Ended, Caching, SigningIn
  <2> QED
    BY <1>2, <1>3, <2>1, <2>4, <2>5
<1>5. CASE StoreRefreshedExpiry(p)
  <2>1. /\ pc[p] = "refreshed_expiry" /\ pc' = [pc EXCEPT ![p] = "done"]
        /\ keychain' = IF tok[p].lasts THEN [keychain EXCEPT !["expiry"] = tok[p].serial]
                       ELSE keychain
    BY <1>5 DEF StoreRefreshedExpiry, StoreExpiry, Put, Goto, TakingTurns
  <2>2. /\ who[p] = "person" /\ keychain.client = NoClient
        /\ keychain.refresh = tok[p].owner /\ keychain.access = tok[p]
    BY <1>1, <2>1 DEF AloneOK, Refreshes, Refreshing
  <2>3. /\ pc'[p] = "done" /\ keychain'.access = tok[p] /\ keychain'.client = NoClient
        /\ keychain'.refresh = tok[p].owner
        /\ tok[p].lasts => keychain'.expiry = tok[p].serial
    BY <1>1, <2>1, <2>2 DEF Keychains
  <2>4. Agreed'
    BY <1>1, <2>2, <2>3 DEF Agreed
  <2>5. Reads(p)'
    BY <1>1, <2>2, <2>3, <2>4, SessionAssumption DEF Reads
  <2>6. Refreshes(p)' /\ Caches(p)' /\ SignsIn(p)'
    BY <2>3 DEF Refreshes, Caches, SignsIn, Refreshing, Caching, SigningIn
  <2> QED
    BY <1>2, <1>3, <2>1, <2>5, <2>6
<1>6. CASE CacheToken(p) \/ CacheExpiry(p) \/ CacheLabel(p)
  <2>1. PICK n \in {"cache_expiry", "cache_label", "cache_refresh"} :
          /\ pc' = [pc EXCEPT ![p] = n]
          /\ \/ /\ pc[p] = "cache_token" /\ n = "cache_expiry"
                /\ keychain' = [keychain EXCEPT !["access"] = tok[p]]
             \/ /\ pc[p] = "cache_expiry" /\ n = "cache_label"
                /\ keychain' = IF tok[p].lasts THEN [keychain EXCEPT !["expiry"] = tok[p].serial]
                               ELSE keychain
             \/ /\ pc[p] = "cache_label" /\ n = "cache_refresh"
                /\ keychain' = [keychain EXCEPT !["client"] = who[p]]
    BY <1>6 DEF CacheToken, CacheExpiry, CacheLabel, StoreExpiry, Put, Goto, TakingTurns
  <2>2. Caches(p) /\ pc[p] \in Caching
    BY <1>1, <2>1 DEF AloneOK, Caching
  <2>3. /\ pc'[p] = n /\ keychain'.access = tok[p]
        /\ n \in {"cache_label", "cache_refresh"} /\ tok[p].lasts => keychain'.expiry = tok[p].serial
        /\ n = "cache_refresh" => keychain'.client = who[p]
    BY <1>1, <2>1, <2>2 DEF Caches, Keychains, Caching
  <2>4. Caches(p)'
    BY <1>1, <2>1, <2>2, <2>3 DEF Caches
  <2>5. Reads(p)' /\ Refreshes(p)' /\ SignsIn(p)'
    BY <2>3 DEF Reads, Refreshes, SignsIn, Reading, Asking, Ended, Refreshing, SigningIn
  <2> QED
    BY <1>2, <1>3, <2>1, <2>4, <2>5
<1>7. CASE CacheRefresh(p)
  <2>1. /\ pc[p] = "cache_refresh" /\ pc' = [pc EXCEPT ![p] = "done"]
        /\ keychain' = [keychain EXCEPT !["refresh"] = 0]
    BY <1>7 DEF CacheRefresh, Put, Goto, TakingTurns
  <2>2. /\ tok[p].owner = who[p] /\ keychain.access = tok[p] /\ keychain.client = who[p]
        /\ tok[p].lasts => keychain.expiry = tok[p].serial
        /\ who[p] \in Clients
    BY <1>1, <2>1 DEF AloneOK, Caches, Caching
  <2>3. /\ pc'[p] = "done" /\ keychain'.access = tok[p] /\ keychain'.client = who[p]
        /\ keychain'.refresh = 0
        /\ tok[p].lasts => keychain'.expiry = tok[p].serial
    BY <1>1, <2>1, <2>2 DEF Keychains
  <2>4. Agreed'
    BY <1>1, <2>2, <2>3 DEF Agreed
  <2>5. Reads(p)'
    BY <1>1, <2>2, <2>3, <2>4 DEF Reads
  <2>6. Refreshes(p)' /\ Caches(p)' /\ SignsIn(p)'
    BY <2>3 DEF Refreshes, Caches, SignsIn, Refreshing, Caching, SigningIn
  <2> QED
    BY <1>2, <1>3, <2>1, <2>5, <2>6
<1>8. CASE SignInClearLabel(p) \/ SignInReplaceRefresh(p) \/ SignInStoreToken(p)
  <2>1. PICK n \in {"signin_refresh", "signin_token", "signin_expiry"} :
          /\ pc' = [pc EXCEPT ![p] = n]
          /\ \/ /\ pc[p] = "signin_label" /\ n = "signin_refresh"
                /\ keychain' = [keychain EXCEPT !["client"] = NoClient]
             \/ /\ pc[p] = "signin_refresh" /\ n = "signin_token"
                /\ keychain' = [keychain EXCEPT !["refresh"] = ref[p]]
             \/ /\ pc[p] = "signin_token" /\ n = "signin_expiry"
                /\ keychain' = [keychain EXCEPT !["access"] = tok[p]]
    BY <1>8 DEF SignInClearLabel, SignInReplaceRefresh, SignInStoreToken, Put, Goto, TakingTurns
  <2>2. SignsIn(p) /\ pc[p] \in SigningIn
    BY <1>1, <2>1 DEF AloneOK, SigningIn
  <2>3. /\ pc'[p] = n /\ keychain'.client = NoClient
        /\ n \in {"signin_token", "signin_expiry"} => keychain'.refresh = ref[p]
        /\ n = "signin_expiry" => keychain'.access = tok[p]
    BY <1>1, <2>1, <2>2 DEF SignsIn, Keychains, SigningIn
  <2>4. SignsIn(p)'
    BY <1>1, <2>2, <2>3 DEF SignsIn
  <2>5. Reads(p)' /\ Refreshes(p)' /\ Caches(p)'
    BY <2>3 DEF Reads, Refreshes, Caches, Reading, Asking, Ended, Refreshing, Caching
  <2> QED
    BY <1>2, <1>3, <2>1, <2>4, <2>5
<1>9. CASE SignInStoreExpiry(p)
  <2>1. /\ pc[p] = "signin_expiry" /\ pc' = [pc EXCEPT ![p] = "signed_in"]
        /\ keychain' = [keychain EXCEPT !["expiry"] = IF tok[p].lasts THEN tok[p].serial ELSE 0]
    BY <1>9 DEF SignInStoreExpiry, Put, Goto, TakingTurns
  <2>2. /\ ref[p] \in {0, tok[p].owner}
        /\ keychain.client = NoClient /\ keychain.refresh = ref[p] /\ keychain.access = tok[p]
    BY <1>1, <2>1 DEF AloneOK, SignsIn, SigningIn
  <2>3. /\ pc'[p] = "signed_in" /\ keychain'.access = tok[p] /\ keychain'.client = NoClient
        /\ keychain'.refresh = ref[p]
        /\ tok[p].lasts => keychain'.expiry = tok[p].serial
    BY <1>1, <2>1, <2>2 DEF Keychains
  <2>4. Agreed'
    BY <1>1, <2>2, <2>3 DEF Agreed
  <2>5. Reads(p)'
    BY <1>1, <2>3, <2>4 DEF Reads
  <2>6. Refreshes(p)' /\ Caches(p)' /\ SignsIn(p)'
    BY <2>3 DEF Refreshes, Caches, SignsIn, Refreshing, Caching, SigningIn
  <2> QED
    BY <1>2, <1>3, <2>1, <2>5, <2>6
<1> QED
  BY <1>4, <1>5, <1>6, <1>7, <1>8, <1>9

LEMMA SerialNext == TakingTurns => (TypeInv /\ SerialInv /\ [Next]_vars => SerialInv')
<1> SUFFICES ASSUME TakingTurns, TypeInv, SerialInv, [Next]_vars PROVE SerialInv'
  OBVIOUS
<1>1. CASE UNCHANGED vars
  BY <1>1 DEF vars, SerialInv, Quiet, Agreed, AloneOK, Reads, Refreshes, Caches, SignsIn
<1>2. ASSUME NEW n \in 1..MaxTokens, Expire(n)
      PROVE  SerialInv'
  BY <1>2 DEF Expire, SerialInv, Quiet, Agreed, AloneOK, Reads, Refreshes, Caches, SignsIn
<1>3. ASSUME NEW p \in Procs, Crash(p)
      PROVE  FALSE
  BY <1>3 DEF Crash, TakingTurns
<1> QED
  BY <1>1, <1>2, <1>3, TurnStart, TurnFinish, TurnRead, TurnAsk, TurnPut DEF Next

LEMMA SerialHolds == TakingTurns /\ Spec => [](TypeInv /\ SerialInv)
<1>1. CASE TakingTurns
  <2>1. Init => TypeInv /\ SerialInv
    BY TypeInvInit, SerialInit
  <2>2. TypeInv /\ SerialInv /\ [Next]_vars => (TypeInv /\ SerialInv)'
    BY <1>1, TypeInvNext, SerialNext
  <2> QED
    BY <2>1, <2>2, PTL DEF Spec
<1>2. CASE ~TakingTurns
  BY <1>2
<1> QED
  BY <1>1, <1>2

-----------------------------------------------------------------------------
(* What commands that take turns may rely on.                                *)

\* A command with client credentials gets a token of that client, whatever
\* sign-ins, refreshes and other clients did to the entries before it.
THEOREM ClientsIsolated == TakingTurns /\ Spec => []ClientIsolation
<1>1. TypeInv /\ SerialInv => ClientIsolation
  BY DEF SerialInv, AloneOK, Reads, ClientIsolation
<1> QED
  BY <1>1, SerialHolds, PTL

\* Between commands the four entries belong together.
THEOREM EntriesBelongTogether == TakingTurns /\ Spec => []EntriesAgree
<1>1. TypeInv /\ SerialInv => EntriesAgree
  BY DEF SerialInv, Agreed, EntriesAgree
<1> QED
  BY <1>1, SerialHolds, PTL

\* The expiry entry is that of the stored token whenever it has a lifetime, so a
\* token is never handed out after its own lifetime.
THEOREM ExpiredNeverReused == Serial /\ Faults = {} /\ Spec => NoExpiredReuse
<1>1. Faults = {} /\ TakingTurns /\ TypeInv /\ SerialInv /\ [Next]_vars =>
        [\A p \in Procs :
           pc[p] = "expiry" /\ pc'[p] = "done" /\ tok[p].lasts => tok[p].serial \notin expired]_vars
  <2> SUFFICES ASSUME Faults = {}, TakingTurns, TypeInv, SerialInv, [Next]_vars, NEW p \in Procs,
                      pc[p] = "expiry", pc'[p] = "done", tok[p].lasts
               PROVE  tok[p].serial \notin expired
    OBVIOUS
  <2>1. /\ Agreed /\ tok[p] = keychain.access /\ tok[p] \in Tokens
        /\ keychain.expiry = tok[p].serial /\ tok[p].serial # 0
    BY NoTokenAssumption
       DEF SerialInv, AloneOK, Reads, Reading, TypeInv, CommandOK, Agreed, Tokens
  <2>2. \A q \in Procs : pc[q] # "idle" => q = p
    BY DEF SerialInv
  <2>3. pc' # pc /\ ~\E n \in 1..MaxTokens : Expire(n)
    BY DEF Expire
  <2>4. \A q \in Procs, w \in Clients \cup {"person", "signin"} : ~Start(q, w)
    BY DEF Start, TakingTurns
  <2>5. ~Finish(p) /\ ~Crash(p)
    BY DEF Finish, Crash, Ended, TakingTurns
  <2>6. ReadExpiry(p)
    <3>1. PICK q \in Procs :
            \/ Finish(q) \/ Crash(q)
            \/ ReadLabel(q) \/ ReadToken(q) \/ ReadExpiry(q) \/ ReadRefresh(q)
            \/ AskRefresh(q) \/ AskClient(q) \/ AskSignIn(q)
            \/ StoreRefreshedToken(q) \/ StoreRefreshedRefresh(q) \/ StoreRefreshedExpiry(q)
            \/ CacheToken(q) \/ CacheExpiry(q) \/ CacheLabel(q) \/ CacheRefresh(q)
            \/ SignInClearLabel(q) \/ SignInReplaceRefresh(q) \/ SignInStoreToken(q)
            \/ SignInStoreExpiry(q)
      BY <2>3, <2>4 DEF Next, vars
    <3>2. pc[q] # "idle"
      BY <3>1 DEF Finish, Crash, Ended, ReadLabel, ReadToken, ReadExpiry, ReadRefresh, AskRefresh,
                  AskClient, AskSignIn, StoreRefreshedToken, StoreRefreshedRefresh,
                  StoreRefreshedExpiry, CacheToken, CacheExpiry, CacheLabel, CacheRefresh,
                  SignInClearLabel, SignInReplaceRefresh, SignInStoreToken, SignInStoreExpiry
    <3>3. q = p
      BY <2>2, <3>2
    <3> QED
      BY <2>5, <3>1, <3>3
         DEF ReadLabel, ReadToken, ReadRefresh, AskRefresh, AskClient, AskSignIn,
             StoreRefreshedToken, StoreRefreshedRefresh, StoreRefreshedExpiry, CacheToken,
             CacheExpiry, CacheLabel, CacheRefresh, SignInClearLabel, SignInReplaceRefresh,
             SignInStoreToken, SignInStoreExpiry
  <2> QED
    BY <2>1, <2>6 DEF ReadExpiry, StoredTokenExpired, GetFails, Goto, TypeInv, TypeOK
<1>2. CASE Serial /\ Faults = {}
  <2>1. TypeInv /\ SerialInv /\ [Next]_vars =>
          [\A p \in Procs :
             pc[p] = "expiry" /\ pc'[p] = "done" /\ tok[p].lasts => tok[p].serial \notin expired]_vars
    BY <1>1, <1>2 DEF TakingTurns
  <2>2. TakingTurns
    BY <1>2 DEF TakingTurns
  <2> QED
    BY <2>1, <2>2, SerialHolds, PTL DEF Spec, NoExpiredReuse
<1>3. CASE ~(Serial /\ Faults = {})
  BY <1>3
<1> QED
  BY <1>2, <1>3

-----------------------------------------------------------------------------
(* Commands that take turns, whatever fails and wherever they die.           *)

AtMostOne == \A p, q \in Procs : pc[p] # "idle" /\ pc[q] # "idle" => p = q

\* What a command's Sets do to the entries, if they do anything.
Written(p) ==
  /\ keychain' \in Keychains
  /\ keychain'.access = IF pc[p] \in {"refreshed_token", "cache_token", "signin_token"}
                        THEN tok[p] ELSE keychain.access
  /\ keychain'.refresh = IF pc[p] \in {"refreshed_refresh", "signin_refresh"} THEN ref[p]
                         ELSE IF pc[p] = "cache_refresh" THEN 0 ELSE keychain.refresh
  /\ keychain'.client = IF pc[p] = "cache_label" THEN who[p]
                        ELSE IF pc[p] = "signin_label" THEN NoClient ELSE keychain.client

\* Where they lead, done or refused.
WrittenNext(p, n) ==
  \/ pc[p] = "refreshed_token" /\ n \in {"refreshed_refresh", "refreshed_expiry"}
  \/ pc[p] = "refreshed_refresh" /\ n = "refreshed_expiry"
  \/ pc[p] = "refreshed_expiry" /\ n = "done"
  \/ pc[p] = "cache_token" /\ n = "cache_expiry"
  \/ pc[p] = "cache_expiry" /\ n = "cache_label"
  \/ pc[p] = "cache_label" /\ n = "cache_refresh"
  \/ pc[p] = "cache_refresh" /\ n = "done"
  \/ pc[p] = "signin_label" /\ n = "signin_refresh"
  \/ pc[p] = "signin_refresh" /\ n = "signin_token"
  \/ pc[p] = "signin_token" /\ n = "signin_expiry"
  \/ pc[p] = "signin_expiry" /\ n = "signed_in"

RefusedNext(p, n) ==
  \/ pc[p] = "refreshed_token" /\ n = NoStored(p)
  \/ pc[p] = "refreshed_refresh" /\ n = "refreshed_expiry"
  \/ pc[p] = "refreshed_expiry" /\ n = "done"
  \/ pc[p] = "cache_token" /\ n = "done"
  \/ pc[p] = "cache_expiry" /\ n = "cache_label"
  \/ pc[p] = "cache_label" /\ n = "cache_refresh"
  \/ pc[p] = "cache_refresh" /\ n = "done"
  \/ pc[p] \in {"signin_label", "signin_token"} /\ n = "denied"
  \/ pc[p] = "signin_refresh" /\ n = "signin_token"
  \/ pc[p] = "signin_expiry" /\ n = "signed_in"

LEMMA PutIs ==
  ASSUME TypeInv, NEW p \in Procs,
         \/ StoreRefreshedToken(p) \/ StoreRefreshedRefresh(p) \/ StoreRefreshedExpiry(p)
         \/ CacheToken(p) \/ CacheExpiry(p) \/ CacheLabel(p) \/ CacheRefresh(p)
         \/ SignInClearLabel(p) \/ SignInReplaceRefresh(p) \/ SignInStoreToken(p)
         \/ SignInStoreExpiry(p)
  PROVE  /\ UNCHANGED <<who, tok, ref, signedIn, since>>
         /\ pc[p] \in Refreshing \cup Caching \cup SigningIn
         /\ \E n \in PCs \ {"idle"} :
              /\ pc' = [pc EXCEPT ![p] = n]
              /\ \/ WrittenNext(p, n) /\ Written(p)
                 \/ "set" \in Faults /\ RefusedNext(p, n) /\ UNCHANGED keychain
<1> DEFINE Result(n) == /\ pc' = [pc EXCEPT ![p] = n]
                        /\ \/ WrittenNext(p, n) /\ Written(p)
                           \/ "set" \in Faults /\ RefusedNext(p, n) /\ UNCHANGED keychain
<1>1. /\ keychain \in Keychains
      /\ TypeInv'
  BY TypePut DEF TypeInv, TypeOK
<1>2. keychain' \in Keychains
  BY <1>1 DEF TypeInv, TypeOK
<1>3. /\ NoStored(p) \in PCs \ {"idle"}
      /\ {"refreshed_refresh", "refreshed_expiry", "cache_expiry", "cache_label", "cache_refresh",
          "signin_refresh", "signin_token", "signin_expiry", "done", "signed_in", "denied"}
           \subseteq PCs \ {"idle"}
  BY NoStoredIs DEF PCs, Refreshing, Caching, SigningIn, Ended
<1>4. CASE StoreRefreshedToken(p)
  <2>1. /\ pc[p] = "refreshed_token" /\ UNCHANGED <<who, tok, ref, signedIn, since>>
        /\ \/ Result("refreshed_expiry") \/ Result("refreshed_refresh") \/ Result(NoStored(p))
    BY <1>1, <1>2, <1>4
       DEF StoreRefreshedToken, Put, Goto, Written, WrittenNext, RefusedNext, Keychains
  <2> QED
    BY <1>3, <2>1 DEF Refreshing
<1>5. CASE StoreRefreshedRefresh(p)
  <2>1. /\ pc[p] = "refreshed_refresh" /\ UNCHANGED <<who, tok, ref, signedIn, since>>
        /\ Result("refreshed_expiry")
    BY <1>1, <1>2, <1>5
       DEF StoreRefreshedRefresh, Put, Goto, Written, WrittenNext, RefusedNext, Keychains
  <2> QED
    BY <1>3, <2>1 DEF Refreshing
<1>6. CASE StoreRefreshedExpiry(p)
  <2>1. /\ pc[p] = "refreshed_expiry" /\ UNCHANGED <<who, tok, ref, signedIn, since>>
        /\ Result("done")
    BY <1>1, <1>2, <1>6
       DEF StoreRefreshedExpiry, StoreExpiry, Put, Goto, Written, WrittenNext, RefusedNext, Keychains
  <2> QED
    BY <1>3, <2>1 DEF Refreshing
<1>7. CASE CacheToken(p)
  <2>1. /\ pc[p] = "cache_token" /\ UNCHANGED <<who, tok, ref, signedIn, since>>
        /\ Result("cache_expiry") \/ Result("done")
    BY <1>1, <1>2, <1>7 DEF CacheToken, Put, Goto, Written, WrittenNext, RefusedNext, Keychains
  <2> QED
    BY <1>3, <2>1 DEF Caching
<1>8. CASE CacheExpiry(p)
  <2>1. /\ pc[p] = "cache_expiry" /\ UNCHANGED <<who, tok, ref, signedIn, since>>
        /\ Result("cache_label")
    BY <1>1, <1>2, <1>8
       DEF CacheExpiry, StoreExpiry, Put, Goto, Written, WrittenNext, RefusedNext, Keychains
  <2> QED
    BY <1>3, <2>1 DEF Caching
<1>9. CASE CacheLabel(p)
  <2>1. /\ pc[p] = "cache_label" /\ UNCHANGED <<who, tok, ref, signedIn, since>>
        /\ Result("cache_refresh")
    BY <1>1, <1>2, <1>9 DEF CacheLabel, Put, Goto, Written, WrittenNext, RefusedNext, Keychains
  <2> QED
    BY <1>3, <2>1 DEF Caching
<1>10. CASE CacheRefresh(p)
  <2>1. /\ pc[p] = "cache_refresh" /\ UNCHANGED <<who, tok, ref, signedIn, since>>
        /\ Result("done")
    BY <1>1, <1>2, <1>10 DEF CacheRefresh, Put, Goto, Written, WrittenNext, RefusedNext, Keychains
  <2> QED
    BY <1>3, <2>1 DEF Caching
<1>11. CASE SignInClearLabel(p)
  <2>1. /\ pc[p] = "signin_label" /\ UNCHANGED <<who, tok, ref, signedIn, since>>
        /\ Result("signin_refresh") \/ Result("denied")
    BY <1>1, <1>2, <1>11 DEF SignInClearLabel, Put, Goto, Written, WrittenNext, RefusedNext, Keychains
  <2> QED
    BY <1>3, <2>1 DEF SigningIn
<1>12. CASE SignInReplaceRefresh(p)
  <2>1. /\ pc[p] = "signin_refresh" /\ UNCHANGED <<who, tok, ref, signedIn, since>>
        /\ Result("signin_token")
    BY <1>1, <1>2, <1>12
       DEF SignInReplaceRefresh, Put, Goto, Written, WrittenNext, RefusedNext, Keychains
  <2> QED
    BY <1>3, <2>1 DEF SigningIn
<1>13. CASE SignInStoreToken(p)
  <2>1. /\ pc[p] = "signin_token" /\ UNCHANGED <<who, tok, ref, signedIn, since>>
        /\ Result("signin_expiry") \/ Result("denied")
    BY <1>1, <1>2, <1>13 DEF SignInStoreToken, Put, Goto, Written, WrittenNext, RefusedNext, Keychains
  <2> QED
    BY <1>3, <2>1 DEF SigningIn
<1>14. CASE SignInStoreExpiry(p)
  <2>1. /\ pc[p] = "signin_expiry" /\ UNCHANGED <<who, tok, ref, signedIn, since>>
        /\ Result("signed_in")
    BY <1>1, <1>2, <1>14
       DEF SignInStoreExpiry, Put, Goto, Written, WrittenNext, RefusedNext, Keychains
  <2> QED
    BY <1>3, <2>1 DEF SigningIn
<1> QED
  BY <1>4, <1>5, <1>6, <1>7, <1>8, <1>9, <1>10, <1>11, <1>12, <1>13, <1>14

\* What a command may take from the entries, and where that leads.
LEMMA ReadIs ==
  ASSUME TypeInv, NEW p \in Procs, ReadLabel(p) \/ ReadToken(p) \/ ReadExpiry(p) \/ ReadRefresh(p)
  PROVE  /\ UNCHANGED <<keychain, who, signedIn, since>>
         /\ pc[p] \in Reading
         /\ pc[p] # "token" => UNCHANGED tok
         /\ pc[p] # "refresh" => UNCHANGED ref
         /\ ref' \in [Procs -> {keychain.refresh} \cup 0..MaxTokens]
         /\ \A q \in Procs \ {p} : ref'[q] = ref[q]
         /\ ref'[p] \in {ref[p], keychain.refresh}
         /\ \E n \in PCs \ {"idle"} :
              /\ pc' = [pc EXCEPT ![p] = n]
              /\ \/ pc[p] = "label" /\ n = "token" /\ keychain.client = who[p]
                 \/ pc[p] = "label" /\ n = "ask_client"
                 \/ /\ pc[p] = "token" /\ n = "expiry"
                    /\ tok'[p] = keychain.access /\ keychain.access # NoToken
                 \/ pc[p] \in {"token", "refresh"} /\ n = NoStored(p)
                 \/ pc[p] = "expiry" /\ n \in {"refresh", "done"}
                 \/ /\ pc[p] = "refresh" /\ n = "ask_refresh"
                    /\ ref'[p] = keychain.refresh /\ keychain.refresh # 0
<1>1. /\ NoStored(p) \in PCs \ {"idle"}
      /\ {"token", "ask_client", "expiry", "refresh", "done", "ask_refresh"} \subseteq PCs \ {"idle"}
  BY NoStoredIs DEF PCs, Reading, Asking, Ended
<1>2. /\ tok \in [Procs -> Tokens \cup {NoToken}] /\ ref \in [Procs -> 0..MaxTokens]
      /\ keychain.refresh \in 0..MaxTokens
  BY DEF TypeInv, TypeOK, Keychains
<1>3. CASE ReadLabel(p)
  BY <1>1, <1>2, <1>3 DEF ReadLabel, GetFails, Goto, LabelMatches, Reading
<1>4. CASE ReadToken(p)
  <2>1. /\ UNCHANGED <<keychain, who, signedIn, since, ref>> /\ pc[p] = "token"
        /\ \/ tok' = [tok EXCEPT ![p] = keychain.access]
           \/ pc' = [pc EXCEPT ![p] = NoStored(p)]
        /\ \/ pc' = [pc EXCEPT ![p] = "expiry"] /\ tok' = [tok EXCEPT ![p] = keychain.access]
                /\ keychain.access # NoToken
           \/ pc' = [pc EXCEPT ![p] = NoStored(p)]
    BY <1>4 DEF ReadToken, GetFails, Goto
  <2> QED
    BY <1>1, <1>2, <2>1 DEF Reading
<1>5. CASE ReadExpiry(p)
  BY <1>1, <1>2, <1>5 DEF ReadExpiry, GetFails, Goto, Reading
<1>6. CASE ReadRefresh(p)
  <2>1. /\ UNCHANGED <<keychain, who, signedIn, since, tok>> /\ pc[p] = "refresh"
        /\ UNCHANGED ref \/ ref' = [ref EXCEPT ![p] = keychain.refresh]
        /\ \/ pc' = [pc EXCEPT ![p] = "ask_refresh"] /\ ref' = [ref EXCEPT ![p] = keychain.refresh]
                /\ keychain.refresh # 0
           \/ pc' = [pc EXCEPT ![p] = NoStored(p)]
    BY <1>6 DEF ReadRefresh, GetFails, Goto
  <2> QED
    BY <1>1, <1>2, <2>1 DEF Reading
<1> QED
  BY <1>3, <1>4, <1>5, <1>6

\* What the server may answer, and where that leads.
LEMMA AskIs ==
  ASSUME TypeInv, NEW p \in Procs, AskRefresh(p) \/ AskClient(p) \/ AskSignIn(p)
  PROVE  /\ UNCHANGED <<keychain, who, signedIn, since>>
         /\ pc[p] \in Asking
         /\ \A q \in Procs \ {p} : ref'[q] = ref[q]
         /\ ref'[p] # 0 /\ RefreshTokens = FALSE => ref'[p] = ref[p]
         /\ \E n \in PCs \ {"idle"} :
              /\ pc' = [pc EXCEPT ![p] = n]
              /\ \/ n = "denied"
                 \/ pc[p] = "ask_refresh" /\ n = NoStored(p)
                 \/ /\ pc[p] = "ask_refresh" /\ n = "refreshed_token"
                    /\ tok'[p].owner = ref[p] /\ ref'[p] \in {0, ref[p]}
                 \/ pc[p] = "ask_client" /\ n = "cache_token" /\ tok'[p].owner = who[p]
                 \/ /\ pc[p] = "ask_signin" /\ n = "signin_label"
                    /\ tok'[p].owner = issued + 1 /\ ref'[p] \in {0, issued + 1}
<1>1. /\ NoStored(p) \in PCs \ {"idle"}
      /\ {"refreshed_token", "cache_token", "signin_label", "denied"} \subseteq PCs \ {"idle"}
      /\ tok \in [Procs -> Tokens \cup {NoToken}] /\ ref \in [Procs -> 0..MaxTokens]
  BY NoStoredIs DEF PCs, Refreshing, Caching, SigningIn, Ended, TypeInv, TypeOK
<1>2. CASE AskRefresh(p)
  <2>1. /\ UNCHANGED <<keychain, who, signedIn, since>> /\ pc[p] = "ask_refresh"
        /\ UNCHANGED ref \/ ref' = [ref EXCEPT ![p] = 0]
        /\ \/ pc' = [pc EXCEPT ![p] = NoStored(p)]
           \/ pc' = [pc EXCEPT ![p] = "refreshed_token"] /\ Grant(p, ref[p], "refreshed_token")
    BY <1>2 DEF AskRefresh, Goto, Grant
  <2>2. Grant(p, ref[p], "refreshed_token") => tok'[p].owner = ref[p]
    BY <1>1 DEF Grant
  <2> QED
    BY <1>1, <2>1, <2>2 DEF Asking
<1>3. CASE AskClient(p)
  <2>1. /\ UNCHANGED <<keychain, who, signedIn, since, ref>> /\ pc[p] = "ask_client"
        /\ \/ pc' = [pc EXCEPT ![p] = "denied"]
           \/ pc' = [pc EXCEPT ![p] = "cache_token"] /\ Grant(p, who[p], "cache_token")
    BY <1>3 DEF AskClient, Goto, Grant
  <2>2. Grant(p, who[p], "cache_token") => tok'[p].owner = who[p]
    BY <1>1 DEF Grant
  <2> QED
    BY <1>1, <2>1, <2>2 DEF Asking
<1>4. CASE AskSignIn(p)
  <2>1. /\ UNCHANGED <<keychain, who, signedIn, since>> /\ pc[p] = "ask_signin"
        /\ \/ pc' = [pc EXCEPT ![p] = "denied"] /\ UNCHANGED ref
           \/ /\ pc' = [pc EXCEPT ![p] = "signin_label"] /\ Grant(p, issued + 1, "signin_label")
              /\ \/ ref' = [ref EXCEPT ![p] = 0]
                 \/ ref' = [ref EXCEPT ![p] = issued + 1] /\ RefreshTokens # FALSE
    <3>1. ASSUME NEW has \in {FALSE, RefreshTokens},
                 ref' = [ref EXCEPT ![p] = IF has THEN issued + 1 ELSE 0]
          PROVE  \/ ref' = [ref EXCEPT ![p] = 0]
                 \/ ref' = [ref EXCEPT ![p] = issued + 1] /\ RefreshTokens # FALSE
      <4>1. has = TRUE \/ has = FALSE
        BY SessionAssumption
      <4>2. CASE has = TRUE
        BY <3>1, <4>2
      <4>3. CASE has = FALSE
        BY <3>1, <4>3
      <4> QED
        BY <4>1, <4>2, <4>3
    <3> QED
      BY <1>4, <3>1 DEF AskSignIn, Goto, Grant
  <2>2. Grant(p, issued + 1, "signin_label") => tok'[p].owner = issued + 1
    BY <1>1 DEF Grant
  <2> QED
    BY <1>1, <2>1, <2>2 DEF Asking
<1> QED
  BY <1>2, <1>3, <1>4

\* The command that runs goes on: no other command runs.
LEMMA OneGoesOn ==
  ASSUME TypeInv, AtMostOne, NEW p \in Procs, NEW n \in PCs \ {"idle"},
         pc[p] # "idle", pc' = [pc EXCEPT ![p] = n]
  PROVE  /\ AtMostOne'
         /\ pc'[p] = n
         /\ \A q \in Procs \ {p} : pc[q] = "idle" /\ pc'[q] = "idle"
BY DEF TypeInv, TypeOK, AtMostOne

\* A command starts when no other runs.
LEMMA OneStarts ==
  ASSUME TypeInv, Serial, NEW p \in Procs, NEW w \in Clients \cup {"person", "signin"}, Start(p, w)
  PROVE  /\ AtMostOne'
         /\ UNCHANGED <<keychain, tok, ref, signedIn>>
         /\ since'[p] = signedIn /\ who'[p] = w
         /\ \A q \in Procs \ {p} : pc'[q] = "idle"
         /\ pc'[p] \in {"label", "token", "ask_signin"}
         /\ pc'[p] = "token" => w = "person"
         /\ pc'[p] = "ask_signin" => w = "signin"
         /\ Quiet
<1> DEFINE next == CASE w = "person" -> "token"
                     [] w = "signin" -> "ask_signin"
                     [] OTHER        -> "label"
<1>1. /\ next \in {"label", "token", "ask_signin"}
      /\ next = "token" => w = "person"
      /\ next = "ask_signin" => w = "signin"
  BY SessionAssumption
<1>2. /\ pc' = [pc EXCEPT ![p] = next] /\ who' = [who EXCEPT ![p] = w]
      /\ since' = [since EXCEPT ![p] = signedIn]
      /\ UNCHANGED <<keychain, tok, ref, signedIn>>
      /\ Quiet
  BY DEF Start, Goto, Quiet
<1> HIDE DEF next
<1> QED
  BY <1>1, <1>2 DEF TypeInv, TypeOK, Quiet, AtMostOne

\* A command that is over or dies leaves the entries as they are.
LEMMA OneLeaves ==
  ASSUME TypeInv, AtMostOne, NEW p \in Procs, Finish(p) \/ Crash(p)
  PROVE  /\ AtMostOne'
         /\ UNCHANGED keychain
         /\ \A q \in Procs : pc'[q] = "idle"
         /\ ref'[p] = 0 /\ \A q \in Procs \ {p} : ref'[q] = ref[q]
         /\ pc[p] # "idle"
         /\ UNCHANGED signedIn \/ (pc[p] = "signed_in" /\ signedIn' = tok[p].owner)
BY DEF Finish, Crash, Forget, Goto, Ended, TypeInv, TypeOK, AtMostOne

\* Where sign-ins yield no refresh token, there never is one.
NoRefreshTokens == keychain.refresh = 0 /\ \A p \in Procs : ref[p] = 0

LEMMA NoRefreshNext ==
  RefreshTokens = FALSE => (TypeInv /\ NoRefreshTokens /\ [Next]_vars => NoRefreshTokens')
<1> SUFFICES ASSUME RefreshTokens = FALSE, TypeInv, NoRefreshTokens, [Next]_vars
             PROVE  NoRefreshTokens'
  OBVIOUS
<1>1. CASE UNCHANGED vars
  BY <1>1 DEF vars, NoRefreshTokens
<1>2. ASSUME NEW n \in 1..MaxTokens, Expire(n) PROVE NoRefreshTokens'
  BY <1>2 DEF Expire, NoRefreshTokens
<1>3. ASSUME NEW p \in Procs, NEW w \in Clients \cup {"person", "signin"}, Start(p, w)
      PROVE  NoRefreshTokens'
  BY <1>3 DEF Start, NoRefreshTokens
<1>4. ASSUME NEW p \in Procs, Finish(p) \/ Crash(p)
      PROVE  NoRefreshTokens'
  BY <1>4 DEF Finish, Crash, Forget, NoRefreshTokens, TypeInv, TypeOK
<1>5. ASSUME NEW p \in Procs,
             ReadLabel(p) \/ ReadToken(p) \/ ReadExpiry(p) \/ ReadRefresh(p)
      PROVE  NoRefreshTokens'
  BY <1>5, ReadIs DEF NoRefreshTokens
<1>6. ASSUME NEW p \in Procs, AskRefresh(p) \/ AskClient(p) \/ AskSignIn(p)
      PROVE  NoRefreshTokens'
  BY <1>6, AskIs DEF NoRefreshTokens
<1>7. ASSUME NEW p \in Procs,
             \/ StoreRefreshedToken(p) \/ StoreRefreshedRefresh(p) \/ StoreRefreshedExpiry(p)
             \/ CacheToken(p) \/ CacheExpiry(p) \/ CacheLabel(p) \/ CacheRefresh(p)
             \/ SignInClearLabel(p) \/ SignInReplaceRefresh(p) \/ SignInStoreToken(p)
             \/ SignInStoreExpiry(p)
      PROVE  NoRefreshTokens'
  BY <1>7, PutIs DEF NoRefreshTokens, Written
<1> QED
  BY <1>1, <1>2, <1>3, <1>4, <1>5, <1>6, <1>7 DEF Next

-----------------------------------------------------------------------------
(* No session earlier than the last sign-in.                                 *)

SinceSignIn(t) == t.owner \notin Clients => t.owner >= signedIn

SessionOK(p) ==
  /\ since[p] = signedIn
  /\ pc[p] \in {"expiry", "refresh", "ask_refresh", "done"} \cup Refreshing \cup Caching \cup SigningIn =>
       SinceSignIn(tok[p])
  /\ pc[p] \in {"ask_refresh"} \cup Refreshing => ref[p] = 0 \/ ref[p] >= signedIn
  /\ pc[p] \in SigningIn \cup {"signed_in"} => ref[p] \in {0, tok[p].owner}
  /\ pc[p] \in {"signin_token", "signin_expiry", "signed_in"} => keychain.refresh = ref[p]
  /\ pc[p] \in {"signin_expiry", "signed_in"} => keychain.access = tok[p]

SessionInv ==
  /\ AtMostOne
  /\ keychain.access # NoToken => SinceSignIn(keychain.access)
  /\ keychain.refresh # 0 => keychain.refresh >= signedIn
  /\ \A p \in Procs : pc[p] # "idle" => SessionOK(p)

\* Commands take turns, and a sign-in that left an earlier refresh token behind
\* did not report success.
RefreshReplaced == Serial /\ ("set" \notin Faults \/ RefreshTokens = FALSE)

LEMMA SessionInit == Init => SessionInv
BY DEF Init, SessionInv, AtMostOne

\* The command that runs goes on.
LEMMA SessionGoesOn ==
  ASSUME TypeInv, SessionInv, NEW p \in Procs, NEW n \in PCs \ {"idle"},
         pc[p] # "idle", pc' = [pc EXCEPT ![p] = n], UNCHANGED signedIn,
         keychain'.access # NoToken => SinceSignIn(keychain'.access),
         keychain'.refresh # 0 => keychain'.refresh >= signedIn,
         pc'[p] = n => SessionOK(p)'
  PROVE  SessionInv'
<1>1. /\ AtMostOne' /\ pc'[p] = n
      /\ \A q \in Procs \ {p} : pc'[q] = "idle"
  BY OneGoesOn DEF SessionInv
<1> QED
  BY <1>1 DEF SessionInv, SinceSignIn

LEMMA SessionRead ==
  ASSUME TypeInv, SessionInv, NEW p \in Procs,
         ReadLabel(p) \/ ReadToken(p) \/ ReadExpiry(p) \/ ReadRefresh(p)
  PROVE  SessionInv'
<1>1. PICK n \in PCs \ {"idle"} :
        /\ pc' = [pc EXCEPT ![p] = n]
        /\ \/ pc[p] = "label" /\ n = "token" /\ keychain.client = who[p]
           \/ pc[p] = "label" /\ n = "ask_client"
           \/ /\ pc[p] = "token" /\ n = "expiry"
              /\ tok'[p] = keychain.access /\ keychain.access # NoToken
           \/ pc[p] \in {"token", "refresh"} /\ n = NoStored(p)
           \/ pc[p] = "expiry" /\ n \in {"refresh", "done"}
           \/ /\ pc[p] = "refresh" /\ n = "ask_refresh"
              /\ ref'[p] = keychain.refresh /\ keychain.refresh # 0
  BY ReadIs
<1>2. /\ UNCHANGED <<keychain, who, signedIn, since>>
      /\ pc[p] \in Reading
      /\ pc[p] # "token" => UNCHANGED tok
  BY ReadIs
<1>3. pc[p] # "idle" /\ SessionOK(p) /\ NoStored(p) \in {"denied", "ask_client"}
  BY <1>2, NoStoredIs DEF Reading, SessionInv
<1>4. n \in {"token", "ask_client", "denied", "expiry", "refresh", "done", "ask_refresh"}
  BY <1>1, <1>3
<1>5. n \in {"expiry", "refresh", "ask_refresh", "done"} => SinceSignIn(tok'[p])
  BY <1>1, <1>2, <1>3 DEF SessionInv, SessionOK
<1>6. ASSUME pc'[p] = n PROVE SessionOK(p)'
  <2>1. n = "ask_refresh" => ref'[p] >= signedIn
    BY <1>1, <1>3 DEF SessionInv
  <2> QED
    BY <1>2, <1>3, <1>4, <1>5, <1>6, <2>1
       DEF SessionOK, SinceSignIn, Refreshing, Caching, SigningIn
<1> QED
  BY <1>1, <1>2, <1>3, <1>6, SessionGoesOn DEF SessionInv

LEMMA SessionAsk ==
  ASSUME TypeInv, SessionInv, NEW p \in Procs, AskRefresh(p) \/ AskClient(p) \/ AskSignIn(p)
  PROVE  SessionInv'
<1>1. PICK n \in PCs \ {"idle"} :
        /\ pc' = [pc EXCEPT ![p] = n]
        /\ \/ n = "denied"
           \/ pc[p] = "ask_refresh" /\ n = NoStored(p)
           \/ /\ pc[p] = "ask_refresh" /\ n = "refreshed_token"
              /\ tok'[p].owner = ref[p] /\ ref'[p] \in {0, ref[p]}
           \/ pc[p] = "ask_client" /\ n = "cache_token" /\ tok'[p].owner = who[p]
           \/ /\ pc[p] = "ask_signin" /\ n = "signin_label"
              /\ tok'[p].owner = issued + 1 /\ ref'[p] \in {0, issued + 1}
  BY AskIs
<1>2. UNCHANGED <<keychain, who, signedIn, since>> /\ pc[p] \in Asking
  BY AskIs
<1>3. /\ pc[p] # "idle" /\ SessionOK(p) /\ NoStored(p) \in {"denied", "ask_client"}
      /\ pc[p] = "ask_client" => who[p] \in Clients
      /\ pc[p] = "ask_refresh" => ref[p] # 0
      /\ issued \in Int /\ signedIn \in Int /\ signedIn <= issued
  BY <1>2, NoStoredIs, SessionAssumption DEF Asking, SessionInv, TypeInv, TypeOK, CommandOK
<1>4. n \in {"denied", "ask_client", "refreshed_token", "cache_token", "signin_label"}
  BY <1>1, <1>3
<1>5. n \in {"refreshed_token", "cache_token", "signin_label"} => SinceSignIn(tok'[p])
  BY <1>1, <1>3 DEF SessionOK, SinceSignIn
<1>6. n = "refreshed_token" => ref'[p] = 0 \/ ref'[p] >= signedIn
  BY <1>1, <1>3 DEF SessionOK
<1>7. n = "signin_label" => ref'[p] \in {0, tok'[p].owner}
  BY <1>1, <1>3
<1>8. ASSUME pc'[p] = n PROVE SessionOK(p)'
  BY <1>2, <1>3, <1>4, <1>5, <1>6, <1>7, <1>8
     DEF SessionOK, SinceSignIn, Refreshing, Caching, SigningIn
<1> QED
  BY <1>1, <1>2, <1>3, <1>8, SessionGoesOn DEF SessionInv

LEMMA SessionPut ==
  ASSUME TypeInv, SessionInv, RefreshReplaced, RefreshTokens = FALSE => NoRefreshTokens,
         NEW p \in Procs,
         \/ StoreRefreshedToken(p) \/ StoreRefreshedRefresh(p) \/ StoreRefreshedExpiry(p)
         \/ CacheToken(p) \/ CacheExpiry(p) \/ CacheLabel(p) \/ CacheRefresh(p)
         \/ SignInClearLabel(p) \/ SignInReplaceRefresh(p) \/ SignInStoreToken(p)
         \/ SignInStoreExpiry(p)
  PROVE  SessionInv'
<1>1. PICK n \in PCs \ {"idle"} :
        /\ pc' = [pc EXCEPT ![p] = n]
        /\ \/ WrittenNext(p, n) /\ Written(p)
           \/ "set" \in Faults /\ RefusedNext(p, n) /\ UNCHANGED keychain
  BY PutIs
<1>2. UNCHANGED <<who, tok, ref, signedIn, since>> /\ pc[p] \in Refreshing \cup Caching \cup SigningIn
  BY PutIs
<1>3. /\ pc[p] # "idle" /\ SessionOK(p) /\ NoStored(p) \in {"denied", "ask_client"}
      /\ SinceSignIn(tok[p])
      /\ tok[p] \in Tokens
      /\ pc[p] \in SigningIn => tok[p].owner \notin Clients
  <2>1. pc[p] \in SigningIn => tok[p].owner \in 0..MaxTokens
    BY SessionAssumption DEF TypeInv, TypeOK, CommandOK
  <2> QED
    BY <1>2, <2>1, NoStoredIs, SessionAssumption
       DEF Refreshing, Caching, SigningIn, SessionInv, SessionOK, TypeInv, CommandOK
<1>4. keychain'.access # NoToken => SinceSignIn(keychain'.access)
  BY <1>1, <1>3 DEF Written, SessionInv
<1>5. keychain'.refresh # 0 => keychain'.refresh >= signedIn
  <2>1. pc[p] \in {"refreshed_refresh", "signin_refresh"} => ref[p] = 0 \/ ref[p] >= signedIn
    BY <1>3 DEF SessionOK, SinceSignIn, Refreshing, SigningIn
  <2> QED
    BY <1>1, <2>1 DEF Written, SessionInv
<1>6. n \in {"signin_token", "signin_expiry", "signed_in"} => keychain'.refresh = ref[p]
  <2>1. "set" \in Faults => keychain.refresh = 0 /\ ref[p] = 0
    BY DEF RefreshReplaced, NoRefreshTokens
  <2> QED
    BY <1>1, <1>3, <2>1 DEF Written, WrittenNext, RefusedNext, SessionOK
<1>7. n \in {"signin_expiry", "signed_in"} => keychain'.access = tok[p]
  BY <1>1, <1>3 DEF Written, WrittenNext, RefusedNext, SessionOK
<1>8. n \in Refreshing \cup Caching \cup SigningIn \cup {"done", "denied", "ask_client", "signed_in"}
      /\ (n \in SigningIn \cup {"signed_in"} => pc[p] \in SigningIn)
      /\ (n \in Refreshing => pc[p] \in Refreshing)
  BY <1>1, <1>3 DEF WrittenNext, RefusedNext, Refreshing, Caching, SigningIn
<1>9. ASSUME pc'[p] = n PROVE SessionOK(p)'
  BY <1>2, <1>3, <1>6, <1>7, <1>8, <1>9 DEF SessionOK, SinceSignIn, Refreshing, Caching, SigningIn
<1> QED
  BY <1>1, <1>2, <1>3, <1>4, <1>5, <1>9, SessionGoesOn

LEMMA SessionLeaves ==
  ASSUME TypeInv, SessionInv, NEW p \in Procs, Finish(p) \/ Crash(p)
  PROVE  SessionInv'
<1>1. /\ AtMostOne' /\ UNCHANGED keychain
      /\ \A q \in Procs : pc'[q] = "idle"
      /\ pc[p] # "idle"
      /\ UNCHANGED signedIn \/ (pc[p] = "signed_in" /\ signedIn' = tok[p].owner)
  BY OneLeaves DEF SessionInv
<1>2. CASE UNCHANGED signedIn
  BY <1>1, <1>2 DEF SessionInv, SinceSignIn
<1>3. CASE pc[p] = "signed_in" /\ signedIn' = tok[p].owner
  <2>1. keychain.access = tok[p] /\ keychain.refresh \in {0, tok[p].owner}
    BY <1>1, <1>3 DEF SessionInv, SessionOK
  <2>2. tok[p].owner \in Int
    BY <1>3 DEF TypeInv, TypeOK, CommandOK
  <2> QED
    BY <1>1, <1>3, <2>1, <2>2 DEF SessionInv, SinceSignIn
<1> QED
  BY <1>1, <1>2, <1>3

LEMMA SessionNext ==
  RefreshReplaced =>
    (TypeInv /\ SessionInv /\ (RefreshTokens = FALSE => NoRefreshTokens) /\ [Next]_vars
       => SessionInv')
<1> SUFFICES ASSUME RefreshReplaced, TypeInv, SessionInv, RefreshTokens = FALSE => NoRefreshTokens,
                    [Next]_vars
             PROVE  SessionInv'
  OBVIOUS
<1>1. CASE UNCHANGED vars
  BY <1>1 DEF vars, SessionInv, AtMostOne, SessionOK, SinceSignIn
<1>2. ASSUME NEW n \in 1..MaxTokens, Expire(n) PROVE SessionInv'
  BY <1>2 DEF Expire, SessionInv, AtMostOne, SessionOK, SinceSignIn
<1>3. ASSUME NEW p \in Procs, NEW w \in Clients \cup {"person", "signin"}, Start(p, w)
      PROVE  SessionInv'
  <2>1. /\ AtMostOne' /\ UNCHANGED <<keychain, signedIn>>
        /\ since'[p] = signedIn
        /\ \A q \in Procs \ {p} : pc'[q] = "idle"
        /\ pc'[p] \in {"label", "token", "ask_signin"}
    BY <1>3, OneStarts DEF RefreshReplaced
  <2>2. SessionOK(p)'
    BY <2>1 DEF SessionOK, Refreshing, Caching, SigningIn
  <2> QED
    BY <2>1, <2>2 DEF SessionInv, SinceSignIn
<1> QED
  BY <1>1, <1>2, <1>3, SessionLeaves, SessionRead, SessionAsk, SessionPut DEF Next

LEMMA SessionHolds == RefreshReplaced /\ Spec => [](TypeInv /\ SessionInv)
<1>1. CASE RefreshReplaced /\ RefreshTokens = FALSE
  <2>1. Init => TypeInv /\ SessionInv /\ NoRefreshTokens
    BY TypeInvInit, SessionInit DEF Init, NoRefreshTokens
  <2>2. TypeInv /\ SessionInv /\ NoRefreshTokens /\ [Next]_vars
          => (TypeInv /\ SessionInv /\ NoRefreshTokens)'
    BY <1>1, TypeInvNext, SessionNext, NoRefreshNext
  <2> QED
    BY <2>1, <2>2, PTL DEF Spec
<1>2. CASE RefreshReplaced /\ RefreshTokens # FALSE
  <2>1. Init => TypeInv /\ SessionInv
    BY TypeInvInit, SessionInit
  <2>2. TypeInv /\ SessionInv /\ [Next]_vars => (TypeInv /\ SessionInv)'
    BY <1>2, TypeInvNext, SessionNext
  <2> QED
    BY <2>1, <2>2, PTL DEF Spec
<1>3. CASE ~RefreshReplaced
  BY <1>3
<1> QED
  BY <1>1, <1>2, <1>3

\* No command gets a token of a session earlier than the last sign-in before it,
\* though commands die and Gets fail.  Where sign-ins yield refresh tokens it takes
\* Sets that are not refused: the one that clears the old refresh token is only
\* warned about.
THEOREM EarlierSessionsGone == RefreshReplaced /\ Spec => []EarlierSessionGone
<1>1. TypeInv /\ SessionInv => EarlierSessionGone
  BY DEF SessionInv, SessionOK, SinceSignIn, EarlierSessionGone
<1> QED
  BY <1>1, SessionHolds, PTL

-----------------------------------------------------------------------------
(* One client, no refresh tokens, any failure.                               *)

LoneClient ==
  /\ Serial
  /\ RefreshTokens = FALSE
  /\ \A c, d \in Clients : c = d

LoneOK(p) ==
  /\ pc[p] \notin {"ask_refresh"} \cup Refreshing
  /\ pc[p] = "token" /\ who[p] \in Clients => keychain.client = who[p]
  /\ pc[p] \in {"expiry", "refresh", "done"} \cup Caching /\ who[p] \in Clients =>
       tok[p].owner = who[p]
  /\ pc[p] \in Caching \ {"cache_token"} => keychain.access = tok[p]
  /\ pc[p] \in SigningIn \ {"signin_label"} => keychain.client = NoClient

\* A label names the owner of the token at every step, and after every death.
LoneInv ==
  /\ AtMostOne
  /\ NoRefreshTokens
  /\ keychain.client # NoClient =>
       keychain.access # NoToken /\ keychain.access.owner = keychain.client
  /\ \A p \in Procs : pc[p] # "idle" => LoneOK(p)

LEMMA LoneInit == Init => LoneInv
BY DEF Init, LoneInv, AtMostOne, NoRefreshTokens

LEMMA LoneGoesOn ==
  ASSUME TypeInv, LoneInv, NoRefreshTokens', NEW p \in Procs, NEW n \in PCs \ {"idle"},
         pc[p] # "idle", pc' = [pc EXCEPT ![p] = n],
         keychain'.client # NoClient =>
           keychain'.access # NoToken /\ keychain'.access.owner = keychain'.client,
         pc'[p] = n => LoneOK(p)'
  PROVE  LoneInv'
<1>1. /\ AtMostOne' /\ pc'[p] = n
      /\ \A q \in Procs \ {p} : pc'[q] = "idle"
  BY OneGoesOn DEF LoneInv
<1> QED
  BY <1>1 DEF LoneInv

LEMMA LoneRead ==
  ASSUME TypeInv, LoneInv, NoRefreshTokens', NEW p \in Procs,
         ReadLabel(p) \/ ReadToken(p) \/ ReadExpiry(p) \/ ReadRefresh(p)
  PROVE  LoneInv'
<1>1. PICK n \in PCs \ {"idle"} :
        /\ pc' = [pc EXCEPT ![p] = n]
        /\ \/ pc[p] = "label" /\ n = "token" /\ keychain.client = who[p]
           \/ pc[p] = "label" /\ n = "ask_client"
           \/ /\ pc[p] = "token" /\ n = "expiry"
              /\ tok'[p] = keychain.access /\ keychain.access # NoToken
           \/ pc[p] \in {"token", "refresh"} /\ n = NoStored(p)
           \/ pc[p] = "expiry" /\ n \in {"refresh", "done"}
           \/ /\ pc[p] = "refresh" /\ n = "ask_refresh"
              /\ ref'[p] = keychain.refresh /\ keychain.refresh # 0
  BY ReadIs
<1>2. /\ UNCHANGED <<keychain, who, signedIn, since>>
      /\ pc[p] \in Reading
      /\ pc[p] # "token" => UNCHANGED tok
  BY ReadIs
<1>3. /\ pc[p] # "idle" /\ LoneOK(p) /\ NoStored(p) \in {"denied", "ask_client"}
      /\ keychain.refresh = 0
  BY <1>2, NoStoredIs DEF Reading, LoneInv, NoRefreshTokens
<1>4. n \in {"token", "ask_client", "denied", "expiry", "refresh", "done"}
  BY <1>1, <1>3
<1>5. n = "token" => keychain.client = who[p]
  BY <1>1, <1>3
<1>6. n \in {"expiry", "refresh", "done"} /\ who[p] \in Clients => tok'[p].owner = who[p]
  <2>1. pc[p] = "token" /\ who[p] \in Clients => keychain.access.owner = who[p]
    BY <1>3, SessionAssumption DEF LoneInv, LoneOK
  <2> QED
    BY <1>1, <1>2, <1>3, <2>1 DEF LoneOK
<1>7. ASSUME pc'[p] = n PROVE LoneOK(p)'
  BY <1>2, <1>4, <1>5, <1>6, <1>7 DEF LoneOK, Refreshing, Caching, SigningIn
<1> QED
  BY <1>1, <1>2, <1>3, <1>7, LoneGoesOn DEF LoneInv

LEMMA LoneAsk ==
  ASSUME TypeInv, LoneInv, NoRefreshTokens', NEW p \in Procs,
         AskRefresh(p) \/ AskClient(p) \/ AskSignIn(p)
  PROVE  LoneInv'
<1>1. PICK n \in PCs \ {"idle"} :
        /\ pc' = [pc EXCEPT ![p] = n]
        /\ \/ n = "denied"
           \/ pc[p] = "ask_refresh" /\ n = NoStored(p)
           \/ /\ pc[p] = "ask_refresh" /\ n = "refreshed_token"
              /\ tok'[p].owner = ref[p] /\ ref'[p] \in {0, ref[p]}
           \/ pc[p] = "ask_client" /\ n = "cache_token" /\ tok'[p].owner = who[p]
           \/ /\ pc[p] = "ask_signin" /\ n = "signin_label"
              /\ tok'[p].owner = issued + 1 /\ ref'[p] \in {0, issued + 1}
  BY AskIs
<1>2. UNCHANGED <<keychain, who, signedIn, since>> /\ pc[p] \in Asking
  BY AskIs
<1>3. pc[p] # "idle" /\ pc[p] # "ask_refresh"
  BY <1>2 DEF Asking, LoneInv, LoneOK
<1>4. ASSUME pc'[p] = n PROVE LoneOK(p)'
  BY <1>1, <1>2, <1>3, <1>4 DEF LoneOK, Refreshing, Caching, SigningIn
<1> QED
  BY <1>1, <1>2, <1>3, <1>4, LoneGoesOn DEF LoneInv

LEMMA LonePut ==
  ASSUME TypeInv, LoneInv, LoneClient, NoRefreshTokens', NEW p \in Procs,
         \/ StoreRefreshedToken(p) \/ StoreRefreshedRefresh(p) \/ StoreRefreshedExpiry(p)
         \/ CacheToken(p) \/ CacheExpiry(p) \/ CacheLabel(p) \/ CacheRefresh(p)
         \/ SignInClearLabel(p) \/ SignInReplaceRefresh(p) \/ SignInStoreToken(p)
         \/ SignInStoreExpiry(p)
  PROVE  LoneInv'
<1>1. PICK n \in PCs \ {"idle"} :
        /\ pc' = [pc EXCEPT ![p] = n]
        /\ \/ WrittenNext(p, n) /\ Written(p)
           \/ "set" \in Faults /\ RefusedNext(p, n) /\ UNCHANGED keychain
  BY PutIs
<1>2. /\ UNCHANGED <<who, tok, ref, signedIn, since>>
      /\ pc[p] \in Refreshing \cup Caching \cup SigningIn
  BY PutIs
<1>3. /\ pc[p] # "idle" /\ LoneOK(p) /\ pc[p] \notin Refreshing
      /\ tok[p] \in Tokens /\ tok[p] # NoToken
      /\ pc[p] \in Caching => who[p] \in Clients
      /\ keychain.client \in Clients \cup {NoClient}
  BY <1>2, NoTokenAssumption
     DEF Refreshing, Caching, SigningIn, LoneInv, LoneOK, TypeInv, TypeOK, CommandOK, Keychains
<1>4. keychain'.client # NoClient =>
        keychain'.access # NoToken /\ keychain'.access.owner = keychain'.client
  <2>1. CASE pc[p] = "cache_token"
    <3>1. tok[p].owner = who[p] /\ (keychain.client \in Clients => keychain.client = who[p])
      BY <1>3, <2>1 DEF LoneOK, LoneClient, Caching
    <3> QED
      BY <1>1, <1>3, <2>1, <3>1 DEF Written, LoneInv
  <2>2. CASE pc[p] = "cache_label"
    BY <1>1, <1>3, <2>2 DEF Written, LoneInv, LoneOK, Caching
  <2>3. CASE pc[p] \in SigningIn
    <3>1. keychain.client = NoClient \/ pc[p] = "signin_label"
      BY <1>3, <2>3 DEF LoneOK
    <3> QED
      BY <1>1, <2>3, <3>1 DEF Written, LoneInv, SigningIn
  <2>4. CASE pc[p] \in {"cache_expiry", "cache_refresh"}
    BY <1>1, <2>4 DEF Written, LoneInv
  <2> QED
    BY <1>2, <1>3, <2>1, <2>2, <2>3, <2>4 DEF Caching
<1>5. /\ n \in Caching \cup SigningIn \cup {"done", "denied", "signed_in"}
      /\ n \in Caching \cup {"done"} => pc[p] \in Caching
      /\ n \in SigningIn => pc[p] \in SigningIn
  BY <1>1, <1>3 DEF WrittenNext, RefusedNext, Refreshing, Caching, SigningIn
<1>6. n \in Caching \ {"cache_token"} => keychain'.access = tok[p]
  BY <1>1, <1>3, <1>5 DEF Written, WrittenNext, RefusedNext, LoneOK, Caching
<1>7. n \in SigningIn \ {"signin_label"} => keychain'.client = NoClient
  BY <1>1, <1>3, <1>5 DEF Written, WrittenNext, RefusedNext, LoneOK, SigningIn
<1>8. ASSUME pc'[p] = n PROVE LoneOK(p)'
  BY <1>2, <1>3, <1>5, <1>6, <1>7, <1>8 DEF LoneOK, Refreshing, Caching, SigningIn
<1> QED
  BY <1>1, <1>2, <1>3, <1>4, <1>8, LoneGoesOn

LEMMA LoneNext ==
  LoneClient => (TypeInv /\ LoneInv /\ [Next]_vars => LoneInv')
<1> SUFFICES ASSUME LoneClient, TypeInv, LoneInv, [Next]_vars PROVE LoneInv'
  OBVIOUS
<1>1. NoRefreshTokens'
  BY NoRefreshNext DEF LoneClient, LoneInv
<1>2. CASE UNCHANGED vars
  BY <1>2 DEF vars, LoneInv, AtMostOne, LoneOK, NoRefreshTokens
<1>3. ASSUME NEW n \in 1..MaxTokens, Expire(n) PROVE LoneInv'
  BY <1>3 DEF Expire, LoneInv, AtMostOne, LoneOK, NoRefreshTokens
<1>4. ASSUME NEW p \in Procs, NEW w \in Clients \cup {"person", "signin"}, Start(p, w)
      PROVE  LoneInv'
  <2>1. /\ AtMostOne' /\ UNCHANGED keychain /\ who'[p] = w
        /\ \A q \in Procs \ {p} : pc'[q] = "idle"
        /\ pc'[p] \in {"label", "token", "ask_signin"}
        /\ pc'[p] = "token" => w = "person"
    BY <1>4, OneStarts DEF LoneClient
  <2>2. LoneOK(p)'
    BY <2>1, SessionAssumption DEF LoneOK, Refreshing, Caching, SigningIn
  <2> QED
    BY <1>1, <2>1, <2>2 DEF LoneInv
<1>5. ASSUME NEW p \in Procs, Finish(p) \/ Crash(p) PROVE LoneInv'
  <2>1. /\ AtMostOne' /\ UNCHANGED keychain
        /\ \A q \in Procs : pc'[q] = "idle"
    BY <1>5, OneLeaves DEF LoneInv
  <2> QED
    BY <1>1, <2>1 DEF LoneInv
<1> QED
  BY <1>1, <1>2, <1>3, <1>4, <1>5, LoneRead, LoneAsk, LonePut DEF Next

LEMMA LoneHolds == LoneClient /\ Spec => [](TypeInv /\ LoneInv)
<1>1. CASE LoneClient
  <2>1. Init => TypeInv /\ LoneInv
    BY TypeInvInit, LoneInit
  <2>2. TypeInv /\ LoneInv /\ [Next]_vars => (TypeInv /\ LoneInv)'
    BY <1>1, TypeInvNext, LoneNext
  <2> QED
    BY <2>1, <2>2, PTL DEF Spec
<1>2. CASE ~LoneClient
  BY <1>2
<1> QED
  BY <1>1, <1>2

\* With one client and no refresh tokens, a command gets a token of its client
\* though earlier commands died between any two of their writes, had Sets refused
\* or Gets fail: the label is never written before the token it is about, and a
\* sign-in clears it before it stores its own.
THEOREM LoneClientIsolated == LoneClient /\ Spec => []ClientIsolation
<1>1. TypeInv /\ LoneInv => ClientIsolation
  BY DEF LoneInv, LoneOK, ClientIsolation
<1> QED
  BY <1>1, LoneHolds, PTL

\* And the entries belong together between commands, whatever failed in them.
THEOREM LoneEntriesAgree == LoneClient /\ Spec => []EntriesAgree
<1>1. TypeInv /\ LoneInv => EntriesAgree
  BY DEF LoneInv, NoRefreshTokens, EntriesAgree
<1> QED
  BY <1>1, LoneHolds, PTL
=============================================================================
