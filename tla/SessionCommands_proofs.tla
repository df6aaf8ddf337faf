------------------------ MODULE SessionCommands_proofs ------------------------
(***************************************************************************)
(* Commands on StoredSession that take turns implement SessionCommands, for *)
(* any number of processes, clients and tokens; a Get may fail.             *)
(***************************************************************************)
EXTENDS StoredSession_proofs

\* A client's token is never without its label.
LabelKept ==
  keychain.access # NoToken /\ keychain.access.owner \in Clients =>
    keychain.client = keychain.access.owner

\* The stored token may be passed over.
Doubt ==
  \/ "get" \in Faults
  \/ keychain.access = NoToken
  \/ ~keychain.access.lasts
  \/ keychain.access.serial \in expired

\* A command asks the server only when it has reason to.
Reason(p) ==
  /\ pc[p] \in Reading \cup Asking \cup Ended => LabelKept
  /\ pc[p] \in {"refresh", "ask_refresh"} => Doubt
  /\ pc[p] = "ask_client" => Doubt \/ keychain.access.owner # who[p]
  /\ pc[p] \in {"ask_signin"} \cup SigningIn => who[p] = "signin"

ReasonInv ==
  /\ Quiet => LabelKept
  /\ \A p \in Procs : pc[p] # "idle" => Reason(p)

LEMMA ReasonInit == Init => ReasonInv
BY DEF Init, ReasonInv, LabelKept

\* The command that runs goes on: nobody else does anything.
LEMMA ReasonGoesOn ==
  ASSUME TypeInv, SerialInv, NEW p \in Procs, NEW n \in PCs \ {"idle"},
         pc[p] # "idle", pc' = [pc EXCEPT ![p] = n],
         pc'[p] = n => Reason(p)'
  PROVE  ReasonInv'
<1>1. /\ pc'[p] = n
      /\ \A q \in Procs \ {p} : pc'[q] = "idle"
  BY OneGoesOn DEF SerialInv, AtMostOne
<1>2. ~Quiet'
  BY <1>1 DEF Quiet
<1> QED
  BY <1>1, <1>2 DEF ReasonInv

\* What a Get's outcome was.
LEMMA ReadOutcome ==
  ASSUME TypeInv, NEW p \in Procs, ReadLabel(p) \/ ReadToken(p) \/ ReadExpiry(p) \/ ReadRefresh(p)
  PROVE  /\ UNCHANGED <<keychain, issued, expired, who>>
         /\ pc[p] \in Reading
         /\ pc[p] = "expiry" => UNCHANGED tok
         /\ \E n \in PCs \ {"idle"} :
              /\ pc' = [pc EXCEPT ![p] = n]
              /\ \/ pc[p] = "label" /\ n = "token"
                 \/ /\ pc[p] = "label" /\ n = "ask_client"
                    /\ "get" \in Faults \/ keychain.client # who[p]
                 \/ pc[p] = "token" /\ n = "expiry"
                 \/ /\ pc[p] = "token" /\ n = NoStored(p)
                    /\ "get" \in Faults \/ keychain.access = NoToken
                 \/ pc[p] = "expiry" /\ n = "refresh" /\ StoredTokenExpired(keychain.expiry)
                 \/ /\ pc[p] = "expiry" /\ n = "done"
                    /\ "get" \in Faults \/ ~StoredTokenExpired(keychain.expiry)
                 \/ pc[p] = "refresh" /\ n \in {"ask_refresh", NoStored(p)}
<1>1. /\ NoStored(p) \in PCs \ {"idle"}
      /\ {"token", "ask_client", "expiry", "refresh", "done", "ask_refresh"} \subseteq PCs \ {"idle"}
  BY NoStoredIs DEF PCs, Reading, Asking, Ended
<1>2. CASE ReadLabel(p)
  BY <1>1, <1>2 DEF ReadLabel, LabelMatches, GetFails, Goto, Reading
<1>3. CASE ReadToken(p)
  <2>1. /\ UNCHANGED <<keychain, issued, expired, who>> /\ pc[p] = "token"
        /\ \/ pc' = [pc EXCEPT ![p] = "expiry"]
           \/ /\ pc' = [pc EXCEPT ![p] = NoStored(p)]
              /\ "get" \in Faults \/ keychain.access = NoToken
    BY <1>3 DEF ReadToken, GetFails, Goto
  <2> QED
    BY <1>1, <2>1 DEF Reading
<1>4. CASE ReadExpiry(p)
  BY <1>1, <1>4 DEF ReadExpiry, GetFails, Goto, Reading
<1>5. CASE ReadRefresh(p)
  <2>1. /\ UNCHANGED <<keychain, issued, expired, who>> /\ pc[p] = "refresh"
        /\ \/ pc' = [pc EXCEPT ![p] = "ask_refresh"]
           \/ pc' = [pc EXCEPT ![p] = NoStored(p)]
    BY <1>5 DEF ReadRefresh, GetFails, Goto
  <2> QED
    BY <1>1, <2>1 DEF Reading
<1> QED
  BY <1>2, <1>3, <1>4, <1>5

LEMMA ReasonRead ==
  ASSUME TypeInv, SerialInv, ReasonInv, NEW p \in Procs,
         ReadLabel(p) \/ ReadToken(p) \/ ReadExpiry(p) \/ ReadRefresh(p)
  PROVE  ReasonInv'
<1>1. PICK n \in PCs \ {"idle"} :
        /\ pc' = [pc EXCEPT ![p] = n]
        /\ \/ pc[p] = "label" /\ n = "token"
           \/ /\ pc[p] = "label" /\ n = "ask_client"
              /\ "get" \in Faults \/ keychain.client # who[p]
           \/ pc[p] = "token" /\ n = "expiry"
           \/ /\ pc[p] = "token" /\ n = NoStored(p)
              /\ "get" \in Faults \/ keychain.access = NoToken
           \/ pc[p] = "expiry" /\ n = "refresh" /\ StoredTokenExpired(keychain.expiry)
           \/ /\ pc[p] = "expiry" /\ n = "done"
              /\ "get" \in Faults \/ ~StoredTokenExpired(keychain.expiry)
           \/ pc[p] = "refresh" /\ n \in {"ask_refresh", NoStored(p)}
  BY ReadOutcome
<1>2. UNCHANGED <<keychain, issued, expired, who>> /\ pc[p] \in Reading
  BY ReadOutcome
<1>3. /\ pc[p] # "idle" /\ LabelKept /\ Agreed /\ NoStored(p) \in {"denied", "ask_client"}
      /\ pc[p] = "refresh" => Doubt
      /\ pc[p] = "label" => who[p] \in Clients
      /\ n \in {"token", "expiry", "refresh", "ask_refresh", "ask_client", "denied", "done"}
  BY <1>1, <1>2, NoStoredIs
     DEF Reading, ReasonInv, Reason, SerialInv, AloneOK, Reads, TypeInv, CommandOK
<1>4. LabelKept'
  BY <1>2, <1>3 DEF LabelKept
<1>5. n \in {"refresh", "ask_refresh"} => Doubt
  BY <1>1, <1>3 DEF Doubt, Agreed, StoredTokenExpired
<1>6. n = "ask_client" => Doubt \/ keychain.access.owner # who[p]
  BY <1>1, <1>3 DEF Doubt, LabelKept
<1>7. Doubt' = Doubt
  BY <1>2 DEF Doubt
<1>8. ASSUME pc'[p] = n PROVE Reason(p)'
  BY <1>2, <1>3, <1>4, <1>5, <1>6, <1>7, <1>8 DEF Reason, SigningIn
<1> QED
  BY <1>1, <1>3, <1>8, ReasonGoesOn

LEMMA ReasonAsk ==
  ASSUME TypeInv, SerialInv, ReasonInv, NEW p \in Procs,
         AskRefresh(p) \/ AskClient(p) \/ AskSignIn(p)
  PROVE  ReasonInv'
<1>1. PICK n \in PCs \ {"idle"} :
        /\ pc' = [pc EXCEPT ![p] = n]
        /\ \/ n = "denied"
           \/ pc[p] = "ask_refresh" /\ n = NoStored(p)
           \/ /\ pc[p] = "ask_refresh" /\ n = "refreshed_token"
              /\ tok'[p].owner = ref[p] /\ ref'[p] \in {0, ref[p]}
           \/ pc[p] = "ask_client" /\ n = "cache_token" /\ tok'[p].owner = who[p]
           \/ /\ pc[p] = "ask_signin" /\ n = "signin_label"
              /\ tok'[p].owner = issued + 1 /\ ref'[p] \in {0, issued + 1}
  BY AskIs
<1>2. UNCHANGED <<keychain, who, signedIn, since>> /\ pc[p] \in Asking
  BY AskIs
<1>3. /\ pc[p] # "idle" /\ LabelKept
      /\ pc[p] = "ask_refresh" => NoStored(p) = "denied"
      /\ pc[p] = "ask_signin" => who[p] = "signin"
  BY <1>2 DEF Asking, ReasonInv, Reason, SerialInv, AloneOK, Reads, NoStored
<1>4. LabelKept'
  BY <1>2, <1>3 DEF LabelKept
<1>5. ASSUME pc'[p] = n PROVE Reason(p)'
  BY <1>1, <1>2, <1>3, <1>4, <1>5 DEF Reason, SigningIn
<1> QED
  BY <1>1, <1>3, <1>5, ReasonGoesOn

LEMMA ReasonPut ==
  ASSUME TypeInv, SerialInv, ReasonInv, TakingTurns, NEW p \in Procs,
         \/ StoreRefreshedToken(p) \/ StoreRefreshedRefresh(p) \/ StoreRefreshedExpiry(p)
         \/ CacheToken(p) \/ CacheExpiry(p) \/ CacheLabel(p) \/ CacheRefresh(p)
         \/ SignInClearLabel(p) \/ SignInReplaceRefresh(p) \/ SignInStoreToken(p)
         \/ SignInStoreExpiry(p)
  PROVE  ReasonInv'
<1>1. PICK n \in PCs \ {"idle"} :
        /\ pc' = [pc EXCEPT ![p] = n]
        /\ \/ WrittenNext(p, n) /\ Written(p)
           \/ "set" \in Faults /\ RefusedNext(p, n) /\ UNCHANGED keychain
  BY PutIs
<1>2. /\ UNCHANGED <<who, tok, ref, signedIn, since>>
      /\ pc[p] \in Refreshing \cup Caching \cup SigningIn
      /\ WrittenNext(p, n) /\ Written(p)
  BY <1>1, PutIs DEF TakingTurns
<1>3. pc[p] # "idle" /\ Reason(p) /\ AloneOK(p)
  BY <1>2 DEF Refreshing, Caching, SigningIn, ReasonInv, SerialInv
<1>4. pc[p] \in {"refreshed_expiry", "signin_expiry"} => tok[p].owner \notin Clients
  BY <1>3, SessionAssumption
     DEF AloneOK, Refreshes, Refreshing, SigningIn, TypeInv, TypeOK, CommandOK, Keychains
<1>5. n \in {"done", "signed_in"} => LabelKept'
  BY <1>2, <1>3, <1>4
     DEF WrittenNext, Written, LabelKept, AloneOK, Refreshes, Caches, SignsIn, Caching
<1>6. /\ n \in Refreshing \cup Caching \cup SigningIn \cup {"done", "signed_in"}
      /\ n \in SigningIn => pc[p] \in SigningIn
  BY <1>2 DEF WrittenNext, Refreshing, Caching, SigningIn
<1>7. ASSUME pc'[p] = n PROVE Reason(p)'
  BY <1>2, <1>3, <1>5, <1>6, <1>7
     DEF Reason, Reading, Asking, Ended, Refreshing, Caching, SigningIn
<1> QED
  BY <1>1, <1>3, <1>7, ReasonGoesOn

LEMMA ReasonNext ==
  TakingTurns => (TypeInv /\ SerialInv /\ ReasonInv /\ [Next]_vars => ReasonInv')
<1> SUFFICES ASSUME TakingTurns, TypeInv, SerialInv, ReasonInv, [Next]_vars PROVE ReasonInv'
  OBVIOUS
<1>1. CASE UNCHANGED vars
  BY <1>1 DEF vars, ReasonInv, Reason, LabelKept, Doubt, Quiet
<1>2. ASSUME NEW n \in 1..MaxTokens, Expire(n) PROVE ReasonInv'
  BY <1>2 DEF Expire, ReasonInv, Reason, LabelKept, Doubt, Quiet
<1>3. ASSUME NEW p \in Procs, NEW w \in Clients \cup {"person", "signin"}, Start(p, w)
      PROVE  ReasonInv'
  <2>1. /\ UNCHANGED keychain /\ who'[p] = w /\ Quiet
        /\ \A q \in Procs \ {p} : pc'[q] = "idle"
        /\ pc'[p] \in {"label", "token", "ask_signin"}
        /\ pc'[p] = "ask_signin" => w = "signin"
    BY <1>3, OneStarts DEF TakingTurns
  <2>2. LabelKept'
    BY <2>1 DEF ReasonInv, LabelKept
  <2>3. Reason(p)'
    BY <2>1, <2>2 DEF Reason, SigningIn
  <2> QED
    BY <2>1, <2>2, <2>3 DEF ReasonInv
<1>4. ASSUME NEW p \in Procs, Finish(p) \/ Crash(p) PROVE ReasonInv'
  <2>1. /\ UNCHANGED keychain
        /\ \A q \in Procs : pc'[q] = "idle"
        /\ pc[p] # "idle"
    BY <1>4, OneLeaves DEF SerialInv, AtMostOne
  <2>2. LabelKept
    BY <1>4, <2>1 DEF Finish, Crash, TakingTurns, ReasonInv, Reason
  <2> QED
    BY <2>1, <2>2 DEF ReasonInv, LabelKept
<1> QED
  BY <1>1, <1>2, <1>3, <1>4, ReasonRead, ReasonAsk, ReasonPut DEF Next

-----------------------------------------------------------------------------
(* What is seen of a state in which at most p's command runs.                *)

TokenOf(p) == IF pc[p] \in Writing THEN tok[p] ELSE keychain.access

RenewableOf(p) ==
  IF pc[p] \in Writing THEN pc[p] \in Refreshing \/ (pc[p] \in SigningIn /\ ref[p] # 0)
  ELSE keychain.refresh # 0

AnswerOf(p) ==
  IF HasToken(p) THEN [to |-> who[p], token |-> tok[p]] ELSE [to |-> "nobody", token |-> NoToken]

LEMMA TokenSeen ==
  ASSUME NEW p \in Procs, \A q \in Procs \ {p} : pc[q] = "idle"
  PROVE  TheToken = TokenOf(p) /\ (Renewable <=> RenewableOf(p)) /\ Renewable \in BOOLEAN
<1>1. "idle" \notin Writing
  BY DEF Writing, Refreshing, Caching, SigningIn
<1>2. CASE pc[p] \in Writing
  <2>1. Writers = {p}
    BY <1>1, <1>2 DEF Writers
  <2>2. Writer = p
    BY <2>1 DEF Writer
  <2> QED
    BY <1>2, <2>1, <2>2 DEF TheToken, Renewable, TokenOf, RenewableOf
<1>3. CASE pc[p] \notin Writing
  <2>1. Writers = {}
    BY <1>1, <1>3 DEF Writers
  <2> QED
    BY <1>3, <2>1 DEF TheToken, Renewable, TokenOf, RenewableOf
<1> QED
  BY <1>2, <1>3

LEMMA TokenSeenNext ==
  ASSUME NEW p \in Procs, \A q \in Procs \ {p} : pc'[q] = "idle"
  PROVE  TheToken' = TokenOf(p)' /\ (Renewable' <=> RenewableOf(p)') /\ Renewable' \in BOOLEAN
<1>1. "idle" \notin Writing
  BY DEF Writing, Refreshing, Caching, SigningIn
<1>2. CASE pc'[p] \in Writing
  <2>1. Writers' = {p}
    BY <1>1, <1>2 DEF Writers
  <2>2. Writer' = p
    BY <2>1 DEF Writer
  <2> QED
    BY <1>2, <2>1, <2>2 DEF TheToken, Renewable, TokenOf, RenewableOf
<1>3. CASE pc'[p] \notin Writing
  <2>1. Writers' = {}
    BY <1>1, <1>3 DEF Writers
  <2> QED
    BY <1>3, <2>1 DEF TheToken, Renewable, TokenOf, RenewableOf
<1> QED
  BY <1>2, <1>3

LEMMA AnswersSeen ==
  ASSUME NEW p \in Procs, \A q \in Procs \ {p} : pc[q] = "idle" /\ pc'[q] = "idle"
  PROVE  /\ Answers[p] = AnswerOf(p)
         /\ Answers' = [Answers EXCEPT ![p] = AnswerOf(p)']
<1>1. "idle" \notin Writing \cup {"done", "signed_in"}
  BY DEF Writing, Refreshing, Caching, SigningIn
<1> QED
  BY <1>1 DEF Answers, AnswerOf, HasToken

\* Nothing of the step is seen.
LEMMA Unseen ==
  ASSUME NEW p \in Procs, \A q \in Procs \ {p} : pc[q] = "idle" /\ pc'[q] = "idle",
         TokenOf(p)' = TokenOf(p), RenewableOf(p)' <=> RenewableOf(p),
         AnswerOf(p)' = AnswerOf(p), UNCHANGED <<issued, expired>>
  PROVE  UNCHANGED Commands!vars
<1>1. TheToken' = TheToken /\ Renewable' = Renewable
  BY TokenSeen, TokenSeenNext
<1>2. Answers' = Answers
  BY AnswersSeen DEF Answers
<1> QED
  BY <1>1, <1>2 DEF Commands!vars

-----------------------------------------------------------------------------
(* Each step of a command is one of SessionCommands or not seen.             *)

StepSeen == [Commands!Next]_(Commands!vars)

LEMMA StartUnseen ==
  ASSUME TypeInv, TakingTurns,
         NEW p \in Procs, NEW w \in Clients \cup {"person", "signin"}, Start(p, w)
  PROVE  StepSeen
<1>1. /\ UNCHANGED <<keychain, tok, ref>> /\ Quiet
      /\ \A q \in Procs \ {p} : pc'[q] = "idle"
      /\ pc'[p] \in {"label", "token", "ask_signin"}
  BY OneStarts DEF TakingTurns
<1>2. pc[p] = "idle" /\ UNCHANGED <<issued, expired>>
  BY DEF Start
<1>3. \A q \in Procs : pc[q] = "idle"
  BY <1>1 DEF Quiet
<1>4. /\ TokenOf(p)' = TokenOf(p) /\ (RenewableOf(p)' <=> RenewableOf(p))
      /\ AnswerOf(p)' = AnswerOf(p)
  BY <1>1, <1>2
     DEF TokenOf, RenewableOf, AnswerOf, HasToken, Writing, Refreshing, Caching, SigningIn
<1> QED
  BY <1>1, <1>2, <1>3, <1>4, Unseen DEF StepSeen

LEMMA FinishSeen ==
  ASSUME TypeInv, SerialInv, NEW p \in Procs, Finish(p)
  PROVE  StepSeen
<1>1. /\ UNCHANGED <<keychain, issued, expired>> /\ pc[p] \in Ended
      /\ \A q \in Procs : pc'[q] = "idle"
      /\ \A q \in Procs \ {p} : pc[q] = "idle"
  BY OneLeaves DEF Finish, Forget, SerialInv, AtMostOne
<1>2. /\ TokenOf(p)' = TokenOf(p) /\ (RenewableOf(p)' <=> RenewableOf(p))
      /\ AnswerOf(p)' = [to |-> "nobody", token |-> NoToken]
  BY <1>1 DEF TokenOf, RenewableOf, AnswerOf, HasToken, Writing, Refreshing, Caching, SigningIn, Ended
<1>3. CASE pc[p] = "denied"
  <2>1. AnswerOf(p)' = AnswerOf(p)
    BY <1>2, <1>3 DEF AnswerOf, HasToken, Writing, Refreshing, Caching, SigningIn
  <2> QED
    BY <1>1, <1>2, <2>1, Unseen DEF StepSeen
<1>4. CASE pc[p] \in {"done", "signed_in"}
  <2>1. AnswerOf(p) # [to |-> "nobody", token |-> NoToken]
    <3>1. AnswerOf(p) = [to |-> who[p], token |-> tok[p]] /\ tok[p] # NoToken
      BY <1>4, NoTokenAssumption DEF AnswerOf, HasToken, TypeInv, CommandOK
    <3>2. AnswerOf(p).token # NoToken
      BY <3>1
    <3> QED
      BY <3>2
  <2>2. TheToken' = TheToken /\ Renewable' = Renewable
    BY <1>1, <1>2, TokenSeen, TokenSeenNext
  <2>3. Commands!Leave(p)
    BY <1>1, <1>2, <2>1, <2>2, AnswersSeen DEF Commands!Leave, Commands!Nobody
  <2> QED
    BY <2>3 DEF StepSeen, Commands!Next
<1> QED
  BY <1>1, <1>3, <1>4 DEF Ended

LEMMA ExpireSeen ==
  ASSUME NEW n \in 1..MaxTokens, Expire(n)
  PROVE  StepSeen
<1>1. UNCHANGED <<TheToken, Renewable, Answers>>
  BY DEF Expire, TheToken, Renewable, Answers, Writers, Writer, HasToken
<1>2. Commands!Expire(n)
  BY <1>1 DEF Expire, Commands!Expire
<1> QED
  BY <1>2 DEF StepSeen, Commands!Next

LEMMA ReadSeen ==
  ASSUME TypeInv, SerialInv, NEW p \in Procs,
         ReadLabel(p) \/ ReadToken(p) \/ ReadExpiry(p) \/ ReadRefresh(p)
  PROVE  StepSeen
<1>1. PICK n \in PCs \ {"idle"} :
        /\ pc' = [pc EXCEPT ![p] = n]
        /\ \/ pc[p] = "label" /\ n = "token"
           \/ /\ pc[p] = "label" /\ n = "ask_client"
              /\ "get" \in Faults \/ keychain.client # who[p]
           \/ pc[p] = "token" /\ n = "expiry"
           \/ /\ pc[p] = "token" /\ n = NoStored(p)
              /\ "get" \in Faults \/ keychain.access = NoToken
           \/ pc[p] = "expiry" /\ n = "refresh" /\ StoredTokenExpired(keychain.expiry)
           \/ /\ pc[p] = "expiry" /\ n = "done"
              /\ "get" \in Faults \/ ~StoredTokenExpired(keychain.expiry)
           \/ pc[p] = "refresh" /\ n \in {"ask_refresh", NoStored(p)}
  BY ReadOutcome
<1>2. /\ UNCHANGED <<keychain, issued, expired, who>> /\ pc[p] \in Reading
      /\ pc[p] = "expiry" => UNCHANGED tok
  BY ReadOutcome
<1>3. /\ pc[p] # "idle" /\ NoStored(p) \in {"denied", "ask_client"}
      /\ pc'[p] = n
      /\ \A q \in Procs \ {p} : pc[q] = "idle" /\ pc'[q] = "idle"
  BY <1>1, <1>2, NoStoredIs, OneGoesOn DEF Reading, SerialInv, AtMostOne
<1>4. /\ n \in {"token", "expiry", "refresh", "ask_refresh", "ask_client", "denied", "done"}
      /\ n = "done" => pc[p] = "expiry"
  BY <1>1, <1>3
<1>5. TokenOf(p)' = TokenOf(p) /\ (RenewableOf(p)' <=> RenewableOf(p))
  BY <1>2, <1>3, <1>4 DEF TokenOf, RenewableOf, Reading, Writing, Refreshing, Caching, SigningIn
<1>6. AnswerOf(p) = [to |-> "nobody", token |-> NoToken]
  BY <1>2 DEF AnswerOf, HasToken, Reading, Writing, Refreshing, Caching, SigningIn
<1>7. CASE n # "done"
  <2>1. AnswerOf(p)' = AnswerOf(p)
    BY <1>3, <1>4, <1>6, <1>7 DEF AnswerOf, HasToken, Writing, Refreshing, Caching, SigningIn
  <2> QED
    BY <1>2, <1>3, <1>5, <2>1, Unseen DEF StepSeen
<1>8. CASE n = "done"
  <2>1. /\ pc[p] = "expiry" /\ Agreed /\ tok[p] = keychain.access /\ tok[p] \in Tokens
        /\ who[p] \in Clients \cup {"person"}
        /\ who[p] \in Clients => keychain.client = who[p]
        /\ "get" \in Faults \/ ~StoredTokenExpired(keychain.expiry)
    BY <1>1, <1>3, <1>4, <1>8 DEF SerialInv, AloneOK, Reads, Reading, TypeInv, CommandOK
  <2>2. AnswerOf(p)' = [to |-> who[p], token |-> keychain.access]
    BY <1>2, <1>3, <1>8, <2>1 DEF AnswerOf, HasToken
  <2>3. TheToken = keychain.access /\ TheToken' = TheToken /\ Renewable' = Renewable
    <3>1. TokenOf(p) = keychain.access
      BY <2>1 DEF TokenOf, Writing, Refreshing, Caching, SigningIn
    <3> QED
      BY <1>3, <1>5, <3>1, TokenSeen, TokenSeenNext
  <2>4. keychain.access # NoToken /\ (who[p] \in Clients => keychain.access.owner = who[p])
    BY <2>1, NoTokenAssumption, SessionAssumption DEF Agreed
  <2>5. "get" \in Faults \/ ~(keychain.access.lasts /\ keychain.access.serial \in expired)
    <3>1. keychain.access.serial # 0
      BY <2>1, SessionAssumption DEF Tokens
    <3> QED
      BY <2>1, <2>4, <3>1 DEF Agreed, StoredTokenExpired
  <2>6. Commands!Hand(p, who[p], keychain.access)
    BY <1>3, <1>6, <2>2, AnswersSeen DEF Commands!Hand, Commands!Nobody
  <2>7. Commands!Reuse(p, who[p])
    BY <1>2, <2>3, <2>4, <2>5, <2>6 DEF Commands!Reuse, Commands!RunOut
  <2> QED
    BY <2>1, <2>7 DEF StepSeen, Commands!Next
<1> QED
  BY <1>7, <1>8

\* The server gives p a token, which p is to store.
LEMMA GrantSeen ==
  ASSUME TypeInv, SerialInv, NEW p \in Procs, NEW owner, NEW n \in PCs \ {"idle"},
         pc[p] \in Asking, Grant(p, owner, n), n \in Writing, UNCHANGED <<expired, who>>
  PROVE  /\ TheToken = keychain.access /\ Renewable = (keychain.refresh # 0)
         /\ Commands!Replace(p, who[p], owner)
         /\ Renewable' \in BOOLEAN /\ (Renewable' <=> RenewableOf(p)')
         /\ pc'[p] = n
<1>1. PICK lasts \in Lifetimes :
        tok' = [tok EXCEPT ![p] = [owner |-> owner, serial |-> issued + 1, lasts |-> lasts]]
  BY DEF Grant
<1>2. /\ issued < MaxTokens /\ issued' = issued + 1
      /\ pc' = [pc EXCEPT ![p] = n] /\ pc[p] # "idle"
  BY DEF Grant, Goto, Asking
<1>3. /\ pc'[p] = n
      /\ \A q \in Procs \ {p} : pc[q] = "idle" /\ pc'[q] = "idle"
  BY <1>2, OneGoesOn DEF SerialInv, AtMostOne
<1> DEFINE t == [owner |-> owner, serial |-> issued + 1, lasts |-> lasts]
<1>4. tok'[p] = t
  BY <1>1 DEF TypeInv, TypeOK
<1>5. pc[p] \notin Writing \cup {"done", "signed_in"}
  BY DEF Asking, Writing, Refreshing, Caching, SigningIn
<1>6. TokenOf(p)' = t /\ AnswerOf(p)' = [to |-> who[p], token |-> t]
  BY <1>3, <1>4 DEF TokenOf, AnswerOf, HasToken
<1>7. AnswerOf(p) = [to |-> "nobody", token |-> NoToken]
  BY <1>5 DEF AnswerOf, HasToken
<1>8. TheToken' = t /\ Commands!Hand(p, who[p], t)
  BY <1>3, <1>6, <1>7, TokenSeenNext, AnswersSeen DEF Commands!Hand, Commands!Nobody
<1>9. Commands!Replace(p, who[p], owner)
  BY <1>2, <1>8 DEF Commands!Replace
<1>10. TheToken = keychain.access /\ Renewable = (keychain.refresh # 0)
  BY <1>3, <1>5, TokenSeen DEF TokenOf, RenewableOf
<1> QED
  BY <1>3, <1>9, <1>10, TokenSeenNext

LEMMA AskSeen ==
  ASSUME TypeInv, SerialInv, ReasonInv, NEW p \in Procs,
         AskRefresh(p) \/ AskClient(p) \/ AskSignIn(p)
  PROVE  StepSeen
<1>1. UNCHANGED <<keychain, expired, who>> /\ pc[p] \in Asking
  BY DEF AskRefresh, AskClient, AskSignIn, Asking
<1>2. pc[p] # "idle" /\ pc[p] \notin Writing \cup {"done", "signed_in"}
  BY <1>1 DEF Asking, Writing, Refreshing, Caching, SigningIn
<1>3. Agreed /\ Reason(p) /\ AloneOK(p)
  BY <1>1, <1>2 DEF SerialInv, AloneOK, Reads, ReasonInv
<1>4. /\ {"refreshed_token", "cache_token", "signin_label"} \subseteq Writing
      /\ {"refreshed_token", "cache_token", "signin_label", "denied"} \subseteq PCs \ {"idle"}
  BY DEF PCs, Ended, Writing, Refreshing, Caching, SigningIn
<1>5. ASSUME Goto(p, "denied"), UNCHANGED issued
      PROVE  StepSeen
  <2>1. /\ pc'[p] = "denied"
        /\ \A q \in Procs \ {p} : pc[q] = "idle" /\ pc'[q] = "idle"
    BY <1>2, <1>4, <1>5, OneGoesOn DEF Goto, SerialInv, AtMostOne
  <2>2. "denied" \notin Writing \cup {"done", "signed_in"}
    BY DEF Writing, Refreshing, Caching, SigningIn
  <2>3. /\ TokenOf(p)' = TokenOf(p) /\ (RenewableOf(p)' <=> RenewableOf(p))
        /\ AnswerOf(p)' = AnswerOf(p)
    BY <1>1, <1>2, <2>1, <2>2 DEF TokenOf, RenewableOf, AnswerOf, HasToken
  <2> QED
    BY <1>1, <1>5, <2>1, <2>3, Unseen DEF StepSeen
<1>6. CASE AskRefresh(p)
  <2>1. /\ pc[p] = "ask_refresh" /\ who[p] = "person" /\ ref[p] = keychain.refresh /\ ref[p] # 0
        /\ NoStored(p) = "denied" /\ Doubt
    BY <1>3, <1>6 DEF AskRefresh, AloneOK, Reads, NoStored, TypeInv, CommandOK, Reason
  <2>2. keychain.access # NoToken /\ keychain.access.owner = ref[p]
    BY <1>3, <2>1 DEF Agreed
  <2>3. CASE Grant(p, ref[p], "refreshed_token")
    <3>1. /\ TheToken = keychain.access /\ Renewable = (keychain.refresh # 0)
          /\ Commands!Replace(p, who[p], ref[p])
          /\ Renewable' \in BOOLEAN /\ (Renewable' <=> RenewableOf(p)')
          /\ pc'[p] = "refreshed_token"
      BY <1>1, <1>4, <2>3, GrantSeen
    <3>2. RenewableOf(p)'
      BY <3>1 DEF RenewableOf, Writing, Refreshing
    <3>3. Renewable' = Renewable /\ Renewable
      BY <2>1, <3>1, <3>2
    <3>4. Commands!Doubtful
      BY <2>1, <3>1 DEF Doubt, Commands!Doubtful, Commands!RunOut
    <3>5. Commands!Renew(p)
      BY <2>1, <2>2, <3>1, <3>3, <3>4 DEF Commands!Renew
    <3> QED
      BY <3>5 DEF StepSeen, Commands!Next
  <2> QED
    BY <1>5, <1>6, <2>1, <2>3 DEF AskRefresh
<1>7. CASE AskClient(p)
  <2>1. /\ pc[p] = "ask_client" /\ who[p] \in Clients
        /\ Doubt \/ keychain.access.owner # who[p]
    BY <1>3, <1>7 DEF AskClient, TypeInv, CommandOK, Reason
  <2>2. CASE Grant(p, who[p], "cache_token")
    <3>1. /\ TheToken = keychain.access
          /\ Commands!Replace(p, who[p], who[p])
          /\ Renewable' \in BOOLEAN /\ (Renewable' <=> RenewableOf(p)')
          /\ pc'[p] = "cache_token"
      BY <1>1, <1>4, <2>2, GrantSeen
    <3>2. Renewable' = FALSE
      BY <1>4, <3>1 DEF RenewableOf, Refreshing, SigningIn
    <3>3. Commands!Doubtful \/ TheToken.owner # who[p]
      BY <2>1, <3>1 DEF Doubt, Commands!Doubtful, Commands!RunOut
    <3>4. Commands!Obtain(p, who[p])
      BY <3>1, <3>2, <3>3 DEF Commands!Obtain
    <3> QED
      BY <2>1, <3>4 DEF StepSeen, Commands!Next
  <2> QED
    BY <1>5, <1>7, <2>2 DEF AskClient
<1>8. CASE AskSignIn(p)
  <2>1. pc[p] = "ask_signin" /\ who[p] = "signin"
    BY <1>3, <1>8 DEF AskSignIn, Reason
  <2>2. CASE /\ Grant(p, issued + 1, "signin_label")
             /\ \E has \in {FALSE, RefreshTokens} :
                  ref' = [ref EXCEPT ![p] = IF has THEN issued + 1 ELSE 0]
    <3>1. /\ Commands!Replace(p, "signin", issued + 1)
          /\ Renewable' \in BOOLEAN /\ (Renewable' <=> RenewableOf(p)')
          /\ pc'[p] = "signin_label"
      BY <1>1, <1>4, <2>1, <2>2, GrantSeen
    <3>2. RenewableOf(p)' <=> ref'[p] # 0
      BY <1>4, <3>1 DEF RenewableOf, Refreshing, SigningIn
    <3>3. ASSUME RefreshTokens = FALSE PROVE ref'[p] = 0
      <4>1. PICK has \in {FALSE} : ref' = [ref EXCEPT ![p] = IF has THEN issued + 1 ELSE 0]
        BY <2>2, <3>3
      <4>2. ref' = [ref EXCEPT ![p] = 0]
        BY <4>1
      <4> QED
        BY <4>2 DEF TypeInv, TypeOK
    <3>4. Renewable' \in {FALSE, RefreshTokens}
      BY <3>1, <3>2, <3>3, SessionAssumption
    <3>5. Commands!SignIn(p)
      BY <3>1, <3>4 DEF Commands!SignIn
    <3> QED
      BY <3>5 DEF StepSeen, Commands!Next
  <2> QED
    BY <1>5, <1>8, <2>2 DEF AskSignIn
<1> QED
  BY <1>6, <1>7, <1>8

LEMMA PutSeen ==
  ASSUME TypeInv, SerialInv, TakingTurns, NEW p \in Procs,
         \/ StoreRefreshedToken(p) \/ StoreRefreshedRefresh(p) \/ StoreRefreshedExpiry(p)
         \/ CacheToken(p) \/ CacheExpiry(p) \/ CacheLabel(p) \/ CacheRefresh(p)
         \/ SignInClearLabel(p) \/ SignInReplaceRefresh(p) \/ SignInStoreToken(p)
         \/ SignInStoreExpiry(p)
  PROVE  StepSeen
<1>1. PICK n \in PCs \ {"idle"} :
        /\ pc' = [pc EXCEPT ![p] = n]
        /\ \/ WrittenNext(p, n) /\ Written(p)
           \/ "set" \in Faults /\ RefusedNext(p, n) /\ UNCHANGED keychain
  BY PutIs
<1>2. /\ UNCHANGED <<who, tok, ref, signedIn, since>> /\ pc[p] \in Writing
      /\ WrittenNext(p, n) /\ Written(p)
  BY <1>1, PutIs DEF TakingTurns, Writing
<1>3. UNCHANGED <<issued, expired>>
  BY DEF StoreRefreshedToken, StoreRefreshedRefresh, StoreRefreshedExpiry, StoreExpiry, CacheToken,
         CacheExpiry, CacheLabel, CacheRefresh, SignInClearLabel, SignInReplaceRefresh,
         SignInStoreToken, SignInStoreExpiry, Put
<1>4. pc[p] # "idle" /\ AloneOK(p)
  BY <1>2 DEF Writing, Refreshing, Caching, SigningIn, SerialInv
<1>5. /\ pc'[p] = n
      /\ \A q \in Procs \ {p} : pc[q] = "idle" /\ pc'[q] = "idle"
  BY <1>1, <1>4, OneGoesOn DEF SerialInv, AtMostOne
<1>6. AnswerOf(p)' = AnswerOf(p)
  BY <1>2, <1>5 DEF AnswerOf, HasToken, WrittenNext, Writing, Refreshing, Caching, SigningIn
<1>7. CASE n \notin {"done", "signed_in"}
  <2>1. /\ n \in Writing
        /\ n \in Refreshing <=> pc[p] \in Refreshing
        /\ n \in SigningIn <=> pc[p] \in SigningIn
    BY <1>2, <1>7 DEF WrittenNext, Writing, Refreshing, Caching, SigningIn
  <2>2. TokenOf(p)' = TokenOf(p) /\ (RenewableOf(p)' <=> RenewableOf(p))
    BY <1>2, <1>5, <2>1 DEF TokenOf, RenewableOf
  <2> QED
    BY <1>3, <1>5, <1>6, <2>2, Unseen DEF StepSeen
<1>8. CASE n \in {"done", "signed_in"}
  <2>1. /\ pc[p] \in {"refreshed_expiry", "cache_refresh", "signin_expiry"}
        /\ n \notin Writing
        /\ keychain'.access = keychain.access
        /\ keychain'.refresh = IF pc[p] = "cache_refresh" THEN 0 ELSE keychain.refresh
    BY <1>2, <1>8 DEF WrittenNext, Written, Writing, Refreshing, Caching, SigningIn
  <2>2. keychain.access = tok[p]
    BY <1>4, <2>1 DEF AloneOK, Refreshes, Caches, SignsIn, Caching
  <2>3. TokenOf(p)' = TokenOf(p)
    BY <1>2, <1>5, <2>1, <2>2 DEF TokenOf
  <2>4. pc[p] = "refreshed_expiry" => keychain.refresh # 0
    <3>1. pc[p] = "refreshed_expiry" => keychain.refresh = tok[p].owner /\ tok[p] \in Tokens
      BY <1>4 DEF AloneOK, Refreshes, Refreshing, TypeInv, CommandOK
    <3>2. \A t \in Tokens : t.owner # 0
      BY SessionAssumption DEF Tokens
    <3> QED
      BY <3>1, <3>2
  <2>5. pc[p] = "signin_expiry" => keychain.refresh = ref[p]
    BY <1>4 DEF AloneOK, SignsIn
  <2>6. RenewableOf(p)' <=> RenewableOf(p)
    BY <1>2, <1>5, <2>1, <2>4, <2>5 DEF RenewableOf, Refreshing, SigningIn
  <2> QED
    BY <1>3, <1>5, <1>6, <2>3, <2>6, Unseen DEF StepSeen
<1> QED
  BY <1>7, <1>8

-----------------------------------------------------------------------------
(* The refinement.                                                           *)

LEMMA CommandsInit == Init => Commands!Init
<1> SUFFICES ASSUME Init PROVE Commands!Init
  OBVIOUS
<1>1. \A p \in Procs : pc[p] \notin Writing \cup {"done", "signed_in"}
  BY DEF Init, Writing, Refreshing, Caching, SigningIn
<1>2. Writers = {}
  BY <1>1 DEF Writers
<1>3. TheToken = NoToken /\ Renewable = FALSE
  BY <1>2 DEF Init, TheToken, Renewable
<1>4. Answers = [p \in Procs |-> [to |-> "nobody", token |-> NoToken]]
  BY <1>1 DEF Answers, HasToken
<1> QED
  BY <1>3, <1>4 DEF Init, Commands!Init, Commands!Nobody

LEMMA CommandsNext ==
  TakingTurns => (TypeInv /\ SerialInv /\ ReasonInv /\ [Next]_vars => StepSeen)
<1> SUFFICES ASSUME TakingTurns, TypeInv, SerialInv, ReasonInv, [Next]_vars PROVE StepSeen
  OBVIOUS
<1>1. CASE UNCHANGED vars
  BY <1>1 DEF vars, StepSeen, Commands!vars, TheToken, Renewable, Answers, Writers, Writer, HasToken
<1>2. ASSUME NEW p \in Procs, Crash(p) PROVE FALSE
  BY <1>2 DEF Crash, TakingTurns
<1> QED
  BY <1>1, <1>2, StartUnseen, FinishSeen, ExpireSeen, ReadSeen, AskSeen, PutSeen DEF Next

\* Commands that take turns are one step each: a client's command hands out the
\* stored token if it is its own and has not run out, and otherwise stores a new
\* one and hands out that; a person's renews the stored session only when its
\* token is in doubt.
THEOREM ImplementsCommands == TakingTurns /\ Spec => CommandsTakeOneStep
<1>1. CASE TakingTurns
  <2>1. Init => TypeInv /\ SerialInv /\ ReasonInv
    BY TypeInvInit, SerialInit, ReasonInit
  <2>2. TypeInv /\ SerialInv /\ ReasonInv /\ [Next]_vars => (TypeInv /\ SerialInv /\ ReasonInv)'
    BY <1>1, TypeInvNext, SerialNext, ReasonNext
  <2>3. TypeInv /\ SerialInv /\ ReasonInv /\ [Next]_vars => [Commands!Next]_(Commands!vars)
    BY <1>1, CommandsNext DEF StepSeen
  <2> QED
    BY <2>1, <2>2, <2>3, CommandsInit, PTL DEF Spec, CommandsTakeOneStep, Commands!Spec
<1>2. CASE ~TakingTurns
  BY <1>2
<1> QED
  BY <1>1, <1>2
=============================================================================
