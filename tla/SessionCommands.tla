--------------------------- MODULE SessionCommands ---------------------------
(***************************************************************************)
(* What the commands of StoredSession come to while they take turns: the    *)
(* keychain holds one token and the means to renew it or not, and a command *)
(* that succeeds is one step, which hands out a token of the one who asked  *)
(* and leaves that very token behind.  One that fails leaves no trace.      *)
(***************************************************************************)
EXTENDS Integers

CONSTANTS
  Procs, Clients, NoToken, RefreshTokens, Lifetimes, MaxTokens,
  GetsMayFail    \* may a stored entry be taken for an absent one?

VARIABLES
  token,      \* the stored token
  renewable,  \* is there a refresh token of its session?
  issued, expired,
  answer      \* answer[p]: the token p's command got, and for whom

vars == <<token, renewable, issued, expired, answer>>

Nobody == [to |-> "nobody", token |-> NoToken]

Init ==
  /\ token = NoToken
  /\ renewable = FALSE
  /\ issued = 0
  /\ expired = {}
  /\ answer = [p \in Procs |-> Nobody]

Expire(n) ==
  /\ n \in (1..issued) \ expired
  /\ expired' = expired \cup {n}
  /\ UNCHANGED <<token, renewable, issued, answer>>

RunOut == token.lasts /\ token.serial \in expired

\* The stored token may be passed over: there is none, it has run out, or, as it
\* came without a lifetime, it is taken for an older one that has.
Doubtful == GetsMayFail \/ token = NoToken \/ ~token.lasts \/ RunOut

Hand(p, w, t) ==
  /\ answer[p] = Nobody
  /\ answer' = [answer EXCEPT ![p] = [to |-> w, token |-> t]]

\* A client is given none but its own token; a person the stored one.
Reuse(p, w) ==
  /\ token # NoToken
  /\ w \in Clients => token.owner = w
  /\ GetsMayFail \/ ~RunOut
  /\ Hand(p, w, token)
  /\ UNCHANGED <<token, renewable, issued, expired>>

\* The server's next token takes the place of the stored one.
Replace(p, w, owner) ==
  /\ issued < MaxTokens
  /\ issued' = issued + 1
  /\ \E lasts \in Lifetimes :
       LET t == [owner |-> owner, serial |-> issued + 1, lasts |-> lasts]
       IN token' = t /\ Hand(p, w, t)
  /\ UNCHANGED expired

Renew(p) ==
  /\ renewable
  /\ Doubtful
  /\ Replace(p, "person", token.owner)
  /\ UNCHANGED renewable

Obtain(p, c) ==
  /\ Doubtful \/ token.owner # c
  /\ Replace(p, c, c)
  /\ renewable' = FALSE

SignIn(p) ==
  /\ Replace(p, "signin", issued + 1)
  /\ renewable' \in {FALSE, RefreshTokens}

Leave(p) ==
  /\ answer[p] # Nobody
  /\ answer' = [answer EXCEPT ![p] = Nobody]
  /\ UNCHANGED <<token, renewable, issued, expired>>

Next ==
  \/ \E n \in 1..MaxTokens : Expire(n)
  \/ \E p \in Procs :
       \/ \E w \in Clients \cup {"person"} : Reuse(p, w)
       \/ Renew(p) \/ SignIn(p) \/ Leave(p)
       \/ \E c \in Clients : Obtain(p, c)

Spec == Init /\ [][Next]_vars
=============================================================================
