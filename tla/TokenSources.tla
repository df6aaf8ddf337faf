----------------------------- MODULE TokenSources -----------------------------
(***************************************************************************)
(* Which credential a command acts with: EffectiveAuthMode                  *)
(* (internal/auth/mode.go), GetToken (internal/auth/oauth.go) and the       *)
(* identity lookup of auth.whoami (internal/remote/handler.go).             *)
(*                                                                          *)
(* GetToken reads and writes keychain entries one after another, and other  *)
(* processes do so in between (StoredSession has the single accesses).  So  *)
(* here a part of the keychain is the owner of its access token and all     *)
(* whose tokens have been there: a command may come to act with any of      *)
(* these, by what it read earlier, by a refresh token that stayed behind,   *)
(* or because a token of theirs was under the label of a client.            *)
(***************************************************************************)
EXTENDS Endpoints

CONSTANTS
  SignIns,    \* the sign-ins that may be started
  Nobody

ASSUME OwnersAssumption ==
  /\ Nobody \notin SignIns
  /\ "machine" \notin SignIns \cup {Nobody}

Modes == {"auto", "all", "client_credentials_only", "invalid"}

\* A process's environment.
Configs == [mode : Modes, access : BOOLEAN, oidc : BOOLEAN, client : BOOLEAN,
            env : EndpointEnvs]

Owners   == SignIns \cup {"machine", Nobody}
Sessions == [token : Owners, kept : SUBSET (SignIns \cup {"machine"})]

NoSession == [token |-> Nobody, kept |-> {}]

\* SetToken, with a token of o.
WithToken(s, o) == [token |-> o, kept |-> s.kept \cup {o}]

-----------------------------------------------------------------------------
AuthEndpointAllowed(c) == AllowedAuthURL(BaseURL(c.env), c.env)

\* validateAuthMode.
ModeOK(c) ==
  /\ c.mode # "invalid"
  /\ c.mode = "all" => AuthEndpointAllowed(c)

\* A mistake: a stored session before the credentials of the environment.
StoredFirst(c, s) ==
  IF c.access THEN "access_token"
  ELSE IF ~ModeOK(c) THEN "error"
  ELSE IF s.token # Nobody THEN "stored"
  ELSE IF c.oidc THEN "oidc"
  ELSE IF c.client THEN "client"
  ELSE "stored"

\* GetToken: the first source that decides.
Source(c, s) ==
  IF c.access THEN "access_token"
  ELSE IF ~ModeOK(c) THEN "error"
  ELSE IF c.mode = "client_credentials_only" THEN (IF c.client THEN "client" ELSE "error")
  ELSE IF c.oidc THEN "oidc"
  ELSE IF c.client THEN "client"
  ELSE "stored"

\* What a source may come to: whom the command acts as, and the session after it.
Refused(s)   == [owner |-> Nobody, session |-> s]
AsMachine(s) == [owner |-> "machine", session |-> s]

\* getUsableStoredToken: a token that was read, or that a refresh brought and
\* SetToken stored.
FromKeychain(s) ==
  UNION {{[owner |-> o, session |-> s], [owner |-> o, session |-> WithToken(s, o)]} : o \in s.kept}

StoredToken(s) == {Refused(s)} \cup FromKeychain(s)

\* getOrFetchClientCredentials: a cached token, or a new one, which SetToken
\* caches if it can.
ClientToken(s) == StoredToken(s) \cup {AsMachine(s), AsMachine(WithToken(s, "machine"))}

GetToken(c, s) ==
  LET source == Source(c, s) IN
  CASE source = "access_token" -> {AsMachine(s)}
    [] source = "oidc"         -> {AsMachine(s), Refused(s)}
    [] source = "client"       -> ClientToken(s)
    [] source = "stored"       -> StoredToken(s)
    [] source = "error"        -> {Refused(s)}

-----------------------------------------------------------------------------
\* A mistake: the way of every other command.
WhoamiLikeOthers(c, s) == GetToken(c, s) \cup {Refused(s)}

\* AuthWhoami asks with the stored token, expired or not; the server may refuse
\* it, and then it is nobody's.
Whoami(c, s) ==
  {Refused(s)} \cup
  IF s.token = Nobody THEN GetToken(c, s) ELSE {[owner |-> s.token, session |-> s]}

\* When the Get fails, whatever is stored, it asks as other commands do.
WhoamiUnread(c, s) == {Refused(s)} \cup GetToken(c, s)

\* buildCapabilities: auth_login, which epack reads before it asks for a sign-in.
LoginAdvertised(c) == c.mode \notin {"invalid", "client_credentials_only"}

\* allowBrowserSignIn.
SignInAllowed(c) ==
  /\ c.mode \notin {"invalid", "client_credentials_only"}
  /\ AuthEndpointAllowed(c)
===============================================================================
