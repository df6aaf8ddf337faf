------------------------------ MODULE Endpoints ------------------------------
(***************************************************************************)
(* The endpoints an adapter process talks to                                *)
(* (internal/locktivity/endpoints.go) and the part of the keychain that     *)
(* belongs to an auth endpoint (internal/auth/keychain.go, keyNamespace).   *)
(*                                                                          *)
(* A URL is a record of what these decisions read; odd stands for userinfo, *)
(* a query or a fragment, path for "", "/" or something longer.             *)
(***************************************************************************)
CONSTANTS
  NoUrl,      \* a variable that is unset
  DevBuild    \* built with the dev tag

Urls == [scheme : {"https", "http"}, host : {"api", "app", "other", ""},
         port : {"none", "443", "8443"}, path : {"none", "slash", "sub"}, odd : BOOLEAN]

ASSUME BuildAssumption == DevBuild \in BOOLEAN /\ NoUrl \notin Urls

Url(host, path) ==
  [scheme |-> "https", host |-> host, port |-> "none", path |-> path, odd |-> FALSE]

DefaultBaseURL     == Url("api", "none")
DefaultAuthBaseURL == Url("app", "none")

\* The environment: EPACK_REMOTE_ENDPOINT, LOCKTIVITY_ENDPOINT, the same two
\* for the auth endpoint, and strict production mode.
EndpointEnvs == [remoteApi : Urls \cup {NoUrl}, api : Urls \cup {NoUrl},
                 remoteAuth : Urls \cup {NoUrl}, auth : Urls \cup {NoUrl},
                 strict : BOOLEAN]

FirstNonEmpty(a, b) == IF a # NoUrl THEN a ELSE b

CustomAPI(env)  == FirstNonEmpty(env.remoteApi, env.api)
CustomAuth(env) == FirstNonEmpty(env.remoteAuth, env.auth)

\* validateCustomEndpoint.
Valid(u) ==
  /\ u.scheme = "https" \/ DevBuild
  /\ u.host # ""
  /\ ~u.odd

\* ResolveEndpointConfig: when it fails there is no handler, and no process.
Resolves(env) ==
  /\ \A u \in {CustomAPI(env), CustomAuth(env)} \ {NoUrl} : Valid(u) /\ ~env.strict

AuthURL(env) == FirstNonEmpty(CustomAuth(env), DefaultAuthBaseURL)

\* NewOAuth cuts a trailing slash off.
BaseURL(env) ==
  IF AuthURL(env).path = "slash" THEN [AuthURL(env) EXCEPT !.path = "none"] ELSE AuthURL(env)

\* isDefaultAllowedAuthEndpoint.
LocktivitysOwn(u) == u.scheme = "https" /\ u.host = "app" /\ u.port \in {"none", "443"}

\* A mistake: an operator's own endpoint is forgotten.
DefaultOnly(u, env) == Valid(u) /\ LocktivitysOwn(u)

\* IsAllowedAllModeAuthURL, which resolves the environment again.
AllowedAuthURL(u, env) ==
  /\ Valid(u)
  /\ LocktivitysOwn(u) \/ CustomAuth(env) = u

\* A mistake: the host alone.
HostOnly(u) == [scheme |-> "", host |-> u.host, port |-> ""]

\* keyNamespace: sessions of auth endpoints that differ in these are apart.
KeyNamespace(u) ==
  [scheme |-> u.scheme, host |-> u.host,
   port |-> IF u.port # "none" THEN u.port
            ELSE IF u.scheme = "https" THEN "443" ELSE "80"]
=============================================================================
