--------------------------- MODULE MCBrowserSignIn ---------------------------
(* A finite instance of BrowserSignIn. *)
EXTENDS BrowserSignIn, TLC

Symm == Permutations(Procs) \cup Permutations(SignIns)

\* Auth endpoints: Locktivity's, an operator's, and the same host on another port
\* with a trailing slash.
Default  == [remoteApi |-> NoUrl, api |-> NoUrl, remoteAuth |-> NoUrl, auth |-> NoUrl,
             strict |-> FALSE]
Operator == [Default EXCEPT !.remoteAuth = Url("other", "none"), !.auth = DefaultAuthBaseURL]
Slashed  == [Default EXCEPT !.auth = [Url("other", "slash") EXCEPT !.port = "8443"]]
Strict   == [Operator EXCEPT !.strict = TRUE]

Auto(env) == [mode |-> "auto", access |-> FALSE, oidc |-> FALSE, client |-> FALSE, env |-> env]

\* A person's shell at each endpoint, one that does not start, and machines:
\* one with two kinds of credentials, one bound to its client's, one bound to a
\* client's it does not have, and one with a misspelt mode.
SomeEnvironments ==
  {Auto(Default), Auto(Slashed), Auto(Strict),
   [Auto(Operator) EXCEPT !.mode = "all"],
   [Auto(Default) EXCEPT !.client = TRUE, !.oidc = TRUE],
   [Auto(Default) EXCEPT !.mode = "client_credentials_only", !.client = TRUE, !.oidc = TRUE],
   [Auto(Default) EXCEPT !.mode = "client_credentials_only"],
   [Auto(Default) EXCEPT !.mode = "invalid", !.access = TRUE]}
=============================================================================
