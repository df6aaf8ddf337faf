--------------------------- MODULE MCFinalizeTokens ---------------------------
(* Finite instances of FinalizeTokens. *)
EXTENDS FinalizeTokens, TLC

\* Processes, nonces and digests are interchangeable.
Symm == Permutations(Procs) \cup Permutations(Nonces) \cup Permutations(Digests)

\* The environments of a run, one per question it asks.
AccessTokenOnly   == {"access_token"}
EveryEnv          == {"access_token", "oidc_token", "client_credentials", "none"}
=============================================================================
