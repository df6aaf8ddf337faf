--------------------------- MODULE MCStoredSession ---------------------------
(* Finite instances of StoredSession. *)
EXTENDS StoredSession, TLC

\* Processes are interchangeable, and so are clients.
Symm == Permutations(Procs) \cup Permutations(Clients)

NoFaults  == {}
AllFaults == {"crash", "set", "get"}

\* Whether the server sends expires_in.
Always    == {TRUE}
Sometimes == {TRUE, FALSE}
=============================================================================
