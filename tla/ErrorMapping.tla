----------------------------- MODULE ErrorMapping -----------------------------
(***************************************************************************)
(* How an answer of the API becomes a code of the protocol: the error the   *)
(* client makes of it (internal/locktivity/client.go) and toRemoteError     *)
(* (internal/remote/handler.go), which looks for words in its text.         *)
(*                                                                          *)
(* A text is the set of protocol codes whose words occur in it.  A reply is *)
(* its status, and whether its body is JSON, with the code it carries (none *)
(* of them, or one of the API's own without any of these words) and the     *)
(* words of its message.                                                    *)
(***************************************************************************)
EXTENDS Naturals

\* In the order in which toRemoteError looks for their words.
Order == <<"auth_required", "forbidden", "not_found", "conflict", "rate_limited">>

Words == {Order[i] : i \in DOMAIN Order}

ProtocolCodes == Words \cup {"server_error", "invalid_request", "unsupported_protocol"}

\* 200, 202, 429, 401, 403, 404, any other error, or no reply.
Statuses == {"ok", "accepted", "limited", "unauthorized", "forbidden", "missing", "other", "lost"}

Replies == [status : Statuses, json : BOOLEAN, code : Words \cup {"none", "unknown"},
            words : SUBSET Words]

\* statusCodes.
StatusCode(status) ==
  CASE status = "unauthorized" -> "auth_required"
    [] status = "forbidden"    -> "forbidden"
    [] status = "missing"      -> "not_found"
    [] OTHER                   -> "none"

\* handleErrorResponse: the code, or without any the one its status stands for, and
\* the message; a body that is not JSON leaves only the number of the status.
ErrorWords(reply) ==
  IF ~reply.json THEN {}
  ELSE reply.words \cup
       (({IF reply.code = "none" THEN StatusCode(reply.status) ELSE reply.code}) \cap Words)

\* doJSON: ErrAccepted has the message, ErrRateLimited says "rate_limited" too.
ErrorText(reply) ==
  CASE reply.status = "accepted" -> IF reply.json THEN reply.words ELSE {}
    [] reply.status = "limited"  -> {"rate_limited"} \cup IF reply.json THEN reply.words ELSE {}
    [] reply.status = "lost"     -> {}
    [] OTHER                     -> ErrorWords(reply)

FirstCode(text) ==
  LET found == {i \in DOMAIN Order : Order[i] \in text} IN
  IF found = {} THEN "server_error"
  ELSE Order[CHOOSE i \in found : \A j \in found : i <= j]

\* A mistake: no typed errors.
TextOnly(reply) == FirstCode(ErrorText(reply))

\* toRemoteError: ErrRateLimited is known by its type, the rest by its text.
ToRemoteError(reply) ==
  IF reply.status = "limited" THEN "rate_limited" ELSE FirstCode(ErrorText(reply))
=============================================================================
