--------------------------- MODULE MCAdapterProcess ---------------------------
(***************************************************************************)
(* A small instance of AdapterProcess: both intervals within the clock's   *)
(* reach, every status, a code of the API's own, and messages that hold the *)
(* words of another code.                                                   *)
(***************************************************************************)
EXTENDS AdapterProcess

MCInterval == [op \in Limited |-> IF op = "auth.login" THEN 2 ELSE 1]

Json(status, code, words) == [status |-> status, json |-> TRUE, code |-> code, words |-> words]

MCReplies ==
  {Json(status, "none", {}) : status \in Statuses} \cup
  {Json("limited", "none", {"auth_required"}), Json("accepted", "none", {"not_found"}),
   Json("other", "conflict", {}), Json("forbidden", "none", {"auth_required"}),
   Json("forbidden", "unknown", {}),
   [status |-> "missing", json |-> FALSE, code |-> "none", words |-> {}]}
=============================================================================
