--------------------------- MODULE OutputDelivery ---------------------------
(***************************************************************************)
(* What runs.sync owes its caller for the outputs of the runs it was given: *)
(* every output meets one fate, once and for all, and the answer is given   *)
(* after the last of them.  A request that is refused or dies never gives   *)
(* its answer.                                                              *)
(***************************************************************************)
CONSTANT Outputs

VARIABLES
  fate,       \* of each output
  answered    \* the request was answered with success

\* delivered: stored, and confirmed if the server asked for it.  unasked: the
\* server wanted no upload, or the run's result.json did not list it.
Fates == {"delivered", "failed", "unasked"}

Init ==
  /\ fate = [o \in Outputs |-> "pending"]
  /\ answered = FALSE

Decide ==
  /\ ~answered
  /\ \E D \in SUBSET {o \in Outputs : fate[o] = "pending"}, f \in Fates :
       fate' = [o \in Outputs |-> IF o \in D THEN f ELSE fate[o]]
  /\ UNCHANGED answered

Answer ==
  /\ ~answered
  /\ \A o \in Outputs : fate[o] \in Fates
  /\ answered' = TRUE
  /\ UNCHANGED fate

Spec == Init /\ [][Decide \/ Answer]_<<fate, answered>>
=============================================================================
