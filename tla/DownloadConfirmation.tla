------------------------- MODULE DownloadConfirmation -------------------------
(***************************************************************************)
(* What pull.prepare and pull.finalize promise of a download, with no       *)
(* processes, keys, clock or memory: a finalize intent is consumed once,    *)
(* and a download is reported confirmed only by the step that consumes its  *)
(* intent.  An intent whose answer was lost is wasted: it never confirms    *)
(* anything afterwards.  FinalizeTokens implements it.                      *)
(***************************************************************************)
CONSTANTS Procs, Nonces, MaybeDigest

VARIABLES
  offered,    \* pull tokens signed
  consumed,   \* those whose intent the server consumed
  confirmed   \* the confirmations reported to callers

vars == <<offered, consumed, confirmed>>

Confirmations == [by : Procs, nonce : Nonces, digest : MaybeDigest]

Init == offered = {} /\ consumed = {} /\ confirmed = {}

Offer(n) ==
  /\ n \notin offered
  /\ offered' = offered \cup {n}
  /\ UNCHANGED <<consumed, confirmed>>

Consume(n) ==
  /\ n \in offered \ consumed
  /\ consumed' = consumed \cup {n}
  /\ UNCHANGED offered

Confirm(c) == Consume(c.nonce) /\ confirmed' = confirmed \cup {c}

Waste(n) == Consume(n) /\ UNCHANGED confirmed

Next ==
  \/ \E n \in Nonces : Offer(n) \/ Waste(n)
  \/ \E c \in Confirmations : Confirm(c)

Spec == Init /\ [][Next]_vars
=============================================================================
