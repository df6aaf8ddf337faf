---------------------------- MODULE MCReleaseRetry ----------------------------
(* ReleaseRetry with the constants of the code, in seconds. *)
EXTENDS ReleaseRetry

\* No usable header, a short wait, one above the cap.
ShortHeaders == {0, 7, 100}
=============================================================================
