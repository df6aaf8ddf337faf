------------------------------ MODULE MCRunsSync ------------------------------
(* A finite instance of RunsSync: two runs with two outputs and one. *)
EXTENDS RunsSync

TwoRuns == <<2, 1>>
=============================================================================
