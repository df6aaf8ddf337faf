---------------------------- MODULE MCSigningKeys ----------------------------
(***************************************************************************)
(* A small instance of SigningKeys: three keys, one to a page.              *)
(***************************************************************************)
EXTENDS SigningKeys
=============================================================================
