-------------------------- MODULE MCExternalAccess --------------------------
(***************************************************************************)
(* ExternalAccess with two links and two requests, which may both be        *)
(* fetches of one link, or revocations of everything, or both.             *)
(***************************************************************************)
EXTENDS ExternalAccess, TLC

Symmetries == Permutations(Links) \union Permutations(Requests)
=============================================================================
