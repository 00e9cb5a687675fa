--------------------------- MODULE MCCredentials ---------------------------
(***************************************************************************)
(* Credentials with two devices, two chosen passwords, one assigned one,   *)
(* one PIN, two wrong PINs to the lock and one recovery.                   *)
(***************************************************************************)
EXTENDS Credentials, TLC

Symmetries == Permutations(Chosen) \union Permutations(Clients)
=============================================================================
