---------------------------- MODULE MCRecovery ----------------------------
(***************************************************************************)
(* A small instance of Recovery: three accounts that may each own and      *)
(* guard, two attempts, two distinct parts and two configurations.         *)
(***************************************************************************)
EXTENDS Recovery, TLC

Symmetries ==
  Permutations(Accounts) \union Permutations(Attempts) \union Permutations(Parts)
=============================================================================
