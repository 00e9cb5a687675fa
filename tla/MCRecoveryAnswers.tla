------------------------- MODULE MCRecoveryAnswers -------------------------
(***************************************************************************)
(* The instance of MCRecovery with the answers of RecoveryAnswers.         *)
(***************************************************************************)
EXTENDS RecoveryAnswers, TLC

Symmetries ==
  Permutations(Accounts) \union Permutations(Attempts) \union Permutations(Parts)
=============================================================================
