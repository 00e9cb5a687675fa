--------------------------- MODULE MCOfflineSync ---------------------------
(***************************************************************************)
(* OfflineSync with two edits of one file, two tabs and one retry of each  *)
(* edit; for liveness with one edit, whose requests may overlap.           *)
(***************************************************************************)
EXTENDS OfflineSync, TLC

Symmetries == Permutations(Actions) \union Permutations(Tabs)
=============================================================================
