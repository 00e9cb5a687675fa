--------------------------- MODULE MCVaultSession ---------------------------
(***************************************************************************)
(* VaultSession with two files of different kinds, two credentials, and    *)
(* loads that outlive a lock, a reload or the preview of another file.     *)
(***************************************************************************)
EXTENDS VaultSession, TLC

Symmetries == Permutations(Files)
TwoKinds == \A f, g \in Files : f # g => kind[f] # kind[g]
MCInit == Init /\ TwoKinds
MCSpec == MCInit /\ [][Next]_vars
=============================================================================
