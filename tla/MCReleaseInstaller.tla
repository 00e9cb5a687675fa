------------------------- MODULE MCReleaseInstaller -------------------------
(***************************************************************************)
(* ReleaseInstaller with three runs and two builds.                        *)
(***************************************************************************)
EXTENDS ReleaseInstaller, TLC

Symmetries == Permutations(Runs) \union Permutations(Builds)
=============================================================================
