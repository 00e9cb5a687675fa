-------------------------- MODULE MCPublicUploads --------------------------
(***************************************************************************)
(* PublicUploads with two files, as one batch or two, and a retry or a     *)
(* second batch.                                                           *)
(***************************************************************************)
EXTENDS PublicUploads, TLC
=============================================================================
