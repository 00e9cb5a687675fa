---------------------------- MODULE MCFolderLinks ----------------------------
(***************************************************************************)
(* FolderLinks with two files and two links, one of them older than the    *)
(* owner's copies of folder keys, in two scopes.  Busy: two folders, every *)
(* action, three changes and activities.  Making: three folders, and only  *)
(* the making of a link beside four changes made elsewhere: a folder can   *)
(* leave that of the link between two queries of a request and take in a   *)
(* file before the second.                                                 *)
(***************************************************************************)
EXTENDS FolderLinks, TLC

CONSTANT Spare   \* the third folder, deleted from the start in the scope Busy

Symmetries ==
  Permutations(Files) \union Permutations(Folders \ {Spare}) \union Permutations(Links)
\* One file is still to be uploaded; the keys of the PIN and of the password are those
\* of uploads.
OneToUpload == \E f \in Files : home[f] = Unborn
OldFiles == \A f \in Files : home[f] # Unborn => scheme[f] = "rsa"
Busy == begun = 1 /\ \A d \in Folders : parent[d] = Gone <=> d = Spare
Making == begun = 0 /\ \A d \in Folders : parent[d] \in Folders \union {Root}
MCInit == Init /\ OneToUpload /\ OldFiles /\ (Busy \/ Making)
MCSpec == MCInit /\ [][Next]_vars

\* In the scope Making nothing else begins, and the third folder is not deleted.
Scope == parent[Spare] # Gone => parent'[Spare] # Gone /\ UNCHANGED <<upload, run, page>>
=============================================================================
