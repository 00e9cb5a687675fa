------------------------ MODULE VaultSession_proofs ------------------------
(***************************************************************************)
(* Theorems about VaultSession, for any files and credentials and any      *)
(* number of previews and downloads.                                       *)
(***************************************************************************)
EXTENDS VaultSession, TLAPS

\* The credential being written is the current one, and the copy is of it or of an
\* earlier page load that is still being restored.
CopyHolds ==
  /\ write # None => write = cred
  /\ restore = "credential" => stored # None
  /\ stored # None /\ write = None =>
       IF stored.ours THEN stored.credential = cred ELSE restore # "done"

\* Behind the shutter, once drawn, only a download can still put anything back.
BehindShutter ==
  locked /\ ~dirty =>
    /\ cred = None /\ stored = None /\ write = None
    /\ \A f \in Files : keys[f] = None
    /\ ~pem \/ "key" \in stray
    /\ index = {} \/ "words" \in stray
    /\ rsa => downloads # {}
    /\ run = None
    /\ timer # None => ~timer.mounted

\* A load under way, and a timer of a modal that is there, are of the file it shows;
\* a load that is about to show its content has shown its SHA-256.
OneFile ==
  /\ run # None => preview # None /\ run.file = preview.file /\ (run.at = "show" => Sealed(preview))
  /\ timer # None /\ timer.mounted => preview # None /\ timer.file = preview.file

\* What is submitted was typed.
Typed ==
  /\ run # None /\ run.source = "submit" => run.value # None
  /\ \A d \in downloads : d.source = "submit" => d.value # None

IInv ==
  /\ TypeOK /\ CopyHolds /\ KeysOpenTheirFiles /\ BehindShutter /\ OneFile /\ ShownIsTheFile /\ Typed

-----------------------------------------------------------------------------
(* The parts the steps are made of. *)

\* A file is asked for with a PIN or with a password.
LEMMA TypeIsKnown == \A f \in Files : TypeOfFile(f) \in {"pin", "password"}
BY DEF TypeOfFile

\* A load that begins is of its file and its source.
LEMMA Loading ==
  ASSUME TypeOK, NEW f \in Files, NEW v \in Values \union {None}, NEW s \in Sources, LoadRun(f, v, s)
  PROVE  /\ run' \in Runs /\ run' # None
         /\ run'.file = f /\ run'.value = v /\ run'.source = s /\ run'.at # "show"
         /\ loads' \in 0..MaxLoads
<1>1. keys[f] \in Values \union {None}  BY DEF TypeOK
<1>2. run' \in Runs  BY <1>1 DEF LoadRun, Runs
<1>3. run'.file = f /\ run'.value = v /\ run'.source = s /\ run'.at # "show"  BY DEF LoadRun
<1>4. loads' \in 0..MaxLoads  BY SessionAssumption DEF LoadRun, TypeOK
<1> QED  BY <1>2, <1>3, <1>4, NoneAssumption

\* A modal that is shown shows nothing yet, and loads its own file.
LEMMA Showing ==
  ASSUME TypeOK, NEW f \in Files, NEW spinner \in BOOLEAN, Show(f, spinner)
  PROVE  /\ preview' \in Modals /\ preview' # None /\ preview'.file = f /\ preview'.shown = None
         /\ run' \in Runs \union {None} /\ loads' \in 0..MaxLoads
         /\ run' # None => run'.file = f /\ run'.source # "submit" /\ run'.at # "show"
<1> DEFINE empty == [file |-> f, prompt |-> FALSE, typed |-> None, loading |-> spinner,
                     error |-> None, shown |-> None, sha |-> None, hashedBy |-> "current"]
<1>1. empty \in Modals  BY DEF Modals
<1>2. CASE kind[f] = "shared" /\ rsa
  <2>1. preview' = [empty EXCEPT !.loading = TRUE] /\ LoadRun(f, None, "none")  BY <1>2 DEF Show
  <2>2. run' \in Runs /\ run'.file = f /\ run'.source = "none" /\ run'.at # "show" /\ loads' \in 0..MaxLoads
    BY <2>1, Loading DEF Sources
  <2>3. preview' \in Modals /\ preview'.file = f /\ preview'.shown = None  BY <2>1 DEF Modals
  <2> QED  BY <2>2, <2>3, NoneAssumption
<1>3. CASE ~(kind[f] = "shared" /\ rsa) /\ Fits(f)
  <2>1. preview' = [empty EXCEPT !.loading = TRUE, !.typed = cred.value] /\ LoadRun(f, cred.value, "cached")
    BY <1>3 DEF Show
  <2>2. cred.value \in Values  BY <1>3 DEF TypeOK, Fits, Credentials
  <2>3. run' \in Runs /\ run'.file = f /\ run'.source = "cached" /\ run'.at # "show" /\ loads' \in 0..MaxLoads
    BY <2>1, <2>2, Loading DEF Sources
  <2>4. preview' \in Modals /\ preview'.file = f /\ preview'.shown = None  BY <2>1, <2>2 DEF Modals
  <2> QED  BY <2>3, <2>4, NoneAssumption
<1>4. CASE ~(kind[f] = "shared" /\ rsa) /\ ~Fits(f)
  <2>1. preview' = [empty EXCEPT !.prompt = TRUE] /\ run' = None /\ UNCHANGED loads  BY <1>4 DEF Show
  <2>2. preview' \in Modals /\ preview'.file = f /\ preview'.shown = None  BY <2>1 DEF Modals
  <2> QED  BY <2>1, <2>2, NoneAssumption DEF TypeOK
<1> QED  BY <1>2, <1>3, <1>4

\* The loads that are overtaken are of files, in a modal or in none.
LEMMA CancelledFiles == TypeOK => Cancelled \subseteq Digests
<1> SUFFICES ASSUME TypeOK PROVE Cancelled \subseteq Digests  OBVIOUS
<1>1. ASSUME NEW f \in Files PROVE [file |-> f, mounted |-> TRUE] \in Digests  BY DEF Digests
<1>2. run # None => run.file \in Files  BY DEF TypeOK, Runs
<1> QED  BY <1>1, <1>2 DEF TypeOK, Cancelled

\* A modal that goes leaves no load and no timer of its own.
LEMMA Unmounting ==
  ASSUME TypeOK, Unmount
  PROVE  /\ preview' = None /\ run' = None /\ late' \subseteq Digests
         /\ timer' \in Timers \union {None}
         /\ timer' # None => ~timer'.mounted
<1>2. late' \subseteq Digests
  <2>1. late' = {[d EXCEPT !.mounted = FALSE] : d \in Cancelled}  BY DEF Unmount
  <2>2. ASSUME NEW d \in Digests PROVE [d EXCEPT !.mounted = FALSE] \in Digests  BY DEF Digests
  <2> QED  BY <2>1, <2>2, CancelledFiles
<1>1. ASSUME timer # None
      PROVE  timer' \in Timers /\ ~timer'.mounted
  <2>1. timer' = [timer EXCEPT !.mounted = FALSE] /\ timer \in Timers  BY <1>1 DEF Unmount, TypeOK
  <2> QED  BY <2>1 DEF Timers
<1> QED  BY <1>1, <1>2 DEF Unmount, TypeOK

\* The clearing of the vault.
LEMMA Cleared ==
  ASSUME ClearVault, TypeOK
  PROVE  /\ cred' = None /\ stored' = None /\ write' = None
         /\ restore' \in {"key", "done"}
         /\ ~rsa' /\ ~pem' /\ pemWrite' = pemWrite
         /\ keys' \in [Files -> Values \union {None}] /\ \A f \in Files : keys'[f] = None
         /\ index' = {}
BY DEF ClearVault, ClearCredential, Overtake, TypeOK

\* A new credential, or none: the copy and the write follow.
LEMMA CredentialSteps ==
  ASSUME TypeOK, CopyHolds,
         \/ ClearCredential
         \/ KeepCredential
         \/ \E c \in Credentials : SetCredential(c)
  PROVE  /\ cred' \in Credentials \union {None} /\ write' \in Credentials \union {None}
         /\ stored' \in Copies \union {None} /\ restore' \in {"key", "credential", "done"}
         /\ CopyHolds'
<1>1. CASE ClearCredential  BY <1>1 DEF ClearCredential, Overtake, TypeOK, CopyHolds
<1>2. CASE KeepCredential  BY <1>2 DEF KeepCredential, TypeOK, CopyHolds
<1>3. ASSUME NEW c \in Credentials, SetCredential(c)
      PROVE  /\ cred' \in Credentials \union {None} /\ write' \in Credentials \union {None}
             /\ stored' \in Copies \union {None} /\ restore' \in {"key", "credential", "done"}
             /\ CopyHolds'
  BY <1>3, NoneAssumption DEF SetCredential, Overtake, TypeOK, CopyHolds
<1> QED  BY <1>1, <1>2, <1>3

-----------------------------------------------------------------------------
(* The steps. *)

\* The copy is of the credential that is written.
LEMMA StoreCredentialKeeps == ASSUME IInv, StoreCredential PROVE IInv'
<1> USE DEF IInv
<1>1. stored' \in Copies /\ stored'.ours = TRUE /\ stored'.credential = cred
  BY DEF StoreCredential, TypeOK, CopyHolds, Copies
<1>t0. TypeOK'  BY <1>1, NoneAssumption DEF TypeOK, StoreCredential, vaultVars, previewVars
<1>c1. CopyHolds'  BY <1>1, NoneAssumption DEF CopyHolds, StoreCredential, vaultVars, previewVars
<1>k2. KeysOpenTheirFiles'  BY <1>1, NoneAssumption DEF KeysOpenTheirFiles, StoreCredential, vaultVars, previewVars
<1>b3. BehindShutter'  BY <1>1, NoneAssumption DEF BehindShutter, StoreCredential, vaultVars, previewVars
<1>o4. OneFile'  BY <1>1, NoneAssumption DEF OneFile, Sealed, StoreCredential, vaultVars, previewVars
<1>s5. ShownIsTheFile'  BY <1>1, NoneAssumption DEF ShownIsTheFile, Sealed, StoreCredential, vaultVars, previewVars
<1>t6. Typed'  BY <1>1, NoneAssumption DEF Typed, StoreCredential, vaultVars, previewVars
<1> QED  BY <1>t0, <1>c1, <1>k2, <1>b3, <1>o4, <1>s5, <1>t6

\* The copy of the private key may be written behind the shutter, and is known as such.
LEMMA StorePrivateKeyKeeps == ASSUME IInv, StorePrivateKey PROVE IInv'
<1> USE DEF IInv
<1>t0. TypeOK'  BY DEF TypeOK, StorePrivateKey, vaultVars, previewVars
<1>c1. CopyHolds'  BY DEF CopyHolds, StorePrivateKey, vaultVars, previewVars
<1>k2. KeysOpenTheirFiles'  BY DEF KeysOpenTheirFiles, StorePrivateKey, vaultVars, previewVars
<1>b3. BehindShutter'  BY DEF BehindShutter, StorePrivateKey, vaultVars, previewVars
<1>o4. OneFile'  BY DEF OneFile, Sealed, StorePrivateKey, vaultVars, previewVars
<1>s5. ShownIsTheFile'  BY DEF ShownIsTheFile, Sealed, StorePrivateKey, vaultVars, previewVars
<1>t6. Typed'  BY DEF Typed, StorePrivateKey, vaultVars, previewVars
<1> QED  BY <1>t0, <1>c1, <1>k2, <1>b3, <1>o4, <1>s5, <1>t6

\* A new page has nothing but copies it cannot read.
LEMMA ReloadKeeps == ASSUME IInv, Reload PROVE IInv'
<1> USE DEF IInv
<1>1. /\ stored # None => stored' \in Copies /\ stored'.ours = FALSE
      /\ stored = None => stored' = None
  BY DEF Reload, TypeOK, Copies
<1>2. keys' = [f \in Files |-> None]  BY DEF Reload
<1>t0. TypeOK'  BY <1>1, <1>2, NoneAssumption DEF TypeOK, Reload
<1>c1. CopyHolds'  BY <1>1, <1>2, NoneAssumption DEF CopyHolds, Reload
<1>k2. KeysOpenTheirFiles'  BY <1>1, <1>2, NoneAssumption DEF KeysOpenTheirFiles, Reload
<1>b3. BehindShutter'  BY <1>1, <1>2, NoneAssumption DEF BehindShutter, Reload
<1>o4. OneFile'  BY <1>1, <1>2, NoneAssumption DEF OneFile, Sealed, Reload
<1>s5. ShownIsTheFile'  BY <1>1, <1>2, NoneAssumption DEF ShownIsTheFile, Sealed, Reload
<1>t6. Typed'  BY <1>1, <1>2, NoneAssumption DEF Typed, Reload
<1> QED  BY <1>t0, <1>c1, <1>k2, <1>b3, <1>o4, <1>s5, <1>t6

\* The copy of the private key goes first.
LEMMA RestoreKeyKeeps == ASSUME IInv, RestoreKey PROVE IInv'
<1> USE DEF IInv
<1>t0. TypeOK'  BY DEF TypeOK, RestoreKey, vaultVars, previewVars
<1>c1. CopyHolds'  BY DEF CopyHolds, RestoreKey, vaultVars, previewVars
<1>k2. KeysOpenTheirFiles'  BY DEF KeysOpenTheirFiles, RestoreKey, vaultVars, previewVars
<1>b3. BehindShutter'  BY DEF BehindShutter, RestoreKey, vaultVars, previewVars
<1>o4. OneFile'  BY DEF OneFile, Sealed, RestoreKey, vaultVars, previewVars
<1>s5. ShownIsTheFile'  BY DEF ShownIsTheFile, Sealed, RestoreKey, vaultVars, previewVars
<1>t6. Typed'  BY DEF Typed, RestoreKey, vaultVars, previewVars
<1> QED  BY <1>t0, <1>c1, <1>k2, <1>b3, <1>o4, <1>s5, <1>t6

\* Then the copy of the credential, unless it is of this page.
LEMMA RestoreCredentialKeeps == ASSUME IInv, RestoreCredential PROVE IInv'
<1> USE DEF IInv
<1>1. stored \in Copies  BY DEF RestoreCredential, TypeOK, CopyHolds
<1>t0. TypeOK'  BY <1>1, NoneAssumption DEF TypeOK, RestoreCredential, ClearCredential, Overtake, Copies, vaultVars, previewVars
<1>c1. CopyHolds'  BY <1>1, NoneAssumption DEF CopyHolds, RestoreCredential, ClearCredential, Overtake, Copies, vaultVars, previewVars
<1>k2. KeysOpenTheirFiles'  BY <1>1, NoneAssumption DEF KeysOpenTheirFiles, RestoreCredential, ClearCredential, Overtake, Copies, vaultVars, previewVars
<1>b3. BehindShutter'  BY <1>1, NoneAssumption DEF BehindShutter, RestoreCredential, ClearCredential, Overtake, Copies, vaultVars, previewVars
<1>o4. OneFile'  BY <1>1, NoneAssumption DEF OneFile, Sealed, RestoreCredential, ClearCredential, Overtake, Copies, vaultVars, previewVars
<1>s5. ShownIsTheFile'  BY <1>1, NoneAssumption DEF ShownIsTheFile, Sealed, RestoreCredential, ClearCredential, Overtake, Copies, vaultVars, previewVars
<1>t6. Typed'  BY <1>1, NoneAssumption DEF Typed, RestoreCredential, ClearCredential, Overtake, Copies, vaultVars, previewVars
<1> QED  BY <1>t0, <1>c1, <1>k2, <1>b3, <1>o4, <1>s5, <1>t6

\* The shutter empties the vault and closes the modal.
LEMMA LockKeeps == ASSUME IInv, Lock PROVE IInv'
<1> USE DEF IInv
<1>1. ClearVault /\ Unmount  BY DEF Lock
<1>t0. TypeOK'  BY <1>1, Cleared, Unmounting DEF TypeOK, Lock, ClearVault
<1>c1. CopyHolds'  BY <1>1, Cleared, Unmounting DEF CopyHolds, Lock, ClearVault
<1>k2. KeysOpenTheirFiles'  BY <1>1, Cleared, Unmounting DEF KeysOpenTheirFiles, Lock, ClearVault
<1>b3. BehindShutter'  BY <1>1, Cleared, Unmounting DEF BehindShutter, Lock, ClearVault
<1>o4. OneFile'  BY <1>1, Cleared, Unmounting DEF OneFile, Sealed, Lock, ClearVault
<1>s5. ShownIsTheFile'  BY <1>1, Cleared, Unmounting DEF ShownIsTheFile, Sealed, Lock, ClearVault
<1>t6. Typed'  BY <1>1, Cleared, Unmounting DEF Typed, Lock, ClearVault
<1> QED  BY <1>t0, <1>c1, <1>k2, <1>b3, <1>o4, <1>s5, <1>t6

\* The page drawn behind the shutter empties the vault again.
LEMMA RenderLockedKeeps == ASSUME IInv, RenderLocked PROVE IInv'
<1> USE DEF IInv
<1>1. ClearVault /\ Unmount  BY DEF RenderLocked
<1>t0. TypeOK'  BY <1>1, Cleared, Unmounting DEF TypeOK, RenderLocked, ClearVault
<1>c1. CopyHolds'  BY <1>1, Cleared, Unmounting DEF CopyHolds, RenderLocked, ClearVault
<1>k2. KeysOpenTheirFiles'  BY <1>1, Cleared, Unmounting DEF KeysOpenTheirFiles, RenderLocked, ClearVault
<1>b3. BehindShutter'  BY <1>1, Cleared, Unmounting DEF BehindShutter, RenderLocked, ClearVault
<1>o4. OneFile'  BY <1>1, Cleared, Unmounting DEF OneFile, Sealed, RenderLocked, ClearVault
<1>s5. ShownIsTheFile'  BY <1>1, Cleared, Unmounting DEF ShownIsTheFile, Sealed, RenderLocked, ClearVault
<1>t6. Typed'  BY <1>1, Cleared, Unmounting DEF Typed, RenderLocked, ClearVault
<1> QED  BY <1>t0, <1>c1, <1>k2, <1>b3, <1>o4, <1>s5, <1>t6

\* The shutter opens on what it has emptied.
LEMMA UnlockKeeps == ASSUME IInv, Unlock PROVE IInv'
<1> USE DEF IInv
<1>t0. TypeOK'  BY DEF TypeOK, Unlock, vaultVars, previewVars
<1>c1. CopyHolds'  BY DEF CopyHolds, Unlock, vaultVars, previewVars
<1>k2. KeysOpenTheirFiles'  BY DEF KeysOpenTheirFiles, Unlock, vaultVars, previewVars
<1>b3. BehindShutter'  BY DEF BehindShutter, Unlock, vaultVars, previewVars
<1>o4. OneFile'  BY DEF OneFile, Sealed, Unlock, vaultVars, previewVars
<1>s5. ShownIsTheFile'  BY DEF ShownIsTheFile, Sealed, Unlock, vaultVars, previewVars
<1>t6. Typed'  BY DEF Typed, Unlock, vaultVars, previewVars
<1> QED  BY <1>t0, <1>c1, <1>k2, <1>b3, <1>o4, <1>s5, <1>t6

\* A file is opened.
LEMMA OpenPreviewKeeps == ASSUME IInv, NEW f \in Files, OpenPreview(f) PROVE IInv'
<1> USE DEF IInv
<1>0. FALSE \in BOOLEAN  BY DEF OpenPreview, TypeOK, Modals
<1>1. Show(f, FALSE)  BY DEF OpenPreview
<1>2. /\ preview' \in Modals /\ preview' # None /\ preview'.file = f /\ preview'.shown = None
      /\ run' \in Runs \union {None} /\ loads' \in 0..MaxLoads
      /\ run' # None => run'.file = f /\ run'.source # "submit" /\ run'.at # "show"
  BY <1>0, <1>1, Showing
<1>3. /\ late' \subseteq Digests /\ ~locked
      /\ timer # None => ~timer.mounted
      /\ UNCHANGED <<kind, opens, vaultVars, locked, dirty, stray, timer, downloads, form>>
  BY CancelledFiles DEF OpenPreview, OneFile
<1>t0. TypeOK'  BY <1>2, <1>3 DEF TypeOK, vaultVars, previewVars
<1>c1. CopyHolds'  BY <1>2, <1>3 DEF CopyHolds, vaultVars, previewVars
<1>k2. KeysOpenTheirFiles'  BY <1>2, <1>3 DEF KeysOpenTheirFiles, vaultVars, previewVars
<1>b3. BehindShutter'  BY <1>2, <1>3 DEF BehindShutter, vaultVars, previewVars
<1>o4. OneFile'  BY <1>2, <1>3 DEF OneFile, Sealed, vaultVars, previewVars
<1>s5. ShownIsTheFile'  BY <1>2, <1>3 DEF ShownIsTheFile, Sealed, vaultVars, previewVars
<1>t6. Typed'  BY <1>2, <1>3 DEF Typed, vaultVars, previewVars
<1> QED  BY <1>t0, <1>c1, <1>k2, <1>b3, <1>o4, <1>s5, <1>t6

\* Another file is put in the modal.
LEMMA SwitchPreviewKeeps == ASSUME IInv, NEW f \in Files, SwitchPreview(f) PROVE IInv'
<1> USE DEF IInv
<1>0. preview.loading \in BOOLEAN  BY DEF SwitchPreview, TypeOK, Modals
<1>1. Show(f, preview.loading)  BY DEF SwitchPreview
<1>2. /\ preview' \in Modals /\ preview' # None /\ preview'.file = f /\ preview'.shown = None
      /\ run' \in Runs \union {None} /\ loads' \in 0..MaxLoads
      /\ run' # None => run'.file = f /\ run'.source # "submit" /\ run'.at # "show"
  BY <1>0, <1>1, Showing
<1>3. /\ late' \subseteq Digests /\ ~locked
      /\ timer # None => ~timer.mounted
      /\ UNCHANGED <<kind, opens, vaultVars, locked, dirty, stray, timer, downloads, form>>
  BY CancelledFiles DEF SwitchPreview, OneFile
<1>t0. TypeOK'  BY <1>2, <1>3 DEF TypeOK, vaultVars, previewVars
<1>c1. CopyHolds'  BY <1>2, <1>3 DEF CopyHolds, vaultVars, previewVars
<1>k2. KeysOpenTheirFiles'  BY <1>2, <1>3 DEF KeysOpenTheirFiles, vaultVars, previewVars
<1>b3. BehindShutter'  BY <1>2, <1>3 DEF BehindShutter, vaultVars, previewVars
<1>o4. OneFile'  BY <1>2, <1>3 DEF OneFile, Sealed, vaultVars, previewVars
<1>s5. ShownIsTheFile'  BY <1>2, <1>3 DEF ShownIsTheFile, Sealed, vaultVars, previewVars
<1>t6. Typed'  BY <1>2, <1>3 DEF Typed, vaultVars, previewVars
<1> QED  BY <1>t0, <1>c1, <1>k2, <1>b3, <1>o4, <1>s5, <1>t6

\* The modal goes.
LEMMA ClosePreviewKeeps == ASSUME IInv, ClosePreview PROVE IInv'
<1> USE DEF IInv
<1>1. Unmount  BY DEF ClosePreview
<1>t0. TypeOK'  BY <1>1, Unmounting DEF TypeOK, ClosePreview, vaultVars
<1>c1. CopyHolds'  BY <1>1, Unmounting DEF CopyHolds, ClosePreview, vaultVars
<1>k2. KeysOpenTheirFiles'  BY <1>1, Unmounting DEF KeysOpenTheirFiles, ClosePreview, vaultVars
<1>b3. BehindShutter'  BY <1>1, Unmounting DEF BehindShutter, ClosePreview, vaultVars
<1>o4. OneFile'  BY <1>1, Unmounting DEF OneFile, Sealed, ClosePreview, vaultVars
<1>s5. ShownIsTheFile'  BY <1>1, Unmounting DEF ShownIsTheFile, Sealed, ClosePreview, vaultVars
<1>t6. Typed'  BY <1>1, Unmounting DEF Typed, ClosePreview, vaultVars
<1> QED  BY <1>t0, <1>c1, <1>k2, <1>b3, <1>o4, <1>s5, <1>t6

\* A credential is typed.
LEMMA TypeCredentialKeeps == ASSUME IInv, NEW v \in Values, TypeCredential(v) PROVE IInv'
<1> USE DEF IInv
<1>1. /\ preview \in Modals /\ preview' = [preview EXCEPT !.typed = v]
  BY DEF TypeCredential, TypeOK
<1>2. /\ preview' \in Modals /\ preview' # None
      /\ preview'.file = preview.file /\ preview'.shown = preview.shown
      /\ preview'.sha = preview.sha /\ preview'.hashedBy = preview.hashedBy
  BY <1>1, NoneAssumption DEF Modals
<1>3. /\ timer' \in Timers \union {None}
      /\ timer' # timer => timer'.file = preview.file
  BY <1>1 DEF TypeCredential, TypeOK, Timers, Modals
<1>4. ~locked /\ preview # None
      /\ UNCHANGED <<kind, opens, vaultVars, locked, dirty, stray, run, late, downloads, form, loads>>
  BY DEF TypeCredential
<1>t0. TypeOK'  BY <1>2, <1>3, <1>4 DEF TypeOK, vaultVars, previewVars
<1>c1. CopyHolds'  BY <1>2, <1>3, <1>4 DEF CopyHolds, vaultVars, previewVars
<1>k2. KeysOpenTheirFiles'  BY <1>2, <1>3, <1>4 DEF KeysOpenTheirFiles, vaultVars, previewVars
<1>b3. BehindShutter'  BY <1>2, <1>3, <1>4 DEF BehindShutter, vaultVars, previewVars
<1>o4. OneFile'  BY <1>2, <1>3, <1>4 DEF OneFile, Sealed, vaultVars, previewVars
<1>s5. ShownIsTheFile'  BY <1>2, <1>3, <1>4 DEF ShownIsTheFile, Sealed, vaultVars, previewVars
<1>t6. Typed'  BY <1>2, <1>3, <1>4 DEF Typed, vaultVars, previewVars
<1> QED  BY <1>t0, <1>c1, <1>k2, <1>b3, <1>o4, <1>s5, <1>t6

\* The timer of a PIN loads the file of its modal.
LEMMA FireTimerKeeps == ASSUME IInv, FireTimer PROVE IInv'
<1> USE DEF IInv
<1>1. preview \in Modals /\ timer \in Timers /\ timer.file = preview.file
  BY DEF FireTimer, TypeOK, OneFile
<1>2. /\ preview' \in Modals /\ preview' # None
      /\ preview'.file = preview.file /\ preview'.shown = preview.shown
      /\ preview'.sha = preview.sha /\ preview'.hashedBy = preview.hashedBy
  <2>1. /\ preview' \in Modals
        /\ preview'.file = preview.file /\ preview'.shown = preview.shown
        /\ preview'.sha = preview.sha /\ preview'.hashedBy = preview.hashedBy
    BY <1>1 DEF Modals, FireTimer
  <2> QED  BY <2>1, NoneAssumption
<1>3. timer.file \in Files /\ timer.value \in Values /\ "timer" \in Sources  BY <1>1 DEF Timers, Sources
<1>4. /\ run' \in Runs /\ run' # None /\ loads' \in 0..MaxLoads
      /\ run'.file = timer.file /\ run'.source = "timer" /\ run'.at # "show"
  BY <1>3, Loading DEF FireTimer
<1>5. late' \subseteq Digests /\ timer' = None  BY CancelledFiles DEF FireTimer
<1>6. timer # None /\ timer.mounted /\ preview # None
      /\ UNCHANGED <<kind, opens, vaultVars, locked, dirty, stray, downloads, form>>
  BY <1>1, NoneAssumption DEF FireTimer
<1>t0. TypeOK'  BY <1>1, <1>2, <1>4, <1>5, <1>6 DEF TypeOK, vaultVars, previewVars
<1>c1. CopyHolds'  BY <1>1, <1>2, <1>4, <1>5, <1>6 DEF CopyHolds, vaultVars, previewVars
<1>k2. KeysOpenTheirFiles'  BY <1>1, <1>2, <1>4, <1>5, <1>6 DEF KeysOpenTheirFiles, vaultVars, previewVars
<1>b3. BehindShutter'  BY <1>1, <1>2, <1>4, <1>5, <1>6 DEF BehindShutter, vaultVars, previewVars
<1>o4. OneFile'  BY <1>1, <1>2, <1>4, <1>5, <1>6 DEF OneFile, Sealed, vaultVars, previewVars
<1>s5. ShownIsTheFile'  BY <1>1, <1>2, <1>4, <1>5, <1>6 DEF ShownIsTheFile, Sealed, vaultVars, previewVars
<1>t6. Typed'  BY <1>1, <1>2, <1>4, <1>5, <1>6 DEF Typed, vaultVars, previewVars
<1> QED  BY <1>t0, <1>c1, <1>k2, <1>b3, <1>o4, <1>s5, <1>t6

\* The timer of a modal that is gone touches only what nobody shows.
LEMMA FireLateTimerKeeps == ASSUME IInv, FireLateTimer PROVE IInv'
<1> USE DEF IInv
<1>1. late' \subseteq Digests /\ timer' = None
      /\ UNCHANGED <<kind, opens, vaultVars, locked, dirty, stray, preview, run, downloads, form, loads>>
  <2>1. timer \in Timers /\ FALSE \in BOOLEAN  BY DEF FireLateTimer, TypeOK
  <2>2. [file |-> timer.file, mounted |-> FALSE] \in Digests  BY <2>1 DEF Timers, Digests
  <2> QED  BY <2>2 DEF FireLateTimer, TypeOK
<1>t0. TypeOK'  BY <1>1 DEF TypeOK, vaultVars, previewVars
<1>c1. CopyHolds'  BY <1>1 DEF CopyHolds, vaultVars, previewVars
<1>k2. KeysOpenTheirFiles'  BY <1>1 DEF KeysOpenTheirFiles, vaultVars, previewVars
<1>b3. BehindShutter'  BY <1>1 DEF BehindShutter, vaultVars, previewVars
<1>o4. OneFile'  BY <1>1 DEF OneFile, Sealed, vaultVars, previewVars
<1>s5. ShownIsTheFile'  BY <1>1 DEF ShownIsTheFile, Sealed, vaultVars, previewVars
<1>t6. Typed'  BY <1>1 DEF Typed, vaultVars, previewVars
<1> QED  BY <1>t0, <1>c1, <1>k2, <1>b3, <1>o4, <1>s5, <1>t6

\* A load leaves the shown file, and what it is of, as they were.
LEMMA LoadKeepsPreview ==
  ASSUME NEW source, preview \in Modals, Load(source)
  PROVE  /\ preview' \in Modals /\ preview' # None
         /\ preview'.file = preview.file /\ preview'.shown = preview.shown
         /\ preview'.sha = preview.sha /\ preview'.hashedBy = preview.hashedBy
<1> DEFINE p == preview.prompt /\ source # "submit"
<1>1. preview' = [preview EXCEPT !.loading = TRUE, !.error = None, !.prompt = p]  BY DEF Load
<1>2. p \in BOOLEAN  OBVIOUS
<1> HIDE DEF p
<1>3. preview' \in Modals /\ preview'.file = preview.file /\ preview'.shown = preview.shown
                          /\ preview'.sha = preview.sha /\ preview'.hashedBy = preview.hashedBy
  BY <1>1, <1>2 DEF Modals
<1> QED  BY <1>3, NoneAssumption

\* The typed credential is submitted.
LEMMA SubmitPreviewKeeps == ASSUME IInv, SubmitPreview PROVE IInv'
<1> USE DEF IInv
<1>1. preview \in Modals /\ Load("submit") /\ ~locked /\ preview # None
  BY DEF SubmitPreview, TypeOK
<1>2. /\ preview' \in Modals /\ preview' # None
      /\ preview'.file = preview.file /\ preview'.shown = preview.shown
      /\ preview'.sha = preview.sha /\ preview'.hashedBy = preview.hashedBy
  BY <1>1, LoadKeepsPreview
<1>3. preview.file \in Files /\ preview.typed \in Values \union {None} /\ "submit" \in Sources
  BY <1>1 DEF Modals, Sources
<1>4. /\ run' \in Runs /\ run' # None /\ loads' \in 0..MaxLoads
      /\ run'.file = preview.file /\ run'.source = "submit" /\ run'.value = preview.typed
      /\ run'.at # "show"
  BY <1>1, <1>3, Loading DEF Load
<1>5. "submit" = "submit" => preview.typed # None  BY DEF SubmitPreview
<1>6. /\ late' \subseteq Digests
      /\ UNCHANGED <<kind, opens, vaultVars, locked, dirty, stray, timer, downloads, form>>
  BY <1>1, CancelledFiles DEF Load
<1>t0. TypeOK'  BY <1>1, <1>2, <1>4, <1>5, <1>6 DEF TypeOK, vaultVars, previewVars
<1>c1. CopyHolds'  BY <1>1, <1>2, <1>4, <1>5, <1>6 DEF CopyHolds, vaultVars, previewVars
<1>k2. KeysOpenTheirFiles'  BY <1>1, <1>2, <1>4, <1>5, <1>6 DEF KeysOpenTheirFiles, vaultVars, previewVars
<1>b3. BehindShutter'  BY <1>1, <1>2, <1>4, <1>5, <1>6 DEF BehindShutter, vaultVars, previewVars
<1>o4. OneFile'  BY <1>1, <1>2, <1>4, <1>5, <1>6 DEF OneFile, Sealed, vaultVars, previewVars
<1>s5. ShownIsTheFile'  BY <1>1, <1>2, <1>4, <1>5, <1>6 DEF ShownIsTheFile, Sealed, vaultVars, previewVars
<1>t6. Typed'  BY <1>1, <1>2, <1>4, <1>5, <1>6 DEF Typed, vaultVars, previewVars
<1> QED  BY <1>t0, <1>c1, <1>k2, <1>b3, <1>o4, <1>s5, <1>t6

\* The load is tried again.
LEMMA RetryPreviewKeeps == ASSUME IInv, RetryPreview PROVE IInv'
<1> USE DEF IInv
<1>1. preview \in Modals /\ Load("retry") /\ ~locked /\ preview # None
  BY DEF RetryPreview, TypeOK
<1>2. /\ preview' \in Modals /\ preview' # None
      /\ preview'.file = preview.file /\ preview'.shown = preview.shown
      /\ preview'.sha = preview.sha /\ preview'.hashedBy = preview.hashedBy
  BY <1>1, LoadKeepsPreview
<1>3. preview.file \in Files /\ preview.typed \in Values \union {None} /\ "retry" \in Sources
  BY <1>1 DEF Modals, Sources
<1>4. /\ run' \in Runs /\ run' # None /\ loads' \in 0..MaxLoads
      /\ run'.file = preview.file /\ run'.source = "retry" /\ run'.value = preview.typed
      /\ run'.at # "show"
  BY <1>1, <1>3, Loading DEF Load
<1>5. "retry" = "submit" => preview.typed # None  BY DEF RetryPreview
<1>6. /\ late' \subseteq Digests
      /\ UNCHANGED <<kind, opens, vaultVars, locked, dirty, stray, timer, downloads, form>>
  BY <1>1, CancelledFiles DEF Load
<1>t0. TypeOK'  BY <1>1, <1>2, <1>4, <1>5, <1>6 DEF TypeOK, vaultVars, previewVars
<1>c1. CopyHolds'  BY <1>1, <1>2, <1>4, <1>5, <1>6 DEF CopyHolds, vaultVars, previewVars
<1>k2. KeysOpenTheirFiles'  BY <1>1, <1>2, <1>4, <1>5, <1>6 DEF KeysOpenTheirFiles, vaultVars, previewVars
<1>b3. BehindShutter'  BY <1>1, <1>2, <1>4, <1>5, <1>6 DEF BehindShutter, vaultVars, previewVars
<1>o4. OneFile'  BY <1>1, <1>2, <1>4, <1>5, <1>6 DEF OneFile, Sealed, vaultVars, previewVars
<1>s5. ShownIsTheFile'  BY <1>1, <1>2, <1>4, <1>5, <1>6 DEF ShownIsTheFile, Sealed, vaultVars, previewVars
<1>t6. Typed'  BY <1>1, <1>2, <1>4, <1>5, <1>6 DEF Typed, vaultVars, previewVars
<1> QED  BY <1>t0, <1>c1, <1>k2, <1>b3, <1>o4, <1>s5, <1>t6

\* The credential is asked for again.
LEMMA EditCredentialKeeps == ASSUME IInv, EditCredential PROVE IInv'
<1> USE DEF IInv
<1>1. preview \in Modals  BY DEF EditCredential, TypeOK
<1>2. /\ preview' \in Modals /\ preview' # None
      /\ preview'.file = preview.file /\ preview'.shown = preview.shown
      /\ preview'.sha = preview.sha /\ preview'.hashedBy = preview.hashedBy
  <2>1. /\ preview' \in Modals
        /\ preview'.file = preview.file /\ preview'.shown = preview.shown
        /\ preview'.sha = preview.sha /\ preview'.hashedBy = preview.hashedBy
    BY <1>1 DEF Modals, EditCredential
  <2> QED  BY <2>1, NoneAssumption
<1>3. ~locked /\ preview # None
      /\ UNCHANGED <<kind, opens, vaultVars, locked, dirty, stray, run, late, timer, downloads, form, loads>>
  BY DEF EditCredential
<1>t0. TypeOK'  BY <1>2, <1>3 DEF TypeOK, vaultVars, previewVars
<1>c1. CopyHolds'  BY <1>2, <1>3 DEF CopyHolds, vaultVars, previewVars
<1>k2. KeysOpenTheirFiles'  BY <1>2, <1>3 DEF KeysOpenTheirFiles, vaultVars, previewVars
<1>b3. BehindShutter'  BY <1>2, <1>3 DEF BehindShutter, vaultVars, previewVars
<1>o4. OneFile'  BY <1>2, <1>3 DEF OneFile, Sealed, vaultVars, previewVars
<1>s5. ShownIsTheFile'  BY <1>2, <1>3 DEF ShownIsTheFile, Sealed, vaultVars, previewVars
<1>t6. Typed'  BY <1>2, <1>3 DEF Typed, vaultVars, previewVars
<1> QED  BY <1>t0, <1>c1, <1>k2, <1>b3, <1>o4, <1>s5, <1>t6

\* A failed load leaves the modal of its file, and no credential that it refused.
LEMMA FailPreviewKeeps == ASSUME IInv, run # None, NEW e \in {"credential", "other"}, FailPreview(e) PROVE IInv'
<1> USE DEF IInv
<1>1. /\ run' = None
      /\ UNCHANGED <<kind, opens, rsa, pem, pemWrite, keys, index, locked, dirty, stray, late, timer,
                     downloads, form, loads>>
      /\ ClearCredential \/ KeepCredential
      /\ preview # None /\ preview \in Modals
  BY DEF FailPreview, OneFile, TypeOK
<1>2. /\ preview' \in Modals /\ preview' # None
      /\ preview'.file = preview.file /\ preview'.shown = preview.shown
      /\ preview'.sha = preview.sha /\ preview'.hashedBy = preview.hashedBy
  <2> DEFINE asks == e = "credential" /\ run.source \in {"cached", "submit"}
             p == preview.prompt \/ asks
             t == IF asks /\ run.source = "cached" THEN None ELSE preview.typed
  <2>1. preview' = [preview EXCEPT !.loading = FALSE, !.error = e, !.prompt = p, !.typed = t]
    BY <1>1 DEF FailPreview
  <2>2. p \in BOOLEAN /\ t \in Values \union {None}  BY <1>1 DEF Modals
  <2> HIDE DEF asks, p, t
  <2>3. /\ preview' \in Modals
        /\ preview'.file = preview.file /\ preview'.shown = preview.shown
        /\ preview'.sha = preview.sha /\ preview'.hashedBy = preview.hashedBy
    BY <1>1, <2>1, <2>2 DEF Modals
  <2> QED  BY <2>3, NoneAssumption
<1>3. /\ cred' \in Credentials \union {None} /\ write' \in Credentials \union {None}
      /\ stored' \in Copies \union {None} /\ restore' \in {"key", "credential", "done"}
      /\ CopyHolds'
  BY <1>1, CredentialSteps
<1>t0. TypeOK'  BY <1>1, <1>2, <1>3 DEF TypeOK, vars
<1>c1. CopyHolds'  BY <1>3
<1>k2. KeysOpenTheirFiles'  BY <1>1, <1>2, <1>3 DEF KeysOpenTheirFiles, vars
<1>b3. BehindShutter'  BY <1>1, <1>2, <1>3 DEF BehindShutter, vars
<1>o4. OneFile'  BY <1>1, <1>2, <1>3 DEF OneFile, Sealed, vars
<1>s5. ShownIsTheFile'  BY <1>1, <1>2, <1>3 DEF ShownIsTheFile, Sealed, vars
<1>t6. Typed'  BY <1>1, <1>2, <1>3 DEF Typed, vars
<1> QED  BY <1>t0, <1>c1, <1>k2, <1>b3, <1>o4, <1>s5, <1>t6

\* The private key is found, or the load fails.
LEMMA PreviewKeyKeeps == ASSUME IInv, PreviewKey PROVE IInv'
<1> USE DEF IInv
<1>1. run \in Runs /\ run # None  BY DEF PreviewKey, TypeOK
<1>2. CASE run' = [run EXCEPT !.at = "worker", !.pem = pem \/ run.value = AccountPin] /\ UNCHANGED <<kind, opens, vaultVars, locked, dirty, stray,
                    preview, late, timer, downloads, form, loads>>
  <2>1. /\ run' \in Runs /\ run' # None /\ run'.at # "show"
        /\ run'.file = run.file /\ run'.source = run.source /\ run'.value = run.value
    <3> DEFINE p == pem \/ run.value = AccountPin
    <3>1. run' = [run EXCEPT !.at = "worker", !.pem = p] /\ p \in BOOLEAN  BY <1>2
    <3> HIDE DEF p
    <3>2. run' \in Runs /\ run'.at = "worker" /\ run'.file = run.file /\ run'.source = run.source /\ run'.value = run.value
      BY <1>1, <3>1 DEF Runs
    <3> QED  BY <3>2, NoneAssumption
  <2>t0. TypeOK'  BY <1>1, <1>2, <2>1 DEF TypeOK, vaultVars
  <2>c1. CopyHolds'  BY <1>1, <1>2, <2>1 DEF CopyHolds, vaultVars
  <2>k2. KeysOpenTheirFiles'  BY <1>1, <1>2, <2>1 DEF KeysOpenTheirFiles, vaultVars
  <2>b3. BehindShutter'  BY <1>1, <1>2, <2>1 DEF BehindShutter, vaultVars
  <2>o4. OneFile'  BY <1>1, <1>2, <2>1 DEF OneFile, Sealed, vaultVars
  <2>s5. ShownIsTheFile'  BY <1>1, <1>2, <2>1 DEF ShownIsTheFile, Sealed, vaultVars
  <2>t6. Typed'  BY <1>1, <1>2, <2>1 DEF Typed, vaultVars
  <2> QED  BY <2>t0, <2>c1, <2>k2, <2>b3, <2>o4, <2>s5, <2>t6
<1>3. CASE FailPreview("credential")  BY <1>1, <1>3, FailPreviewKeeps
<1> QED  BY <1>2, <1>3 DEF PreviewKey

\* The file is decrypted, or the load fails.
LEMMA PreviewWorkerKeeps == ASSUME IInv, PreviewWorker PROVE IInv'
<1> USE DEF IInv
<1>1. run \in Runs /\ run # None  BY DEF PreviewWorker, TypeOK
<1>2. CASE run' = [run EXCEPT !.at = "digest"] /\ UNCHANGED <<kind, opens, vaultVars, locked, dirty, stray,
                    preview, late, timer, downloads, form, loads>>
  <2>1. /\ run' \in Runs /\ run' # None /\ run'.at # "show"
        /\ run'.file = run.file /\ run'.source = run.source /\ run'.value = run.value
    BY <1>1, <1>2, NoneAssumption DEF Runs, TypeOK
  <2>t0. TypeOK'  BY <1>1, <1>2, <2>1 DEF TypeOK, vaultVars
  <2>c1. CopyHolds'  BY <1>1, <1>2, <2>1 DEF CopyHolds, vaultVars
  <2>k2. KeysOpenTheirFiles'  BY <1>1, <1>2, <2>1 DEF KeysOpenTheirFiles, vaultVars
  <2>b3. BehindShutter'  BY <1>1, <1>2, <2>1 DEF BehindShutter, vaultVars
  <2>o4. OneFile'  BY <1>1, <1>2, <2>1 DEF OneFile, Sealed, vaultVars
  <2>s5. ShownIsTheFile'  BY <1>1, <1>2, <2>1 DEF ShownIsTheFile, Sealed, vaultVars
  <2>t6. Typed'  BY <1>1, <1>2, <2>1 DEF Typed, vaultVars
  <2> QED  BY <2>t0, <2>c1, <2>k2, <2>b3, <2>o4, <2>s5, <2>t6
<1>3. CASE FailPreview("credential") \/ FailPreview("other")  BY <1>1, <1>3, FailPreviewKeeps
<1> QED  BY <1>2, <1>3 DEF PreviewWorker

\* The words of a file that is shown are indexed, and its SHA-256 is the modal's.
LEMMA PreviewDigestKeeps == ASSUME IInv, PreviewDigest PROVE IInv'
<1> USE DEF IInv
<1>1. /\ run \in Runs /\ run # None /\ run.file = preview.file /\ preview # None /\ preview \in Modals
      /\ run' = [run EXCEPT !.at = "show"] /\ index' = index \union {run.file}
      /\ preview' = [preview EXCEPT !.sha = run.file, !.hashedBy = "current"]
      /\ UNCHANGED <<kind, opens, cred, stored, write, restore, rsa, pem, pemWrite, keys, locked, dirty,
                     stray, late, timer, downloads, form, loads>>
  BY DEF PreviewDigest, TypeOK, OneFile
<1>2. /\ run' \in Runs /\ run' # None /\ run.file \in Files
      /\ run'.file = run.file /\ run'.source = run.source /\ run'.value = run.value
  BY <1>1, NoneAssumption DEF Runs
<1>3. /\ preview' \in Modals /\ preview' # None
      /\ preview'.file = preview.file /\ preview'.shown = preview.shown /\ preview'.sha = preview.file
  BY <1>1, <1>2, NoneAssumption DEF Modals
<1>t0. TypeOK'  BY <1>1, <1>2, <1>3 DEF TypeOK, vars
<1>c1. CopyHolds'  BY <1>1, <1>2 DEF CopyHolds, vars
<1>k2. KeysOpenTheirFiles'  BY <1>1, <1>2 DEF KeysOpenTheirFiles, vars
<1>b3. BehindShutter'  BY <1>1, <1>2 DEF BehindShutter, vars
<1>o4. OneFile'  BY <1>1, <1>2, <1>3 DEF OneFile, Sealed, vars
<1>s5. ShownIsTheFile'  BY <1>1, <1>2, <1>3 DEF ShownIsTheFile, Sealed, vars
<1>t6. Typed'  BY <1>1, <1>2 DEF Typed, vars
<1> QED  BY <1>t0, <1>c1, <1>k2, <1>b3, <1>o4, <1>s5, <1>t6

\* A digest of a load that was overtaken is known as such behind the shutter, and in
\* the modal it writes to.
LEMMA LateDigestKeeps == ASSUME IInv, NEW d \in late, LateDigest(d) PROVE IInv'
<1> USE DEF IInv
<1>1. /\ d \in Digests /\ d.file \in Files /\ late' \subseteq Digests /\ index' = index \union {d.file}
      /\ stray' = IF locked THEN stray \union {"words"} ELSE stray
      /\ UNCHANGED <<kind, opens, cred, stored, write, restore, rsa, pem, pemWrite, keys, locked, dirty,
                     run, timer, downloads, form, loads>>
  BY DEF LateDigest, TypeOK, Digests
<1>2. CASE preview' = preview
  <2>t0. TypeOK'  BY <1>1, <1>2 DEF TypeOK
  <2>c1. CopyHolds'  BY <1>1 DEF CopyHolds
  <2>k2. KeysOpenTheirFiles'  BY <1>1 DEF KeysOpenTheirFiles
  <2>b3. BehindShutter'  BY <1>1 DEF BehindShutter
  <2>o4. OneFile'  BY <1>1, <1>2 DEF OneFile, Sealed
  <2>s5. ShownIsTheFile'  BY <1>1, <1>2 DEF ShownIsTheFile, Sealed
  <2>t6. Typed'  BY <1>1 DEF Typed
  <2> QED  BY <2>t0, <2>c1, <2>k2, <2>b3, <2>o4, <2>s5, <2>t6
<1>3. CASE preview # None /\ preview' = [preview EXCEPT !.sha = d.file, !.hashedBy = "overtaken"]
  <2>1. preview \in Modals  BY <1>3 DEF TypeOK
  <2>2. /\ preview' \in Modals /\ preview' # None
        /\ preview'.file = preview.file /\ preview'.shown = preview.shown
        /\ preview'.hashedBy = "overtaken"
    <3>1. /\ preview' \in Modals
          /\ preview'.file = preview.file /\ preview'.shown = preview.shown
          /\ preview'.hashedBy = "overtaken"
      BY <1>1, <1>3, <2>1 DEF Modals
    <3> QED  BY <3>1, NoneAssumption
  <2>t0. TypeOK'  BY <1>1, <2>2 DEF TypeOK
  <2>c1. CopyHolds'  BY <1>1 DEF CopyHolds
  <2>k2. KeysOpenTheirFiles'  BY <1>1 DEF KeysOpenTheirFiles
  <2>b3. BehindShutter'  BY <1>1 DEF BehindShutter
  <2>o4. OneFile'  BY <1>1, <1>3, <2>2 DEF OneFile, Sealed
  <2>s5. ShownIsTheFile'  BY <1>1, <1>3, <2>2 DEF ShownIsTheFile, Sealed
  <2>t6. Typed'  BY <1>1 DEF Typed
  <2> QED  BY <2>t0, <2>c1, <2>k2, <2>b3, <2>o4, <2>s5, <2>t6
<1> QED  BY <1>2, <1>3 DEF LateDigest

\* The content of the file of the modal appears.
LEMMA PreviewShownKeeps == ASSUME IInv, PreviewShown PROVE IInv'
<1> USE DEF IInv
<1>1. /\ run \in Runs /\ run # None /\ run' = None
      /\ UNCHANGED <<kind, opens, rsa, pem, pemWrite, keys, index, locked, dirty, stray, late, timer,
                     downloads, form, loads>>
      /\ preview # None /\ preview \in Modals /\ run.file = preview.file /\ Sealed(preview)
  BY DEF PreviewShown, OneFile, TypeOK
<1>2. /\ preview' \in Modals /\ preview' # None
      /\ preview'.file = preview.file /\ preview'.shown = preview.file
      /\ preview'.sha = preview.sha /\ preview'.hashedBy = preview.hashedBy
  BY <1>1, NoneAssumption DEF Modals, PreviewShown
<1>3. KeepCredential \/ \E c \in Credentials : SetCredential(c)
  <2>1. CASE run.source = "submit"
    <3>1. run.value \in Values /\ run.file \in Files  BY <1>1, <2>1 DEF Typed, Runs
    <3>2. [value |-> run.value, type |-> TypeOfFile(run.file)] \in Credentials
      BY <3>1, TypeIsKnown DEF Credentials
    <3> QED  BY <2>1, <3>2 DEF PreviewShown
  <2> QED  BY <2>1 DEF PreviewShown
<1>4. /\ cred' \in Credentials \union {None} /\ write' \in Credentials \union {None}
      /\ stored' \in Copies \union {None} /\ restore' \in {"key", "credential", "done"}
      /\ CopyHolds'
  BY <1>3, CredentialSteps
<1>t0. TypeOK'  BY <1>1, <1>2, <1>4 DEF TypeOK, vars
<1>c1. CopyHolds'  BY <1>4
<1>k2. KeysOpenTheirFiles'  BY <1>1, <1>2, <1>4 DEF KeysOpenTheirFiles, vars
<1>b3. BehindShutter'  BY <1>1, <1>2, <1>4 DEF BehindShutter, vars
<1>o4. OneFile'  BY <1>1, <1>2, <1>4 DEF OneFile, Sealed, vars
<1>s5. ShownIsTheFile'  BY <1>1, <1>2, <1>4 DEF ShownIsTheFile, Sealed, vars
<1>t6. Typed'  BY <1>1, <1>2, <1>4 DEF Typed, vars
<1> QED  BY <1>t0, <1>c1, <1>k2, <1>b3, <1>o4, <1>s5, <1>t6

\* A fetch that begins is of its file.
LEMMA FetchBegins ==
  ASSUME TypeOK, NEW f \in Files, NEW v \in Values \union {None}, NEW s \in Sources, Fetching(f, v, s),
         Typed, s = "submit" => v # None, UNCHANGED run
  PROVE  downloads' \subseteq Fetches /\ loads' \in 0..MaxLoads /\ Typed'
<1> DEFINE d == [file |-> f, value |-> v, source |-> s, at |-> "fetch", key |-> None]
<1>1. d \in Fetches /\ d.source = s /\ d.value = v  BY DEF Fetches
<1>2. downloads' = downloads \union {d} /\ loads' \in 0..MaxLoads
  BY SessionAssumption DEF Fetching, TypeOK
<1> HIDE DEF d
<1> QED  BY <1>1, <1>2 DEF TypeOK, Typed

\* A download begins, or asks.
LEMMA DownloadKeeps == ASSUME IInv, NEW f \in Files, Download(f) PROVE IInv'
<1> USE DEF IInv
<1>1. UNCHANGED <<kind, opens, vaultVars, locked, dirty, stray, previewVars>> /\ ~locked  BY DEF Download
<1>2. /\ downloads' \subseteq Fetches /\ loads' \in 0..MaxLoads /\ Typed'
      /\ form' \in Files \union {None}
  <2>1. CASE Fetching(f, None, "none") /\ UNCHANGED form
    BY <1>1, <2>1, FetchBegins DEF Sources, TypeOK, previewVars
  <2>2. CASE Fits(f) /\ Fetching(f, cred.value, "cached") /\ UNCHANGED form
    <3>1. cred.value \in Values  BY <2>2 DEF TypeOK, Fits, Credentials
    <3> QED  BY <1>1, <2>2, <3>1, FetchBegins DEF Sources, TypeOK, previewVars
  <2>3. CASE form' = f /\ UNCHANGED <<downloads, loads>>
    BY <1>1, <2>3 DEF TypeOK, Typed, previewVars
  <2> QED  BY <2>1, <2>2, <2>3 DEF Download
<1>t0. TypeOK'  BY <1>1, <1>2 DEF TypeOK, vaultVars, previewVars
<1>c1. CopyHolds'  BY <1>1, <1>2 DEF CopyHolds, vaultVars, previewVars
<1>k2. KeysOpenTheirFiles'  BY <1>1, <1>2 DEF KeysOpenTheirFiles, vaultVars, previewVars
<1>b3. BehindShutter'  BY <1>1, <1>2 DEF BehindShutter, vaultVars, previewVars
<1>o4. OneFile'  BY <1>1, <1>2 DEF OneFile, Sealed, vaultVars, previewVars
<1>s5. ShownIsTheFile'  BY <1>1, <1>2 DEF ShownIsTheFile, Sealed, vaultVars, previewVars
<1>t6. Typed'  BY <1>1, <1>2 DEF Typed, vaultVars, previewVars
<1> QED  BY <1>t0, <1>c1, <1>k2, <1>b3, <1>o4, <1>s5, <1>t6

\* The typed credential is submitted.
LEMMA SubmitDownloadKeeps == ASSUME IInv, NEW v \in Values, SubmitDownload(v) PROVE IInv'
<1> USE DEF IInv
<1>1. UNCHANGED <<kind, opens, vaultVars, locked, dirty, stray, previewVars>> /\ ~locked  BY DEF SubmitDownload
<1>2. /\ downloads' \subseteq Fetches /\ loads' \in 0..MaxLoads /\ Typed'
      /\ form' = form
  BY <1>1, SessionAssumption, FetchBegins DEF SubmitDownload, Sources, TypeOK, previewVars
<1>t0. TypeOK'  BY <1>1, <1>2 DEF TypeOK, vaultVars, previewVars
<1>c1. CopyHolds'  BY <1>1, <1>2 DEF CopyHolds, vaultVars, previewVars
<1>k2. KeysOpenTheirFiles'  BY <1>1, <1>2 DEF KeysOpenTheirFiles, vaultVars, previewVars
<1>b3. BehindShutter'  BY <1>1, <1>2 DEF BehindShutter, vaultVars, previewVars
<1>o4. OneFile'  BY <1>1, <1>2 DEF OneFile, Sealed, vaultVars, previewVars
<1>s5. ShownIsTheFile'  BY <1>1, <1>2 DEF ShownIsTheFile, Sealed, vaultVars, previewVars
<1>t6. Typed'  BY <1>1, <1>2 DEF Typed, vaultVars, previewVars
<1> QED  BY <1>t0, <1>c1, <1>k2, <1>b3, <1>o4, <1>s5, <1>t6

\* The question is put away.
LEMMA CancelFormKeeps == ASSUME IInv, CancelForm PROVE IInv'
<1> USE DEF IInv
<1>t0. TypeOK'  BY DEF TypeOK, CancelForm, vaultVars, previewVars
<1>c1. CopyHolds'  BY DEF CopyHolds, CancelForm, vaultVars, previewVars
<1>k2. KeysOpenTheirFiles'  BY DEF KeysOpenTheirFiles, CancelForm, vaultVars, previewVars
<1>b3. BehindShutter'  BY DEF BehindShutter, CancelForm, vaultVars, previewVars
<1>o4. OneFile'  BY DEF OneFile, Sealed, CancelForm, vaultVars, previewVars
<1>s5. ShownIsTheFile'  BY DEF ShownIsTheFile, Sealed, CancelForm, vaultVars, previewVars
<1>t6. Typed'  BY DEF Typed, CancelForm, vaultVars, previewVars
<1> QED  BY <1>t0, <1>c1, <1>k2, <1>b3, <1>o4, <1>s5, <1>t6

\* The end of a download: a credential it submitted is kept, or a refused one forgotten.
LEMMA DownloadEnds ==
  ASSUME IInv, NEW d \in downloads, NEW r \in {"success", "credential", "other"}, EndDownload(d, r), UNCHANGED run
  PROVE  /\ downloads' \subseteq Fetches /\ form' \in Files \union {None} /\ dirty' = (dirty \/ locked)
         /\ cred' \in Credentials \union {None} /\ write' \in Credentials \union {None}
         /\ stored' \in Copies \union {None} /\ restore' \in {"key", "credential", "done"}
         /\ CopyHolds' /\ Typed'
<1> USE DEF IInv
<1>1. d \in Fetches /\ d.file \in Files  BY DEF TypeOK, Fetches
<1>2. ClearCredential \/ KeepCredential \/ \E c \in Credentials : SetCredential(c)
  <2>1. CASE r = "success" /\ d.source = "submit"
    <3>1. d.value \in Values  BY <1>1, <2>1 DEF Typed, Fetches
    <3>2. [value |-> d.value, type |-> TypeOfFile(d.file)] \in Credentials
      BY <1>1, <3>1, TypeIsKnown DEF Credentials
    <3> QED  BY <2>1, <3>2 DEF EndDownload
  <2> QED  BY <2>1 DEF EndDownload
<1>3. /\ cred' \in Credentials \union {None} /\ write' \in Credentials \union {None}
      /\ stored' \in Copies \union {None} /\ restore' \in {"key", "credential", "done"}
      /\ CopyHolds'
  BY <1>2, CredentialSteps
<1>4. downloads' = downloads \ {d} /\ dirty' = (dirty \/ locked)  BY DEF EndDownload
<1>5. form' \in Files \union {None}  BY <1>1 DEF EndDownload, TypeOK
<1>6. Typed'  BY <1>4 DEF Typed
<1> QED  BY <1>3, <1>4, <1>5, <1>6 DEF TypeOK

\* A download has found its key, or ends.
LEMMA DownloadKeyKeeps == ASSUME IInv, NEW d \in downloads, DownloadKey(d) PROVE IInv'
<1> USE DEF IInv
<1> DEFINE found(k) == downloads' = (downloads \ {d}) \union {[d EXCEPT !.at = "decrypt", !.key = k]}
<1>1. d \in Fetches /\ d.file \in Files  BY DEF TypeOK, Fetches
<1>2. UNCHANGED <<kind, opens, pem, pemWrite, keys, index, locked, stray, previewVars, loads>>  BY DEF DownloadKey
<1>3. ASSUME NEW r \in {"other", "credential"}, EndDownload(d, r), UNCHANGED rsa  PROVE IInv'
  <2>1. /\ downloads' \subseteq Fetches /\ form' \in Files \union {None} /\ dirty' = (dirty \/ locked)
        /\ cred' \in Credentials \union {None} /\ write' \in Credentials \union {None}
        /\ stored' \in Copies \union {None} /\ restore' \in {"key", "credential", "done"}
        /\ CopyHolds' /\ Typed'
    BY <1>2, <1>3, DownloadEnds DEF previewVars
  <2>t0. TypeOK'  BY <1>2, <1>3, <2>1 DEF TypeOK, previewVars
  <2>c1. CopyHolds'  BY <2>1
  <2>k2. KeysOpenTheirFiles'  BY <1>2, <1>3, <2>1 DEF KeysOpenTheirFiles, previewVars
  <2>b3. BehindShutter'  BY <1>2, <1>3, <2>1 DEF BehindShutter, previewVars
  <2>o4. OneFile'  BY <1>2, <1>3, <2>1 DEF OneFile, Sealed, previewVars
  <2>s5. ShownIsTheFile'  BY <1>2, <1>3, <2>1 DEF ShownIsTheFile, Sealed, previewVars
  <2>t6. Typed'  BY <2>1
  <2> QED  BY <2>t0, <2>c1, <2>k2, <2>b3, <2>o4, <2>s5, <2>t6
<1>4. ASSUME NEW k \in Values \union {None}, found(k), rsa' \in BOOLEAN, KeepCredential, UNCHANGED <<dirty, form>>
      PROVE  IInv'
  <2> DEFINE e == [d EXCEPT !.at = "decrypt", !.key = k]
  <2>1. e \in Fetches /\ e.source = d.source /\ e.value = d.value  BY <1>1 DEF Fetches
  <2>2. downloads' = (downloads \ {d}) \union {e}  BY <1>4
  <2> HIDE DEF e, found
  <2>t0. TypeOK'  BY <1>2, <1>4, <2>1, <2>2 DEF TypeOK, previewVars, KeepCredential
  <2>c1. CopyHolds'  BY <1>2, <1>4, <2>1, <2>2 DEF CopyHolds, previewVars, KeepCredential
  <2>k2. KeysOpenTheirFiles'  BY <1>2, <1>4, <2>1, <2>2 DEF KeysOpenTheirFiles, previewVars, KeepCredential
  <2>b3. BehindShutter'  BY <1>2, <1>4, <2>1, <2>2 DEF BehindShutter, previewVars, KeepCredential
  <2>o4. OneFile'  BY <1>2, <1>4, <2>1, <2>2 DEF OneFile, Sealed, previewVars, KeepCredential
  <2>s5. ShownIsTheFile'  BY <1>2, <1>4, <2>1, <2>2 DEF ShownIsTheFile, Sealed, previewVars, KeepCredential
  <2>t6. Typed'  BY <1>2, <1>4, <2>1, <2>2 DEF Typed, previewVars, KeepCredential
  <2> QED  BY <2>t0, <2>c1, <2>k2, <2>b3, <2>o4, <2>s5, <2>t6
<1>5. CASE EndDownload(d, "other") /\ UNCHANGED rsa  BY <1>3, <1>5
<1>6. CASE EndDownload(d, "credential") /\ UNCHANGED rsa  BY <1>3, <1>6
<1>7. CASE ~(EndDownload(d, "other") /\ UNCHANGED rsa) /\ ~(EndDownload(d, "credential") /\ UNCHANGED rsa)
  <2> DEFINE k == IF keys[d.file] # None THEN keys[d.file]
                  ELSE IF kind[d.file] = "shared" THEN AccountPin ELSE d.value
  <2>1. /\ found(k) /\ KeepCredential /\ UNCHANGED <<dirty, form>>
        /\ rsa' = (rsa \/ (keys[d.file] = None /\ kind[d.file] = "shared" /\ ~rsa))
    BY <1>7 DEF DownloadKey
  <2>2. k \in Values \union {None}  BY <1>1, SessionAssumption DEF TypeOK, Fetches
  <2>3. rsa' \in BOOLEAN  BY <2>1 DEF TypeOK
  <2> HIDE DEF k, found
  <2> QED  BY <1>4, <2>1, <2>2, <2>3
<1> QED  BY <1>5, <1>6, <1>7

\* A key is cached once it has opened its file.
LEMMA DownloadDecryptKeeps == ASSUME IInv, NEW d \in downloads, DownloadDecrypt(d) PROVE IInv'
<1> USE DEF IInv
<1>1. d \in Fetches /\ d.file \in Files  BY DEF TypeOK, Fetches
<1>2. UNCHANGED <<kind, opens, rsa, pem, pemWrite, index, locked, stray, previewVars, loads>>  BY DEF DownloadDecrypt
<1>3. CASE d.key = opens[d.file] /\ keys' = [keys EXCEPT ![d.file] = d.key] /\ EndDownload(d, "success")
  <2>1. /\ downloads' \subseteq Fetches /\ form' \in Files \union {None} /\ dirty' = (dirty \/ locked)
        /\ cred' \in Credentials \union {None} /\ write' \in Credentials \union {None}
        /\ stored' \in Copies \union {None} /\ restore' \in {"key", "credential", "done"}
        /\ CopyHolds' /\ Typed'
    BY <1>2, <1>3, DownloadEnds DEF previewVars
  <2>2. opens[d.file] \in Values  BY <1>1 DEF TypeOK
  <2>3. /\ keys' \in [Files -> Values \union {None}]
        /\ \A f \in Files : keys'[f] = IF f = d.file THEN opens[f] ELSE keys[f]
    BY <1>1, <1>3, <2>2 DEF TypeOK
  <2>t0. TypeOK'  BY <1>2, <2>1, <2>3 DEF TypeOK, previewVars
  <2>c1. CopyHolds'  BY <2>1
  <2>k2. KeysOpenTheirFiles'  BY <1>2, <2>1, <2>3 DEF KeysOpenTheirFiles, previewVars
  <2>b3. BehindShutter'  BY <1>2, <2>1, <2>3 DEF BehindShutter, previewVars
  <2>o4. OneFile'  BY <1>2, <2>1, <2>3 DEF OneFile, Sealed, previewVars
  <2>s5. ShownIsTheFile'  BY <1>2, <2>1, <2>3 DEF ShownIsTheFile, Sealed, previewVars
  <2>t6. Typed'  BY <2>1
  <2> QED  BY <2>t0, <2>c1, <2>k2, <2>b3, <2>o4, <2>s5, <2>t6
<1>4. CASE d.key # opens[d.file] /\ UNCHANGED keys /\ EndDownload(d, "credential")
  <2>1. /\ downloads' \subseteq Fetches /\ form' \in Files \union {None} /\ dirty' = (dirty \/ locked)
        /\ cred' \in Credentials \union {None} /\ write' \in Credentials \union {None}
        /\ stored' \in Copies \union {None} /\ restore' \in {"key", "credential", "done"}
        /\ CopyHolds' /\ Typed'
    BY <1>2, <1>4, DownloadEnds DEF previewVars
  <2>t0. TypeOK'  BY <1>2, <1>4, <2>1 DEF TypeOK, previewVars
  <2>c1. CopyHolds'  BY <2>1
  <2>k2. KeysOpenTheirFiles'  BY <1>2, <1>4, <2>1 DEF KeysOpenTheirFiles, previewVars
  <2>b3. BehindShutter'  BY <1>2, <1>4, <2>1 DEF BehindShutter, previewVars
  <2>o4. OneFile'  BY <1>2, <1>4, <2>1 DEF OneFile, Sealed, previewVars
  <2>s5. ShownIsTheFile'  BY <1>2, <1>4, <2>1 DEF ShownIsTheFile, Sealed, previewVars
  <2>t6. Typed'  BY <2>1
  <2> QED  BY <2>t0, <2>c1, <2>k2, <2>b3, <2>o4, <2>s5, <2>t6
<1> QED  BY <1>3, <1>4 DEF DownloadDecrypt

-----------------------------------------------------------------------------
(* The theorems. *)

\* The initial state, just after a login.
LEMMA InitIInv == Init => IInv
<1> SUFFICES ASSUME Init PROVE IInv  OBVIOUS
<1>1. cred \in Credentials  BY SessionAssumption DEF Init, Credentials
<1>2. keys = [f \in Files |-> None]  BY DEF Init
<1>3. opens \in [Files -> Values]  BY DEF Init
<1>4. TypeOK
  <2>1. /\ kind \in [Files -> Kinds]
        /\ stored = None /\ write = cred /\ restore = "done"
        /\ rsa = TRUE /\ pem = FALSE /\ pemWrite = TRUE /\ index = {}
        /\ locked = FALSE /\ dirty = FALSE /\ stray = {}
        /\ preview = None /\ run = None /\ late = {} /\ timer = None
        /\ downloads = {} /\ form = None /\ loads = 0
    BY DEF Init
  <2>2. keys \in [Files -> Values \union {None}]  BY <1>2
  <2>3. loads \in 0..MaxLoads  BY <2>1, SessionAssumption
  <2> QED  BY <1>1, <1>3, <2>1, <2>2, <2>3 DEF TypeOK
<1>5. CopyHolds /\ BehindShutter /\ OneFile /\ ShownIsTheFile /\ Typed
  BY DEF Init, CopyHolds, BehindShutter, OneFile, ShownIsTheFile, Typed
<1>6. KeysOpenTheirFiles  BY <1>2 DEF KeysOpenTheirFiles
<1> QED  BY <1>4, <1>5, <1>6 DEF IInv

\* The inductive invariant, of every reachable state.
THEOREM Inductive == Spec => []IInv
<1>1. IInv /\ [Next]_vars => IInv'
  <2> SUFFICES ASSUME IInv, [Next]_vars PROVE IInv'  OBVIOUS
  <2>1. CASE ProviderStep
    BY <2>1, StoreCredentialKeeps, StorePrivateKeyKeeps, ReloadKeeps, RestoreKeyKeeps,
       RestoreCredentialKeeps DEF ProviderStep
  <2>2. CASE PageStep  BY <2>2, LockKeeps, RenderLockedKeeps, UnlockKeeps DEF PageStep
  <2>3. CASE PreviewStep
    BY <2>3, OpenPreviewKeeps, SwitchPreviewKeeps, LateDigestKeeps, TypeCredentialKeeps, ClosePreviewKeeps,
       FireTimerKeeps, FireLateTimerKeeps, SubmitPreviewKeeps, RetryPreviewKeeps, EditCredentialKeeps,
       PreviewKeyKeeps, PreviewWorkerKeeps, PreviewDigestKeeps, PreviewShownKeeps
       DEF PreviewStep, PreviewLoad
  <2>4. CASE DownloadStep
    BY <2>4, DownloadKeeps, SubmitDownloadKeeps, CancelFormKeeps, DownloadKeyKeeps, DownloadDecryptKeeps
       DEF DownloadStep
  <2>5. CASE UNCHANGED vars
    BY <2>5 DEF vars, vaultVars, previewVars, IInv, TypeOK, CopyHolds, KeysOpenTheirFiles, BehindShutter,
                OneFile, ShownIsTheFile, Sealed, Typed
  <2> QED  BY <2>1, <2>2, <2>3, <2>4, <2>5 DEF Next
<1> QED  BY InitIInv, <1>1, PTL DEF Spec

\* Every reachable state is of its types.
THEOREM TypeCorrect == Spec => []TypeOK
BY Inductive, PTL DEF IInv

\* Cached keys open their files, and no credential that was cleared, refused or
\* overtaken is in sessionStorage (SessionVaultProvider.tsx).
THEOREM Current == Spec => []SecretsAreCurrent
<1>1. IInv => SecretsAreCurrent
  BY DEF IInv, CopyHolds, SecretsAreCurrent, StoredIsCurrent
<1> QED  BY Inductive, <1>1, PTL

\* Once its downloads have ended and it has been drawn, the locked vault keeps no
\* credential and no key in memory, and its private key in sessionStorage and the
\* words of its index only when an operation of before the lock put them back.
THEOREM Empties == Spec => []LockedVaultEmpties
<1>1. IInv => LockedVaultEmpties  BY DEF IInv, BehindShutter, LockedVaultEmpties
<1> QED  BY Inductive, <1>1, PTL

\* The preview never shows another file than the one it names, and no SHA-256 of
\* another file but one an overtaken load of the same modal has written there.
THEOREM ShowsItsFile == Spec => []ShownIsTheFile
BY Inductive, PTL DEF IInv
=============================================================================
