---------------------------- MODULE VaultSession ----------------------------
(***************************************************************************)
(* What one tab remembers so that its user types a credential once:        *)
(* SessionVaultProvider.tsx with its copies in sessionStorage, the search  *)
(* index of decrypted words, and the parts of the files page that fill and *)
(* empty them: downloads, the preview of a file, and the privacy shutter.  *)
(* A version number compared after an await is not kept: what it overtakes *)
(* is dropped at once, since its end changes nothing.  `write` is the one  *)
(* encryption whose result is still wanted, `run` the one preview load;    *)
(* loads overtaken while their digest is computed are `late`.              *)
(***************************************************************************)
EXTENDS Naturals, FiniteSets

CONSTANTS Files,
          Values,       \* credentials a user may type
          AccountPin,   \* the one that opens the user's private key
          MaxLoads,     \* bound of the model: previews and downloads begun
          None

ASSUME SessionAssumption ==
  AccountPin \in Values /\ None \notin Files \union Values /\ MaxLoads \in Nat

VARIABLES kind, opens,   \* per file, how its key is kept, and what opens it
          cred,          \* credentialRef
          stored,        \* vault_cached_credential, and if this page load wrote it
          write,         \* the credential being encrypted for sessionStorage
          restore,       \* restoreSession, from the mount of the provider
          rsa,           \* privateKeyRef is set
          pem, pemWrite, \* vault_cached_private_key is set; is being encrypted
          keys,          \* fileKeyMap: the credential each key was made with
          index,         \* files whose decrypted words the search index has
          locked, dirty, \* isVaultLocked; a state of the page changed since
          stray,         \* history: what was put back behind the shutter
          preview,       \* the open FilePreviewModal
          run, late,     \* the current loadPreview, and the overtaken ones
          timer,         \* the load due 50 ms after the last digit of a PIN
          downloads, form, \* downloadFileWithCredential; pendingDownload
          loads          \* previews and downloads begun

vaultVars == <<cred, stored, write, restore, rsa, pem, pemWrite, keys, index>>
previewVars == <<preview, run, late, timer>>
vars == <<kind, opens, vaultVars, locked, dirty, stray, previewVars, downloads, form, loads>>

Credentials == [value : Values, type : {"pin", "password"}]
TypeOfFile(f) == IF kind[f] = "password" THEN "password" ELSE "pin"
Kinds == {"pin", "password", "shared"}
Sources == {"none", "cached", "submit", "timer", "retry"}
Copies == [credential : Credentials, ours : BOOLEAN]
\* `sha` is the file decryptedSha256 is of, `hashedBy` the load that computed it.
Modals == [file : Files, prompt : BOOLEAN, typed : Values \union {None}, loading : BOOLEAN,
           error : {None, "credential", "other"}, shown : Files \union {None},
           sha : Files \union {None}, hashedBy : {"current", "overtaken"}]
Runs == [file : Files, value : Values \union {None}, key : Values \union {None}, pem : BOOLEAN,
         source : Sources, at : {"key", "worker", "digest", "show"}]
Timers == [file : Files, value : Values, mounted : BOOLEAN]
Digests == [file : Files, mounted : BOOLEAN]
Fetches == [file : Files, value : Values \union {None}, source : Sources,
            at : {"fetch", "decrypt"}, key : Values \union {None}]

ASSUME NoneAssumption ==
  None \notin Credentials /\ None \notin Copies /\ None \notin Modals /\ None \notin Runs
  /\ None \notin Timers

\* The state of every variable is of the shape its code gives it.
TypeOK ==
  /\ kind \in [Files -> Kinds] /\ opens \in [Files -> Values]
  /\ cred \in Credentials \union {None}
  /\ stored \in Copies \union {None}
  /\ write \in Credentials \union {None}
  /\ restore \in {"key", "credential", "done"}
  /\ {rsa, pem, pemWrite, locked, dirty} \subseteq BOOLEAN /\ stray \subseteq {"words", "key"}
  /\ keys \in [Files -> Values \union {None}] /\ index \subseteq Files
  /\ preview \in Modals \union {None} /\ run \in Runs \union {None}
  /\ late \subseteq Digests /\ timer \in Timers \union {None}
  /\ downloads \subseteq Fetches
  /\ form \in Files \union {None} /\ loads \in 0..MaxLoads

\* The moment after login.tsx: the private key is unlocked and its copy, and the
\* credential's, are being written.
Init ==
  /\ kind \in [Files -> Kinds]
  /\ opens \in {o \in [Files -> Values] : \A f \in Files : kind[f] = "shared" => o[f] = AccountPin}
  /\ cred \in {[value |-> AccountPin, type |-> "pin"]}
        \union [value : Values \ {AccountPin}, type : {"password"}]
  /\ stored = None /\ write = cred /\ restore = "done"
  /\ rsa = TRUE /\ pem = FALSE /\ pemWrite = TRUE
  /\ keys = [f \in Files |-> None] /\ index = {}
  /\ locked = FALSE /\ dirty = FALSE /\ stray = {}
  /\ preview = None /\ run = None /\ late = {} /\ timer = None
  /\ downloads = {} /\ form = None /\ loads = 0

-----------------------------------------------------------------------------
(* SessionVaultProvider.                                                   *)

\* A new version: the write and the restore of the one before are overtaken.
Overtake == restore' = IF restore = "credential" THEN "done" ELSE restore

SetCredential(c) == cred' = c /\ write' = c /\ Overtake /\ UNCHANGED stored

\* Mutant: the version stays, and with it the write.
ClearKeepingVersion == cred' = None /\ stored' = None /\ UNCHANGED <<write, restore>>

ClearCredential == cred' = None /\ stored' = None /\ write' = None /\ Overtake

KeepCredential == UNCHANGED <<cred, stored, write, restore>>

\* clearVault
ClearVault ==
  /\ ClearCredential
  /\ rsa' = FALSE /\ pem' = FALSE /\ keys' = [f \in Files |-> None] /\ index' = {}
  /\ UNCHANGED pemWrite

\* The end of setCredential's encryption.
StoreCredential ==
  /\ write # None /\ write' = None /\ stored' = [credential |-> write, ours |-> TRUE]
  /\ UNCHANGED <<kind, opens, cred, restore, rsa, pem, pemWrite, keys, index, locked, dirty, stray,
                 previewVars, downloads, form, loads>>

\* The end of setPrivateKey's encryption, which looks at nothing, so that it
\* ends behind the shutter as well.
StorePrivateKey ==
  /\ pemWrite /\ pemWrite' = FALSE /\ pem' = TRUE
  /\ stray' = IF locked THEN stray \union {"key"} ELSE stray
  /\ UNCHANGED <<kind, opens, cred, stored, write, restore, rsa, keys, index, locked, dirty,
                 previewVars, downloads, form, loads>>

\* The page is loaded again: memory is lost, and with it EPHEMERAL_KEY, so the
\* copies in sessionStorage can no longer be read; the provider mounts.
Reload ==
  /\ cred' = None /\ write' = None /\ rsa' = FALSE /\ pemWrite' = FALSE
  /\ stored' = IF stored = None THEN None ELSE [stored EXCEPT !.ours = FALSE]
  /\ restore' = IF pem THEN "key" ELSE IF stored # None THEN "credential" ELSE "done"
  /\ keys' = [f \in Files |-> None] /\ index' = {}
  /\ locked' = FALSE /\ dirty' = FALSE /\ stray' = {}
  /\ preview' = None /\ run' = None /\ late' = {} /\ timer' = None
  /\ downloads' = {} /\ form' = None
  /\ UNCHANGED <<kind, opens, pem, loads>>

\* restoreSession: the private key cannot be read and is removed, ...
RestoreKey ==
  /\ restore = "key" /\ pem' = FALSE
  /\ restore' = IF stored # None THEN "credential" ELSE "done"
  /\ UNCHANGED <<kind, opens, cred, stored, write, rsa, pemWrite, keys, index, locked, dirty, stray,
                 previewVars, downloads, form, loads>>

\* ... then so is the credential, unless this page load stored it meanwhile.
RestoreCredential ==
  /\ restore = "credential"
  /\ IF ~stored.ours THEN ClearCredential
     ELSE /\ cred' = IF cred = None THEN stored.credential ELSE cred
          /\ restore' = "done" /\ UNCHANGED <<stored, write>>
  /\ UNCHANGED <<kind, opens, rsa, pem, pemWrite, keys, index, locked, dirty, stray,
                 previewVars, downloads, form, loads>>

-----------------------------------------------------------------------------
(* The privacy shutter.                                                    *)

\* Mutant: the run that is cancelled is not looked for first.
CancelledUnchecked ==
  IF run # None /\ run.at # "digest" THEN late
  ELSE late \union {[file |-> IF run = None THEN None ELSE run.file, mounted |-> TRUE]}

\* cancelActivePreview: the worker of the current run is ended, and what it does
\* after its worker is compared with the generation, the digest excepted.
Cancelled ==
  IF run # None /\ run.at = "digest" THEN late \union {[file |-> run.file, mounted |-> TRUE]} ELSE late

\* The modal is unmounted with its generation; a timer of it still fires, and a
\* digest of it ends with nothing to show.
Unmount ==
  /\ preview' = None /\ late' = {[d EXCEPT !.mounted = FALSE] : d \in Cancelled} /\ run' = None
  /\ timer' = IF timer = None THEN None ELSE [timer EXCEPT !.mounted = FALSE]

\* ⌘L, three idle minutes or the command palette; the shutter's effect empties
\* the vault and closes the preview.
Lock ==
  /\ ~locked /\ locked' = TRUE /\ dirty' = FALSE /\ stray' = {}
  /\ ClearVault /\ Unmount
  /\ UNCHANGED <<kind, opens, downloads, form, loads>>

\* Mutant: onScrubMemory keeps its identity, so its effect runs once.
RenderLockedOnce ==
  /\ locked /\ dirty /\ dirty' = FALSE
  /\ UNCHANGED <<kind, opens, vaultVars, locked, stray, previewVars, downloads, form, loads>>

\* A render of the locked page makes onScrubMemory anew, and its effect runs.
RenderLocked ==
  /\ locked /\ dirty /\ dirty' = FALSE /\ stray' = {}
  /\ ClearVault /\ Unmount
  /\ UNCHANGED <<kind, opens, locked, downloads, form, loads>>

\* Any PIN, or none, opens the shutter; syncDocuments keeps what was enriched.
Unlock ==
  /\ locked /\ locked' = FALSE /\ dirty' = FALSE /\ stray' = {}
  /\ UNCHANGED <<kind, opens, vaultVars, previewVars, downloads, form, loads>>

-----------------------------------------------------------------------------
(* FilePreviewModal.                                                       *)

\* The cached credential is tried only on a file of its type.
Fits(f) == cred # None /\ cred.type = TypeOfFile(f)

LoadRun(f, v, source) ==
  /\ loads < MaxLoads /\ loads' = loads + 1
  /\ run' = [file |-> f, value |-> v, key |-> keys[f], pem |-> FALSE, source |-> source,
             at |-> IF kind[f] = "shared" /\ keys[f] = None THEN "key" ELSE "worker"]

\* The effect of a file: what the previous one left is cleared, its spinner
\* excepted, and the file is loaded with what the vault has or a prompt is shown.
Show(f, loading) ==
  LET empty == [file |-> f, prompt |-> FALSE, typed |-> None, loading |-> loading,
                error |-> None, shown |-> None, sha |-> None, hashedBy |-> "current"]
  IN CASE kind[f] = "shared" /\ rsa ->
            preview' = [empty EXCEPT !.loading = TRUE] /\ LoadRun(f, None, "none")
       [] ~(kind[f] = "shared" /\ rsa) /\ Fits(f) ->
            /\ preview' = [empty EXCEPT !.loading = TRUE, !.typed = cred.value]
            /\ LoadRun(f, cred.value, "cached")
       [] OTHER -> preview' = [empty EXCEPT !.prompt = TRUE] /\ run' = None /\ UNCHANGED loads

OpenPreview(f) ==
  /\ ~locked /\ preview = None /\ form = None
  /\ Show(f, FALSE)
  /\ late' = Cancelled
  /\ UNCHANGED <<kind, opens, vaultVars, locked, dirty, stray, timer, downloads, form>>

\* Mutant: the run of the file before is not cancelled.
SwitchKeepingRun(f) ==
  /\ ~locked /\ preview # None /\ f # preview.file /\ timer = None
  /\ run # None /\ preview' = [preview EXCEPT !.file = f, !.shown = None, !.sha = None]
  /\ UNCHANGED <<kind, opens, vaultVars, locked, dirty, stray, timer, downloads, form, run, late, loads>>

\* The omnibar sits over the preview and puts another file in it.  It takes
\* longer to pick one than the timer of a PIN.
SwitchPreview(f) ==
  /\ ~locked /\ preview # None /\ f # preview.file /\ timer = None
  /\ Show(f, preview.loading)
  /\ late' = Cancelled
  /\ UNCHANGED <<kind, opens, vaultVars, locked, dirty, stray, timer, downloads, form>>

ClosePreview ==
  /\ preview # None /\ Unmount
  /\ UNCHANGED <<kind, opens, vaultVars, locked, dirty, stray, downloads, form, loads>>

\* The last digit of a PIN starts the timer; a password waits for its button.
TypeCredential(v) ==
  /\ ~locked /\ preview # None /\ preview.prompt
  /\ preview' = [preview EXCEPT !.typed = v]
  /\ timer' = IF TypeOfFile(preview.file) = "pin"
              THEN [file |-> preview.file, value |-> v, mounted |-> TRUE] ELSE timer
  /\ UNCHANGED <<kind, opens, vaultVars, locked, dirty, stray, run, late, downloads, form, loads>>

\* The timer loads the file; nobody looks at the result, nor dismisses the prompt.
FireTimer ==
  /\ timer # None /\ timer.mounted /\ timer' = None
  /\ late' = Cancelled /\ LoadRun(timer.file, timer.value, "timer")
  /\ preview' = [preview EXCEPT !.loading = TRUE, !.error = None]
  /\ UNCHANGED <<kind, opens, vaultVars, locked, dirty, stray, downloads, form>>

\* In a modal that is gone it loads the file as well, and none can cancel it: it
\* may fail, or get as far as the digest.
FireLateTimer ==
  /\ timer # None /\ ~timer.mounted /\ timer' = None
  /\ \/ UNCHANGED late
     \/ /\ timer.value = opens[timer.file]
        /\ late' = late \union {[file |-> timer.file, mounted |-> FALSE]}
  /\ UNCHANGED <<kind, opens, vaultVars, locked, dirty, stray, preview, run, downloads, form, loads>>

Load(source) ==
  /\ late' = Cancelled /\ LoadRun(preview.file, preview.typed, source)
  /\ preview' = [preview EXCEPT !.loading = TRUE, !.error = None,
                               !.prompt = @ /\ source # "submit"]
  /\ UNCHANGED <<kind, opens, vaultVars, locked, dirty, stray, timer, downloads, form>>

\* handleCredentialSubmit
SubmitPreview ==
  /\ ~locked /\ preview # None /\ preview.prompt /\ preview.typed # None /\ Load("submit")

RetryPreview == ~locked /\ preview # None /\ preview.error = "other" /\ Load("retry")

EditCredential ==
  /\ ~locked /\ preview # None /\ preview.error = "other"
  /\ preview' = [preview EXCEPT !.error = None, !.prompt = TRUE]
  /\ UNCHANGED <<kind, opens, vaultVars, locked, dirty, stray, run, late, timer, downloads, form, loads>>

\* A failed load: the effect and the button forget a rejected credential and ask
\* again; the timer and the retry do not.
FailPreview(error) ==
  LET asks == error = "credential" /\ run.source \in {"cached", "submit"}
  IN /\ run' = None
     /\ IF asks THEN ClearCredential ELSE KeepCredential
     /\ preview' = IF preview = None THEN None
                   ELSE [preview EXCEPT !.loading = FALSE, !.error = error, !.prompt = @ \/ asks,
                                        !.typed = IF asks /\ run.source = "cached" THEN None ELSE @]
     /\ UNCHANGED <<kind, opens, rsa, pem, pemWrite, keys, index, locked, dirty, stray, late, timer,
                    downloads, form, loads>>

\* The private key of a shared file, from sessionStorage or by the typed PIN.
PreviewKey ==
  /\ run # None /\ run.at = "key"
  /\ \/ /\ pem \/ run.value \in {None, AccountPin}
        /\ run' = [run EXCEPT !.at = "worker", !.pem = pem \/ run.value = AccountPin]
        /\ UNCHANGED <<kind, opens, vaultVars, locked, dirty, stray, preview, late, timer, downloads, form, loads>>
     \/ ~pem /\ run.value \notin {None, AccountPin} /\ FailPreview("credential")

\* The worker fetches and decrypts.  Without the private key a shared file fails
\* as any other trouble does.
PreviewWorker ==
  /\ run # None /\ run.at = "worker"
  /\ LET f == run.file
         opened == IF run.key # None THEN run.key = opens[f]
                   ELSE IF kind[f] = "shared" THEN run.pem ELSE run.value = opens[f]
     IN \/ /\ opened
           /\ run' = [run EXCEPT !.at = "digest"]
           /\ UNCHANGED <<kind, opens, vaultVars, locked, dirty, stray, preview, late, timer, downloads, form, loads>>
        \/ ~opened /\ run.key = None /\ kind[f] # "shared" /\ FailPreview("credential")
        \/ FailPreview("other")

\* After the digest, setDecryptedSha256 and enrichDocument; only then is the
\* generation looked at, ...
PreviewDigest ==
  /\ run # None /\ run.at = "digest"
  /\ run' = [run EXCEPT !.at = "show"] /\ index' = index \union {run.file}
  /\ preview' = IF preview = None THEN None
                ELSE [preview EXCEPT !.sha = run.file, !.hashedBy = "current"]
  /\ UNCHANGED <<kind, opens, cred, stored, write, restore, rsa, pem, pemWrite, keys, locked, dirty, stray,
                 late, timer, downloads, form, loads>>

\* ... so an overtaken load does both too, the first in the modal as it is now.
LateDigest(d) ==
  /\ d \in late /\ late' = late \ {d} /\ index' = index \union {d.file}
  /\ stray' = IF locked THEN stray \union {"words"} ELSE stray
  /\ preview' = IF preview = None \/ ~d.mounted THEN preview
                ELSE [preview EXCEPT !.sha = d.file, !.hashedBy = "overtaken"]
  /\ UNCHANGED <<kind, opens, cred, stored, write, restore, rsa, pem, pemWrite, keys, locked, dirty,
                 run, timer, downloads, form, loads>>

\* The content appears; the button remembers the credential that opened it.
PreviewShown ==
  /\ run # None /\ run.at = "show" /\ run' = None
  /\ preview' = IF preview = None THEN None
                ELSE [preview EXCEPT !.loading = FALSE, !.shown = run.file]
  /\ IF run.source = "submit"
     THEN SetCredential([value |-> run.value, type |-> TypeOfFile(run.file)]) ELSE KeepCredential
  /\ UNCHANGED <<kind, opens, rsa, pem, pemWrite, keys, index, locked, dirty, stray, late, timer,
                 downloads, form, loads>>

-----------------------------------------------------------------------------
(* Downloads of the files page.                                            *)

Fetching(f, v, source) ==
  /\ loads < MaxLoads /\ loads' = loads + 1
  /\ downloads' = downloads \union
    {[file |-> f, value |-> v, source |-> source, at |-> "fetch", key |-> None]}

\* handleDownload: a key at hand, then a credential of the type, then the form.
Download(f) ==
  /\ ~locked /\ form = None
  /\ LET atHand == keys[f] # None \/ (kind[f] = "shared" /\ rsa)
     IN \/ atHand /\ Fetching(f, None, "none") /\ UNCHANGED form
        \/ ~atHand /\ Fits(f) /\ Fetching(f, cred.value, "cached") /\ UNCHANGED form
        \/ ~atHand /\ ~Fits(f) /\ form' = f /\ UNCHANGED <<downloads, loads>>
  /\ UNCHANGED <<kind, opens, vaultVars, locked, dirty, stray, previewVars>>

\* handlePasswordSubmit and performDownload; the form stays until it succeeds.
SubmitDownload(v) ==
  /\ ~locked /\ form # None /\ \A d \in downloads : d.source # "submit"
  /\ Fetching(form, v, "submit")
  /\ UNCHANGED <<kind, opens, vaultVars, locked, dirty, stray, previewVars, form>>

CancelForm ==
  /\ ~locked /\ form # None /\ form' = None
  /\ UNCHANGED <<kind, opens, vaultVars, locked, dirty, stray, previewVars, downloads, loads>>

\* Every end of a download sets a state of the page.
EndDownload(d, result) ==
  /\ downloads' = downloads \ {d}
  /\ dirty' = (dirty \/ locked)
  /\ form' = IF d.source = "submit" /\ result = "success" THEN None
             ELSE IF d.source = "cached" /\ result = "credential" THEN d.file ELSE form
  /\ IF result = "credential" THEN ClearCredential
     ELSE IF result = "success" /\ d.source = "submit"
     THEN SetCredential([value |-> d.value, type |-> TypeOfFile(d.file)]) ELSE KeepCredential

\* The file is fetched and its key found: cached, by the private key, which the
\* typed PIN may unlock, or by the credential itself.
DownloadKey(d) ==
  /\ d \in downloads /\ d.at = "fetch"
  /\ LET f == d.file
         found(k) == downloads' = (downloads \ {d}) \union {[d EXCEPT !.at = "decrypt", !.key = k]}
         unlocks == keys[f] = None /\ kind[f] = "shared" /\ ~rsa
     IN \/ EndDownload(d, "other") /\ UNCHANGED rsa
        \/ /\ unlocks /\ d.value # AccountPin
           /\ EndDownload(d, "credential") /\ UNCHANGED rsa
        \/ /\ unlocks => d.value = AccountPin
           /\ rsa' = (rsa \/ unlocks)
           /\ found(IF keys[f] # None THEN keys[f]
                    ELSE IF kind[f] = "shared" THEN AccountPin ELSE d.value)
           /\ KeepCredential /\ UNCHANGED <<dirty, form>>
  /\ UNCHANGED <<kind, opens, pem, pemWrite, keys, index, locked, stray, previewVars, loads>>

\* Mutant: the key is cached before the file is decrypted with it.
DownloadDecryptCachingFirst(d) ==
  /\ d \in downloads /\ d.at = "decrypt"
  /\ keys' = [keys EXCEPT ![d.file] = d.key]
  /\ EndDownload(d, IF d.key = opens[d.file] THEN "success" ELSE "credential")
  /\ UNCHANGED <<kind, opens, rsa, pem, pemWrite, index, locked, stray, previewVars, loads>>

\* The file is decrypted, and only then is its key cached.
DownloadDecrypt(d) ==
  /\ d \in downloads /\ d.at = "decrypt"
  /\ IF d.key = opens[d.file]
     THEN keys' = [keys EXCEPT ![d.file] = d.key] /\ EndDownload(d, "success")
     ELSE UNCHANGED keys /\ EndDownload(d, "credential")
  /\ UNCHANGED <<kind, opens, rsa, pem, pemWrite, index, locked, stray, previewVars, loads>>

-----------------------------------------------------------------------------
ProviderStep ==
  \/ StoreCredential \/ StorePrivateKey \/ Reload \/ RestoreKey \/ RestoreCredential
PageStep == Lock \/ RenderLocked \/ Unlock
PreviewLoad == PreviewKey \/ PreviewWorker \/ PreviewDigest \/ PreviewShown
PreviewStep ==
  \/ \E f \in Files : OpenPreview(f) \/ SwitchPreview(f)
  \/ \E d \in late : LateDigest(d)
  \/ \E v \in Values : TypeCredential(v)
  \/ ClosePreview \/ FireTimer \/ FireLateTimer \/ SubmitPreview \/ RetryPreview \/ EditCredential \/ PreviewLoad
DownloadStep ==
  \/ \E f \in Files : Download(f)
  \/ \E v \in Values : SubmitDownload(v)
  \/ CancelForm
  \/ \E d \in downloads : DownloadKey(d) \/ DownloadDecrypt(d)

Next == ProviderStep \/ PageStep \/ PreviewStep \/ DownloadStep
Spec == Init /\ [][Next]_vars

-----------------------------------------------------------------------------
\* A key the vault hands out opens its file: a credential that was not checked
\* never poisons the later downloads and previews.
KeysOpenTheirFiles == \A f \in Files : keys[f] \in {None, opens[f]}

\* A credential that was cleared, rejected or overtaken does not come back to
\* sessionStorage, whichever encryption ends last.
StoredIsCurrent ==
  stored # None /\ restore = "done" /\ write = None => stored.ours /\ stored.credential = cred

\* Together: nothing the vault hands out is of a wrong or an earlier credential.
SecretsAreCurrent == KeysOpenTheirFiles /\ StoredIsCurrent

\* Behind the shutter, once the downloads that outlived the lock have ended and
\* the page has been drawn, the vault keeps no credential and no key in memory.
\* Two things may be there again, because what was begun before the lock ended
\* after the vault was last emptied: the private key in sessionStorage, whose
\* write by setPrivateKey has no version, and the words of a preview in the index.
LockedVaultEmpties ==
  locked /\ downloads = {} /\ ~dirty =>
    /\ cred = None /\ stored = None /\ ~rsa /\ \A f \in Files : keys[f] = None
    /\ ~pem \/ "key" \in stray
    /\ index = {} \/ "words" \in stray

\* The SHA-256 of a modal is of the file it names, or was written over.
Sealed(p) == p.sha = p.file \/ p.hashedBy = "overtaken"

\* The preview shows the content of the file it names, and beside it the SHA-256
\* of that file, unless the digest of an overtaken load of the same modal, which
\* is not compared with the generation, has written its own over it.
ShownIsTheFile ==
  preview # None =>
    /\ preview.shown \in {None, preview.file}
    /\ preview.shown # None => Sealed(preview)
=============================================================================
