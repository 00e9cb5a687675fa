----------------------------- MODULE FolderLinks -----------------------------
(***************************************************************************)
(* Folders, the uploads of their owner, and the public links of a folder.  *)
(* A link keeps, per file, the key of the file wrapped under the key in    *)
(* the fragment of the link's URL: handle_folder_share_links.go serves the *)
(* rows, and the owner's browser makes them, when it creates the link      *)
(* (`maker`) and when it brings the link up to date after an upload, a     *)
(* move or an opened page (`run`).  `page` is a visitor's.  A key wrapped  *)
(* under the fragment of link l is written l.                              *)
(* Every request may fail, or be stored and its answer be lost; the owner  *)
(* also moves, renames, deletes and revokes from other devices.            *)
(***************************************************************************)
EXTENDS Naturals, FiniteSets

CONSTANTS Folders, Files, Links,
          Root,          \* the parent of top folders, the place of loose files
          Unborn, Gone,  \* not stored yet, and deleted
          None,
          MaxBegun       \* bound of the model: changes made and activities begun

ASSUME FolderAssumption ==
  /\ {Root, Unborn, Gone, None} \cap (Folders \union Files \union Links) = {}
  /\ Root \notin {Unborn, Gone, None} /\ Unborn \notin {Gone, None} /\ Gone # None
  /\ None \notin {"201", "4xx", "5xx", "lost"}
  /\ \A S \in (SUBSET Files) \union (SUBSET Folders) \union (SUBSET SUBSET Files) : S # None
  /\ IsFiniteSet(Folders) /\ MaxBegun \in Nat

VARIABLES parent,   \* folders.parent_id
          home,     \* files.folder_id
          scheme,   \* what opens the owner's key row of the file, if there is one
          link,     \* folder_share_links with its folder_share_file_keys
          seen,     \* history: the folders that were in the folder of a link
          ever,     \* history: the files seen in one of those
          begun,    \* changes made and activities begun
          known,    \* `folders` of the open files page
          upload,   \* the upload under way
          tray,     \* what the page says of each upload
          run,      \* the synchronisation under way
          maker,    \* CreateFolderShareLinkModal
          page      \* PublicFolderSharePage

rowVars == <<parent, home, scheme, link, seen, ever>>
vars == <<rowVars, begun, known, upload, tray, run, maker, page>>

Born == {d \in Folders : parent[d] \notin {Unborn, Gone}}
Stored == {f \in Files : home[f] \notin {Unborn, Gone}}
NoKeys == [f \in Files |-> None]
NoLink == [st |-> "none", at |-> None, owner |-> None, keys |-> NoKeys]

(*---------------------------- the tree of folders ------------------------*)
\* The folder d and those above it, as the parents in `up` say.
Above(up, d) ==
  LET climb[n \in 0..Cardinality(Folders)] ==
        IF n = 0 THEN {d}
        ELSE climb[n - 1] \union {up[x] : x \in climb[n - 1] \cap DOMAIN up}
  IN climb[Cardinality(Folders)] \cap Folders
OnCycle(up, d) == up[d] \in Folders /\ d \in Above(up, up[d])
\* GetFolderSubtreeIDs and GetFilesByFolderIDs: always two queries, one after the other.
Below(d) == {x \in Born : d \in Born \cap Above(parent, x)}
FilesOf(ids) == {f \in Files : home[f] \in ids}
\* The recursive query of a subtree with a cycle never ends.
Ends(d) == \A x \in Below(d) : ~OnCycle(parent, x)
Inside(d) == FilesOf(Below(d))
NoPage == [state |-> "none", link |-> None, ids |-> {}, tree |-> None, keys |-> NoKeys,
           refresh |-> "none", zip |-> FALSE, want |-> {}, with |-> NoKeys, got |-> {}, entries |-> {}]
Open(l) == link[l].st = "open"
Keyed(l) == {f \in Files : link[l].keys[f] # None}
Listed(l) == IF Open(l) THEN Inside(link[l].at) \cap Keyed(l) ELSE {}

Phases == {"links", "next", "upgrade", "read", "post", "subtree", "check", "store"}
Makings == {"files", "wrap", "post", "subtree", "check", "keys"}
\* What opens a key row: the PIN, the password, or the private key either unlocks.
Schemes == {"pin", "password", "rsa", "none"}
\* The state of every variable is of the shape its code gives it; rows point at
\* rows that are there.
TypeOK ==
  /\ \A f \in Files : home[f] \in Folders => home[f] \in Born
  /\ \A l \in Links : Keyed(l) \subseteq Stored /\ link[l].at \in Born \union {None}
  /\ parent \in [Folders -> Folders \union {Root, Unborn, Gone}]
  /\ home \in [Files -> Folders \union {Root, Unborn, Gone}]
  /\ scheme \in [Files -> Schemes]
  /\ \A l \in Links :
       /\ link[l].st \in {"none", "open", "over", "gone"}
       /\ link[l].at \in Folders \union {None} /\ link[l].owner \in Links \union {None}
       /\ link[l].keys \in [Files -> Links \union {None}]
  /\ seen \in [Links -> SUBSET Folders] /\ ever \in [Links -> SUBSET Files] /\ begun \in 0..MaxBegun
  /\ known \in [Folders -> Folders \union {Root, Unborn, Gone}]
  /\ tray \in [Files -> {"none", "uploading", "done", "error", "unknown"}]
  /\ upload = None \/ upload \in
       [file : Files, to : Folders \union {Root}, scope : SUBSET Folders,
        answer : {None, "201", "4xx", "5xx", "lost"}]
  /\ run = None \/
       /\ run.pc \in Phases /\ run.cred \in {"pin", "password"}
       /\ run.scope \subseteq Folders /\ run.todo \subseteq Links
       /\ run.cur \in Links \union {None} /\ run.key \in Links \union {None}
       /\ {run.url, run.repair} \subseteq BOOLEAN /\ run.offer \subseteq Files
       /\ run.ids = None \/ run.ids \subseteq Folders
       /\ run.files = None \/ run.files \subseteq Files
       /\ run.have = None \/ run.have \subseteq Files
  /\ maker = None \/ maker \in
       [pc : Makings, at : Folders, ids : SUBSET Folders, offer : SUBSET Files,
        made : Links \union {None}]
  /\ page.state \in {"none", "loading", "ready", "downloading", "done", "expired", "error"}
  /\ page.refresh \in {"none", "info", "tree", "keys"} /\ page.zip \in BOOLEAN
  /\ page.tree = None \/ page.tree \subseteq SUBSET Files

\* An open page of an owner with folders below another, not yet created or deleted, a
\* link older than the owner's copies of folder keys, and files inside and outside.
Init ==
  /\ \E top \in Folders :
       /\ parent \in {p \in [Folders -> {Root, Unborn, Gone, top}] :
                        p[top] = Root /\ \A d \in Folders \ {top} : p[d] # Root}
       /\ home \in {h \in [Files -> Folders \union {Root, Unborn}] :
                      \A f \in Files : h[f] \in Folders => parent[h[f]] \notin {Unborn, Gone}}
       /\ \E old \in Links, keyed \in SUBSET Inside(top) :
            /\ link = [l \in Links |->
                 IF l = old THEN [st |-> "open", at |-> top, owner |-> None,
                                  keys |-> [f \in Files |-> IF f \in keyed THEN l ELSE None]]
                 ELSE NoLink]
            /\ seen = [l \in Links |-> IF l = old THEN Below(top) ELSE {}]
            /\ ever = [l \in Links |-> IF l = old THEN Inside(top) ELSE {}]
  /\ scheme \in {s \in [Files -> Schemes] :
                   \A f \in Files : home[f] = Unborn => s[f] = "none"}
  /\ begun \in 0..MaxBegun /\ known = parent /\ upload = None
  /\ tray = [f \in Files |-> "none"] /\ run = None /\ maker = None
  /\ page = NoPage

(*------------------------------ folders and files ------------------------*)
\* The history variables take in the folders a change puts below that of a link, and
\* the files that are then in one of its folders of now or before.
SeenInside(links, homes) ==
  LET there(l) == links[l].st \notin {"none", "gone"} IN
  /\ seen' = [l \in Links |-> seen[l] \union {x \in Folders :
                there(l) /\ parent'[x] \notin {Unborn, Gone} /\ links[l].at \in Above(parent', x)}]
  /\ ever' = [l \in Links |-> ever[l] \union {f \in Files : there(l) /\ homes[f] \in seen'[l]}]

Begin == begun < MaxBegun /\ begun' = begun + 1
Elsewhere == UNCHANGED <<known, upload, tray, run, maker, page>>

\* The page asks for a new folder; it reads the folders again.
CreateFolder(d, p) ==
  /\ Begin
  /\ parent[d] = Unborn /\ p \in Born \union {Root}
  /\ parent' = [parent EXCEPT ![d] = p]
  /\ known' = parent'
  /\ SeenInside(link, home)
  /\ UNCHANGED <<home, scheme, link, upload, tray, run, maker, page>>

\* PUT /folders/{id}: only the folder itself is refused as its parent.
UpdateFolder(d, p) ==
  /\ d \in Born /\ p \in Born \union {Root} /\ p # d
  /\ parent' = [parent EXCEPT ![d] = p]
  /\ SeenInside(link, home)
  /\ UNCHANGED <<home, scheme, link>>

MoveFolder(d, p) == Begin /\ UpdateFolder(d, p) /\ Elsewhere

\* The page's rename sends the name alone, and no parent means the root.
RenameFolder(d) ==
  /\ Begin
  /\ UpdateFolder(d, Root)
  /\ known' = parent'
  /\ UNCHANGED <<upload, tray, run, maker, page>>

\* Mutant: the files stay where they were.
DeleteFolderOnly(d) ==
  /\ d \in Born /\ Begin
  /\ LET dead == Below(d) IN
     /\ parent' = [x \in Folders |-> IF x \in dead THEN Gone ELSE parent[x]]
     /\ link' = [l \in Links |-> IF link[l].at \in dead
                                 THEN [NoLink EXCEPT !.st = "gone"] ELSE link[l]]
  /\ known' = parent'
  /\ UNCHANGED <<home, scheme, seen, ever, upload, tray, run, maker, page>>
\* Folders below d and every link of one of them go with it; files become loose.
DeleteFolder(d) ==
  /\ d \in Born /\ Begin
  /\ LET dead == Below(d) IN
     /\ parent' = [x \in Folders |-> IF x \in dead THEN Gone ELSE parent[x]]
     /\ home' = [f \in Files |-> IF home[f] \in dead THEN Root ELSE home[f]]
     /\ link' = [l \in Links |-> IF link[l].at \in dead
                                 THEN [NoLink EXCEPT !.st = "gone"] ELSE link[l]]
  /\ known' = parent'
  /\ SeenInside(link', home')
  /\ UNCHANGED <<scheme, upload, tray, run, maker, page>>

MoveRow(f, d) ==
  /\ f \in Stored /\ d \in Born
  /\ home' = [home EXCEPT ![f] = d]
  /\ UNCHANGED <<parent, scheme, link>>
  /\ SeenInside(link, home')

MoveElsewhere(f, d) == Begin /\ MoveRow(f, d) /\ Elsewhere

DeleteFile(f) ==
  /\ f \in Stored /\ Begin
  /\ home' = [home EXCEPT ![f] = Gone]
  /\ link' = [l \in Links |-> [link[l] EXCEPT !.keys[f] = None]]
  /\ UNCHANGED <<parent, scheme, seen, ever>> /\ Elsewhere

\* A link is revoked by its owner, or its date passes.
CloseLink(l) ==
  /\ Open(l) /\ Begin
  /\ link' = [link EXCEPT ![l].st = "over"]
  /\ UNCHANGED <<parent, home, scheme, seen, ever>> /\ Elsewhere

(*----------------------------------- uploads -----------------------------*)
\* getAncestorFolderIds never ends on a cycle of the page's folders.
Ancestors(d) == Above(known, d)
Climbs(d) == \A x \in Above(known, d) : ~OnCycle(known, x)

\* The owner picks a file, or one more time a file whose upload was refused.
ChooseUpload(f, d) ==
  /\ Begin
  /\ upload = None /\ tray[f] \in {"none", "error"} /\ home[f] = Unborn
  /\ d \in {Root} \union {x \in Folders : known[x] \notin {Unborn, Gone}}
  /\ upload' = [file |-> f, to |-> d, scope |-> Ancestors(d), answer |-> None]
  /\ tray' = [tray EXCEPT ![f] = "uploading"]
  /\ UNCHANGED <<rowVars, known, run, maker, page>>

Reply(a) == upload' = [upload EXCEPT !.answer = a]
AskedNow == upload # None /\ upload.answer = None
\* A folder deleted meanwhile is refused, and so is a session that ended.
RefuseUpload ==
  /\ AskedNow /\ Reply("4xx")
  /\ UNCHANGED <<rowVars, begun, known, tray, run, maker, page>>
\* The row, then its key.  A key that cannot be stored takes the bytes back, and
\* the row too unless that statement fails as well.
StoreUpload ==
  /\ AskedNow
  /\ upload.to \in Born \union {Root}
  /\ \/ /\ home' = [home EXCEPT ![upload.file] = upload.to]
        /\ \E s \in {"pin", "password"} : scheme' = [scheme EXCEPT ![upload.file] = s]
        /\ \E a \in {"201", "lost"} : Reply(a)
     \/ /\ home' = [home EXCEPT ![upload.file] = upload.to]
        /\ scheme' = [scheme EXCEPT ![upload.file] = "none"]
        /\ \E a \in {"5xx", "lost"} : Reply(a)
     \/ /\ \E a \in {"5xx", "lost"} : Reply(a)
        /\ UNCHANGED <<home, scheme>>
  /\ UNCHANGED <<parent, link, begun, known, tray, run, maker, page>>
  /\ SeenInside(link, home')

\* Mutant: an answer of the 500s taken for a refusal.
OutcomeByStatus(answer) ==
  CASE answer = "201" -> "done" [] answer \in {"4xx", "5xx"} -> "error" [] OTHER -> "unknown"
\* readOwnerUploadOutcome, and the failed fetch of a request that was started.
Outcome(answer) ==
  CASE answer = "201" -> "done" [] answer = "4xx" -> "error" [] OTHER -> "unknown"

NoSync == UNCHANGED run
Syncing(phase, c, scope, todo) ==
  [pc |-> phase, cred |-> c, scope |-> scope, todo |-> todo, cur |-> None, key |-> None,
   url |-> FALSE, repair |-> FALSE, ids |-> None, files |-> None, have |-> None, offer |-> {}]
\* syncExistingFolderShares, left at once without a credential.
BeginSync(scope) ==
  \/ run = None /\ \E c \in {"pin", "password"} : run' = Syncing("links", c, scope, {})
  \/ NoSync

\* After its last upload into a folder the page brings the folder's links up to date.
UploadAnswered ==
  /\ upload # None /\ upload.answer # None
  /\ tray' = [tray EXCEPT ![upload.file] = Outcome(upload.answer)]
  /\ upload' = None
  /\ IF upload.to \in Folders /\ Climbs(upload.to) THEN BeginSync(upload.scope) ELSE NoSync
  /\ UNCHANGED <<rowVars, begun, known, maker, page>>

\* The page moves a file and brings the links of its new folder up to date, finding
\* them with the folders it knew before.
MoveFile(f, d) ==
  /\ run = None /\ Begin
  /\ known[d] \notin {Unborn, Gone} /\ Climbs(d)
  /\ MoveRow(f, d)
  /\ BeginSync(Ancestors(d))
  /\ known' = parent'
  /\ UNCHANGED <<upload, tray, maker, page>>

\* The page is opened again: what it showed is gone, and what it synchronised stops,
\* the request under way with its context.
OpenPage ==
  /\ Begin
  /\ upload = None
  /\ known' = parent
  /\ tray' = [f \in Files |-> "none"]
  /\ \/ run' = None
     \/ \E c \in {"pin", "password"} : run' = Syncing("links", c, Folders, {})
  /\ UNCHANGED <<rowVars, upload, maker, page>>

(*------------------------------- synchronisation -------------------------*)
syncOnly == UNCHANGED <<rowVars, begun, known, upload, tray, maker, page>>
Onward(r) == [r EXCEPT !.pc = "next", !.cur = None, !.key = None, !.ids = None,
                      !.files = None, !.have = None, !.offer = {}]

\* The active links of the owner; those without a copy of their key are skipped.
SyncLinksRead ==
  /\ run # None /\ run.pc = "links"
  /\ run' = [run EXCEPT !.pc = "next",
        !.todo = {l \in Links : Open(l) /\ link[l].at \in run.scope /\ link[l].owner # None}]
  /\ syncOnly
SyncTakesLink(l) ==
  /\ run # None /\ run.pc = "next" /\ l \in run.todo
  /\ run' = [run EXCEPT !.pc = "read", !.cur = l, !.key = link[l].owner, !.todo = @ \ {l}]
  /\ syncOnly
\* A repair that went well has its page read the link again.
SyncEnds ==
  /\ run # None /\ run.pc = "next" /\ run.todo = {}
  /\ run' = None
  /\ page' = IF run.repair THEN [page EXCEPT !.refresh = "info"] ELSE page
  /\ UNCHANGED <<rowVars, begun, known, upload, tray, maker>>

\* Mutant: the token of the pasted URL is not compared with the link's.
AnyUrlFits(l, u) == u \in Links
\* extractFolderShareKeyFromUrl: the URL of another link is refused.
UrlFits(l, u) == u = l
Repairing(l, u, c) ==
  [Syncing(IF u # None /\ link[l].owner = None THEN "upgrade" ELSE "read", c, {}, {})
   EXCEPT !.cur = l, !.key = IF u = None THEN link[l].owner ELSE u, !.url = u # None]
\* The panel of a link.  A pasted URL gives the folder key; without one the owner's
\* copy does.
SyncLink(l, u) ==
  /\ Begin
  /\ run = None /\ Open(l)
  /\ IF u = None THEN link[l].owner # None ELSE UrlFits(l, u) /\ link[u].st # "none"
  /\ \E c \in {"pin", "password"} : run' = Repairing(l, u, c)
  /\ UNCHANGED <<rowVars, known, upload, tray, maker, page>>
\* The public page, opened by the owner of its link, with its own URL.
PageRepairs ==
  /\ Begin
  /\ run = None /\ page.state = "ready" /\ page.refresh = "none" /\ Open(page.link)
  /\ \E c \in {"pin", "password"} :
       run' = [Repairing(page.link, page.link, c) EXCEPT !.repair = TRUE]
  /\ UNCHANGED <<rowVars, known, upload, tray, maker, page>>

\* The copy is stored only where there is none.
OwnersCopy == IF run.url /\ link[run.cur].owner = None THEN run.key ELSE link[run.cur].owner
StoreCopy == link' = [link EXCEPT ![run.cur].owner = OwnersCopy]

\* The copy alone is sent first; a link closed meanwhile is passed over in silence.
SyncUpgrade ==
  /\ run # None /\ run.pc = "upgrade"
  /\ IF Open(run.cur) THEN StoreCopy ELSE UNCHANGED link
  /\ run' = [run EXCEPT !.pc = "read"]
  /\ UNCHANGED <<parent, home, scheme, seen, ever, begun, known, upload, tray, maker, page>>

\* The files inside and the keys the link has are asked for together; the first
\* answer is put together of two queries, the folders and then their files.
SyncFoldersRead ==
  /\ run # None /\ run.pc = "read" /\ run.files = None /\ run.ids = None
  /\ link[run.cur].at \in Born /\ Ends(link[run.cur].at)
  /\ run' = [run EXCEPT !.ids = Below(link[run.cur].at)]
  /\ syncOnly
SyncFilesRead ==
  /\ run # None /\ run.pc = "read" /\ run.ids # None
  /\ run' = [run EXCEPT !.files = FilesOf(run.ids), !.ids = None]
  /\ syncOnly
SyncKeysRead ==
  /\ run # None /\ run.pc = "read" /\ run.have = None
  /\ Open(run.cur)
  /\ run' = [run EXCEPT !.have = Keyed(run.cur)]
  /\ syncOnly

\* resolveFolderShareFileKey: a file kept under the other credential cannot be opened,
\* one kept under the private key can with either.
Resolves(f, c) == f \in Stored /\ scheme[f] \in {c, "rsa"}
\* Files that cannot be opened are passed over; without any, nothing is sent.
SyncWrap ==
  /\ run # None /\ run.pc = "read" /\ run.files # None /\ run.have # None
  /\ LET offer == {f \in run.files \ run.have : Resolves(f, run.cred)} IN
     run' = IF offer = {} THEN Onward(run) ELSE [run EXCEPT !.pc = "post", !.offer = offer]
  /\ syncOnly

\* A closed link is refused with 400; the owner's copy is stored before the keys.
SyncAdmitted ==
  /\ run # None /\ run.pc = "post" /\ Open(run.cur)
  /\ StoreCopy
  /\ run' = [run EXCEPT !.pc = "subtree"]
  /\ UNCHANGED <<parent, home, scheme, seen, ever, begun, known, upload, tray, maker, page>>

\* The folders below, of none if the folder is deleted by now, then the files in them:
\* what is sent for other files is passed over.
SyncSubtree ==
  /\ run # None /\ run.pc = "subtree" /\ Ends(link[run.cur].at)
  /\ run' = [run EXCEPT !.pc = "check", !.ids = Below(link[run.cur].at)]
  /\ syncOnly
SyncChecks ==
  /\ run # None /\ run.pc = "check"
  /\ LET valid == run.offer \cap FilesOf(run.ids) IN
     run' = IF valid = {} THEN Onward(run)
            ELSE [run EXCEPT !.pc = "store", !.ids = None, !.offer = valid]
  /\ syncOnly

KeyAdded(l, f, k) == link' = [link EXCEPT ![l].keys[f] = k]
\* Then a row per file, in any order, of a link revoked meanwhile as well; one that
\* fails, as for a file or a link deleted by now it must, is passed over.
SyncStore(f) ==
  /\ run # None /\ run.pc = "store" /\ f \in run.offer
  /\ \/ link[run.cur].st # "gone" /\ f \in Stored /\ KeyAdded(run.cur, f, run.key)
     \/ UNCHANGED link
  /\ run' = IF run.offer = {f} THEN Onward(run) ELSE [run EXCEPT !.offer = @ \ {f}]
  /\ UNCHANGED <<parent, home, scheme, seen, ever, begun, known, upload, tray, maker, page>>

\* A refused, failed or broken request ends the work on its link, or on all when it
\* asked for them; what it has stored stays.
SyncFails ==
  /\ run # None /\ run.pc # "next"
  /\ run' = IF run.pc = "links" THEN None ELSE [Onward(run) EXCEPT !.repair = FALSE]
  /\ syncOnly

(*------------------------------ creating a link --------------------------*)
makerOnly == UNCHANGED <<rowVars, begun, known, upload, tray, run, page>>

\* The browser asks for the files of the folder: the folders below it, ...
MakerReads(d) ==
  /\ Begin
  /\ maker = None /\ d \in Born /\ Ends(d)
  /\ maker' = [pc |-> "files", at |-> d, ids |-> Below(d), offer |-> {}, made |-> None]
  /\ UNCHANGED <<rowVars, known, upload, tray, run, page>>
\* ... then the files in those.  An empty folder is not shared.
MakerFilesRead ==
  /\ maker # None /\ maker.pc = "files"
  /\ maker' = IF FilesOf(maker.ids) = {} THEN None
              ELSE [maker EXCEPT !.pc = "wrap", !.ids = {}, !.offer = FilesOf(maker.ids)]
  /\ makerOnly
\* The owner's keys of those files.  One that the PIN does not open ends it all.
MakerWraps ==
  /\ maker # None /\ maker.pc = "wrap"
  /\ LET kept == {f \in maker.offer \cap Stored : scheme[f] # "none"} IN
     maker' = IF kept # {} /\ \A f \in kept : Resolves(f, "pin")
              THEN [maker EXCEPT !.pc = "post", !.offer = kept] ELSE None
  /\ makerOnly
\* The link is stored first.
MakerInserts(l) ==
  /\ maker # None /\ maker.pc = "post" /\ maker.at \in Born /\ link[l].st = "none"
  /\ link' = [link EXCEPT ![l] = [NoLink EXCEPT !.st = "open", !.at = maker.at, !.owner = l]]
  /\ maker' = [maker EXCEPT !.pc = "subtree", !.made = l]
  /\ UNCHANGED <<parent, home, scheme, begun, known, upload, tray, run, page>>
  /\ SeenInside(link', home)
\* Then the folders below it are read, and the files in them: ...
MakerSubtree ==
  /\ maker # None /\ maker.pc = "subtree" /\ Ends(maker.at)
  /\ maker' = [maker EXCEPT !.pc = "check", !.ids = Below(maker.at)]
  /\ makerOnly
\* Mutant: every file the browser sent a key of is taken.
MakerChecksNothing ==
  /\ maker # None /\ maker.pc = "check"
  /\ maker' = [maker EXCEPT !.pc = "keys", !.ids = {}]
  /\ makerOnly
\* ... a key sent of another file is passed over.
MakerChecks ==
  /\ maker # None /\ maker.pc = "check"
  /\ LET valid == maker.offer \cap FilesOf(maker.ids) IN
     maker' = IF valid = {} THEN None
              ELSE [maker EXCEPT !.pc = "keys", !.ids = {}, !.offer = valid]
  /\ makerOnly
\* Each insert by itself, in any order; its error is not looked at.
MakerKey(f) ==
  /\ maker # None /\ maker.pc = "keys" /\ f \in maker.offer
  /\ \/ link[maker.made].st # "gone" /\ f \in Stored /\ KeyAdded(maker.made, f, maker.made)
     \/ UNCHANGED link
  /\ maker' = IF maker.offer = {f} THEN None ELSE [maker EXCEPT !.offer = @ \ {f}]
  /\ UNCHANGED <<parent, home, scheme, seen, ever, begun, known, upload, tray, run, page>>
\* A request fails or breaks; a link already stored stays, without the other keys.
MakerFails ==
  /\ maker # None
  /\ maker' = None
  /\ makerOnly

(*------------------------------ the public page --------------------------*)
pageOnly == UNCHANGED <<rowVars, begun, known, upload, tray, run, maker>>

\* The page is opened with the URL of a link, or tries again; what an earlier one
\* repaired it no longer shows.
PageOpens(l) ==
  /\ Begin
  /\ link[l].st # "none" /\ ~page.zip
  /\ page' = [NoPage EXCEPT !.state = "loading", !.link = l, !.refresh = "info"]
  /\ run' = IF run = None THEN None ELSE [run EXCEPT !.repair = FALSE]
  /\ UNCHANGED <<rowVars, known, upload, tray, maker>>
\* The folders of an active link, ...
PageSubtree ==
  /\ page.refresh = "info" /\ Open(page.link) /\ Ends(link[page.link].at)
  /\ page' = [page EXCEPT !.ids = Below(link[page.link].at), !.refresh = "tree"]
  /\ pageOnly
\* ... then their rows, all of which must be there, and the files in them that have a
\* key.  The tree hangs each folder where its row says by now; on a cycle it never ends.
Rows == [x \in page.ids |-> parent[x]]
Attached == {x \in page.ids : link[page.link].at \in Above(Rows, x)}
\* Names are not modelled: nothing makes them unique or keeps a slash out of them, so
\* files may be of one path.  `tree` has the files listed under each path.
Disjoint(P) == \A p, q \in P : p = q \/ p \cap q = {}
PageInfo ==
  /\ page.refresh = "tree" /\ page.ids \subseteq Born
  /\ ~OnCycle(Rows, link[page.link].at)
  /\ LET listed == FilesOf(Attached) \cap Keyed(page.link) IN
     \E P \in SUBSET ((SUBSET listed) \ {{}}) :
       /\ UNION P = listed /\ Disjoint(P)
       /\ page' = [page EXCEPT !.ids = {}, !.tree = P, !.refresh = "keys"]
  /\ pageOnly
PageExpired ==
  /\ page.refresh = "info" /\ link[page.link].st = "over"
  /\ page' = [page EXCEPT !.state = "expired", !.refresh = "none"]
  /\ pageOnly
PageKeys ==
  /\ page.refresh = "keys" /\ Open(page.link)
  /\ page' = [page EXCEPT !.keys = link[page.link].keys, !.refresh = "none",
                          !.state = IF @ = "loading" THEN "ready" ELSE @]
  /\ pageOnly
\* A request failed, or the link is revoked: a repaired page stays, with a new list
\* beside old keys perhaps.
PageFails ==
  /\ page.refresh # "none"
  /\ page' = [page EXCEPT !.ids = {}, !.refresh = "none",
                          !.state = IF @ = "loading" THEN "error" ELSE @]
  /\ pageOnly
\* "Back to folder", offered whenever a list was read; "Retry ZIP" is this and a start.
PageBack ==
  /\ page.state \in {"done", "error"} /\ page.tree # None
  /\ page' = [page EXCEPT !.state = "ready"]
  /\ pageOnly

Archiving == page' = [page EXCEPT !.state = "downloading", !.zip = TRUE,
                                  !.want = page.tree, !.with = page.keys, !.got = {}, !.entries = {}]
\* All files: the list and the keys of the moment of the click are kept to the end.
ArchiveStarts ==
  /\ page.state = "ready"
  /\ IF page.tree = {} THEN page' = [page EXCEPT !.state = "error"] ELSE Archiving
  /\ pageOnly
ServedTo(f) == Open(page.link) /\ link[page.link].keys[f] # None /\ f \in Stored
Opens(f) == page.with[f] = page.link
\* zip.file puts a file in the place of an earlier one of the same path; `got` is
\* what addedFiles counts.
SharesPath(f, g) == \E p \in page.want : {f, g} \subseteq p
Zipped(f) == {g \in page.entries : ~SharesPath(f, g)} \union {f}
\* Mutant: a file that cannot be read is counted and passed over.
ArchiveTakesSkipping(f) ==
  /\ page.zip /\ f \in (UNION page.want) \ page.got
  /\ page' = [page EXCEPT !.got = @ \union {f},
                          !.entries = IF Opens(f) /\ ServedTo(f) THEN Zipped(f) ELSE @]
  /\ pageOnly
\* One file that cannot be opened or is not served ends the archive.
ArchiveTakes(f) ==
  /\ page.zip /\ f \in (UNION page.want) \ page.got
  /\ \/ /\ Opens(f) /\ ServedTo(f)
        /\ page' = [page EXCEPT !.got = @ \union {f}, !.entries = Zipped(f)]
     \/ page' = [page EXCEPT !.state = "error", !.zip = FALSE]
  /\ pageOnly
ArchiveEnds ==
  /\ page.zip /\ UNION page.want = page.got
  /\ page' = [page EXCEPT !.state = "done", !.zip = FALSE]
  /\ pageOnly

Next ==
  \/ \E d \in Folders, p \in Folders \union {Root} :
       CreateFolder(d, p) \/ MoveFolder(d, p)
  \/ \E d \in Folders : RenameFolder(d) \/ DeleteFolder(d) \/ MakerReads(d)
  \/ \E f \in Files, d \in Folders : MoveElsewhere(f, d) \/ MoveFile(f, d)
  \/ \E f \in Files : DeleteFile(f) \/ SyncStore(f) \/ MakerKey(f) \/ ArchiveTakes(f)
  \/ \E f \in Files, d \in Folders \union {Root} : ChooseUpload(f, d)
  \/ RefuseUpload \/ StoreUpload \/ UploadAnswered \/ OpenPage
  \/ SyncLinksRead \/ SyncEnds \/ SyncUpgrade \/ SyncFoldersRead \/ SyncFilesRead \/ SyncKeysRead
  \/ SyncWrap \/ SyncAdmitted \/ SyncSubtree \/ SyncChecks \/ SyncFails
  \/ \E l \in Links : CloseLink(l) \/ SyncTakesLink(l) \/ MakerInserts(l) \/ PageOpens(l)
  \/ \E l \in Links, u \in Links \union {None} : SyncLink(l, u)
  \/ MakerFilesRead \/ MakerWraps \/ MakerSubtree \/ MakerChecks \/ MakerFails
  \/ PageRepairs \/ PageBack \/ PageSubtree \/ PageInfo \/ PageExpired \/ PageKeys \/ PageFails
  \/ ArchiveStarts \/ ArchiveEnds

Spec == Init /\ [][Next]_vars

------------------------------------------------------------------------------
\* A link has keys only of files that have been, since it exists, in a folder that was
\* then, or had been since it exists, inside the link's: nothing moved out before it
\* is shared.  The folders and their files are two queries of no transaction, so a
\* folder moved out between them still counts, and a file moved into it gets its key.
KeysWereInside == \A l \in Links : Keyed(l) \subseteq ever[l]

\* Whoever holds the URL of a link opens every key the link has, and the owner's
\* copy gives the same URL, whichever links the owner repairs with which URLs.
KeysOpenWithTheUrl ==
  \A l \in Links : /\ link[l].owner \in {None, l}
                   /\ \A f \in Keyed(l) : link[l].keys[f] = l

\* An archive is handed out only with a file under every path the page listed, never
\* empty, each file listed, opened with the key of its link and once inside its folder,
\* whatever is moved, deleted, closed or refreshed while it is made.  Of files that
\* share a path only the last one is in it: nothing makes names unique in a folder.
ArchiveIsWhole ==
  page.state = "done" =>
    /\ page.want # {} /\ \A p \in page.want : p \cap page.entries # {}
    /\ page.entries \subseteq (UNION page.want) \cap ever[page.link]
    /\ \A f \in page.entries : page.with[f] = page.link

\* The page calls an upload refused only if nothing of it is stored, and done only
\* if it is stored with its key: what may be stored is neither.
UploadsToldTruly ==
  \A f \in Files : /\ tray[f] = "error" => home[f] = Unborn
                   /\ tray[f] = "done" => home[f] # Unborn /\ scheme[f] # "none"

\* Renaming a folder changes no list of a public link (handle_folders.go:152, of the
\* parent in the request of a rename: "Optional - can move folders").
RenameKeepsListing ==
  [][(\E d \in Folders : RenameFolder(d)) => \A l \in Links : Listed(l)' = Listed(l)]_vars
=============================================================================
