------------------------- MODULE FolderLinks_proofs -------------------------
(***************************************************************************)
(* Theorems about FolderLinks, for any folders, files and links.           *)
(***************************************************************************)
EXTENDS FolderLinks, TLAPS

\* The types of the records that are there, or None.
LinkRecs == [st : {"none", "open", "over", "gone"}, at : Folders \union {None},
             owner : Links \union {None}, keys : [Files -> Links \union {None}]]
Uploads == [file : Files, to : Folders \union {Root}, scope : SUBSET Folders,
            answer : {None, "201", "4xx", "5xx", "lost"}]
Runs == [pc : Phases, cred : {"pin", "password"}, scope : SUBSET Folders, todo : SUBSET Links,
         cur : Links \union {None}, key : Links \union {None}, url : BOOLEAN, repair : BOOLEAN,
         ids : (SUBSET Folders) \union {None}, files : (SUBSET Files) \union {None},
         have : (SUBSET Files) \union {None}, offer : SUBSET Files]
Makers == [pc : Makings, at : Folders, ids : SUBSET Folders, offer : SUBSET Files,
           made : Links \union {None}]
Pages == [state : {"none", "loading", "ready", "downloading", "done", "expired", "error"},
          link : Links \union {None}, ids : SUBSET Folders, tree : (SUBSET SUBSET Files) \union {None},
          keys : [Files -> Links \union {None}], refresh : {"none", "info", "tree", "keys"},
          zip : BOOLEAN, want : SUBSET SUBSET Files, with : [Files -> Links \union {None}],
          got : SUBSET Files, entries : SUBSET Files]
Places == Folders \union {Root, Unborn, Gone}

\* The rows: what they point at is there, keys and copies are the link's own, the folders
\* below that of a link have been seen there, and so have the files in those seen.
Standing(l) == link[l].st \in {"open", "over"}
RowType ==
  /\ parent \in [Folders -> Places] /\ home \in [Files -> Places]
  /\ scheme \in [Files -> Schemes] /\ link \in [Links -> LinkRecs]
  /\ seen \in [Links -> SUBSET Folders] /\ ever \in [Links -> SUBSET Files]
HomesBorn == \A f \in Files : home[f] \in Folders => home[f] \in Born
LinkRight(l) ==
  /\ Keyed(l) \subseteq Stored /\ link[l].at \in Born \union {None}
  /\ link[l].owner \in {None, l} /\ \A f \in Files : link[l].keys[f] \in {None, l}
  /\ Keyed(l) \subseteq ever[l]
  /\ Standing(l) => Below(link[l].at) \subseteq seen[l] /\ FilesOf(seen[l]) \subseteq ever[l]
RowsRight == RowType /\ HomesBorn /\ \A l \in Links : LinkRight(l)

\* An upload without an answer, or refused, has stored nothing; one acknowledged has
\* stored the file with its key.
UploadRight ==
  /\ tray \in [Files -> {"none", "uploading", "done", "error", "unknown"}]
  /\ UploadsToldTruly
  /\ upload # None =>
       /\ upload \in Uploads /\ tray[upload.file] = "uploading"
       /\ upload.answer \in {None, "4xx"} => home[upload.file] = Unborn
       /\ upload.answer = "201" => home[upload.file] # Unborn /\ scheme[upload.file] # "none"

\* A synchronisation works on a link with the link's own key, unless it is gone: the
\* folders it reads below the link's were seen there, and so were the files it stores
\* keys of.  One that repairs a page finds it open.
RunRight ==
  run # None =>
    /\ run \in Runs /\ (run.repair => page.state # "none")
    /\ \A l \in run.todo : link[l].st = "gone" \/ (Standing(l) /\ link[l].owner = l)
    /\ run.pc \notin {"links", "next"} =>
         /\ run.cur \in Links
         /\ \/ link[run.cur].st = "gone"
            \/ /\ Standing(run.cur) /\ run.key = run.cur
               /\ run.pc = "check" => run.ids \subseteq seen[run.cur]
               /\ run.pc = "store" => run.offer \subseteq ever[run.cur]

\* The link that is being made is of the folder it is made for, unless it is gone, and
\* the folders read below it and the files taken were seen there.
MakerRight ==
  maker # None =>
    /\ maker \in Makers
    /\ maker.pc \in {"subtree", "check", "keys"} =>
         /\ maker.made \in Links
         /\ \/ link[maker.made].st = "gone"
            \/ /\ Standing(maker.made) /\ link[maker.made].at = maker.at
               /\ maker.pc = "check" => maker.ids \subseteq seen[maker.made]
               /\ maker.pc = "keys" => maker.offer \subseteq ever[maker.made]

\* An archive under way is of files listed; those in it were opened and were inside, and
\* every path of which a file was added has one still.
Parted(P) == Disjoint(P) /\ {} \notin P
PackedRight ==
  /\ Parted(page.want)
  /\ page.entries \subseteq (UNION page.want) \cap ever[page.link]
  /\ \A f \in page.entries : page.with[f] = page.link
  /\ \A p \in page.want : p \cap page.got # {} => p \cap page.entries # {}
PageRight ==
  /\ page \in Pages
  /\ page.state # "none" => page.link \in Links
  /\ page.refresh # "none" => page.state # "none"
  /\ page.refresh = "keys" \/ page.state = "ready" => page.tree # None
  /\ page.tree # None => Parted(page.tree)
  /\ page.zip => page.want # {} /\ page.state \in {"downloading", "expired"}
  /\ page.zip \/ page.state = "done" => PackedRight
  /\ page.state = "done" => page.got = UNION page.want /\ page.want # {}

\* The inductive invariant.
IInv ==
  /\ RowsRight /\ begun \in 0..MaxBegun /\ known \in [Folders -> Places]
  /\ UploadRight /\ RunRight /\ MakerRight /\ PageRight

\* What the activities rely on: links do not come back, keep their folder and their
\* copy, what was seen in them stays so, and files are stored by the upload alone.
LinksKept ==
  \A l \in Links :
    /\ seen[l] \subseteq seen'[l] /\ ever[l] \subseteq ever'[l]
    /\ link[l].st = "gone" => link'[l].st = "gone"
    /\ Standing(l) => \/ link'[l].st = "gone"
                      \/ /\ Standing(l)' /\ link'[l].at = link[l].at
                         /\ link[l].owner = l => link'[l].owner = l
FilesKept == scheme' = scheme /\ \A f \in Files : home'[f] = Unborn <=> home[f] = Unborn

-----------------------------------------------------------------------------
(* Each part of the state by itself. *)

\* A part keeps its invariant while what it relies on is kept.
LEMMA RunKept ==
  ASSUME RunRight, LinksKept, UNCHANGED run, page.state # "none" => page'.state # "none"
  PROVE  RunRight'
<1> SUFFICES ASSUME run # None PROVE RunRight'  BY DEF RunRight
<1>1. run \in Runs  BY DEF RunRight
<1>2. ASSUME NEW l \in Links, link[l].st = "gone" \/ (Standing(l) /\ link[l].owner = l)
      PROVE  link'[l].st = "gone" \/ (Standing(l)' /\ link'[l].owner = l)
  BY <1>2 DEF LinksKept
<1>3. \A l \in run.todo : l \in Links  BY <1>1 DEF Runs
<1>4. \A l \in Links : link[l].st = "gone" \/ Standing(l) => link'[l].st = "gone" \/ Standing(l)'
  BY DEF LinksKept
<1>5. \A l \in run'.todo : link'[l].st = "gone" \/ (Standing(l)' /\ link'[l].owner = l)
  BY <1>2, <1>3 DEF RunRight
<1>6. ASSUME run.pc \notin {"links", "next"}
      PROVE  /\ run.cur \in Links
             /\ \/ link'[run.cur].st = "gone"
                \/ /\ link'[run.cur].st \in {"open", "over"} /\ run.key = run.cur
                   /\ run.pc = "check" => run.ids \subseteq seen'[run.cur]
                   /\ run.pc = "store" => run.offer \subseteq ever'[run.cur]
  <2>1. /\ run.cur \in Links
        /\ \/ link[run.cur].st = "gone"
           \/ /\ Standing(run.cur) /\ run.key = run.cur
              /\ run.pc = "check" => run.ids \subseteq seen[run.cur]
              /\ run.pc = "store" => run.offer \subseteq ever[run.cur]
    BY <1>6 DEF RunRight
  <2>2. PICK l \in Links : l = run.cur  BY <2>1
  <2>3. link'[l].st = "gone" \/ link'[l].st \in {"open", "over"}
    BY <1>4, <2>1, <2>2 DEF Standing
  <2>4. link'[l].st = "gone" => link'[run.cur].st = "gone"  BY <2>2
  <2>5. link[l].st = "gone" => link'[l].st = "gone"  BY DEF LinksKept
  <2>6. seen[run.cur] \subseteq seen'[run.cur] /\ ever[run.cur] \subseteq ever'[run.cur]
    BY <2>1 DEF LinksKept
  <2> QED  BY <2>1, <2>2, <2>3, <2>4, <2>5, <2>6
<1>7. run.repair => page'.state # "none"  BY DEF RunRight
<1> QED  BY <1>1, <1>5, <1>6, <1>7 DEF RunRight, Standing

\* The making of a link: the link it made stays, or is gone.
LEMMA MakerKept == ASSUME MakerRight, LinksKept, UNCHANGED maker PROVE MakerRight'
<1> SUFFICES ASSUME maker # None PROVE MakerRight'  BY DEF MakerRight
<1>1. maker' = maker /\ maker \in Makers  BY DEF MakerRight
<1>2. CASE maker.pc \notin {"subtree", "check", "keys"}  BY <1>1, <1>2 DEF MakerRight
<1>3. CASE maker.pc \in {"subtree", "check", "keys"}
  <2> PICK l \in Links : l = maker.made  BY <1>3 DEF MakerRight
  <2>1. \/ link[l].st = "gone"
        \/ /\ Standing(l) /\ link[l].at = maker.at
           /\ maker.pc = "check" => maker.ids \subseteq seen[l]
           /\ maker.pc = "keys" => maker.offer \subseteq ever[l]
    BY <1>3 DEF MakerRight
  <2>2. \/ link'[l].st = "gone"
        \/ /\ Standing(l)' /\ link'[l].at = maker.at
           /\ maker.pc = "check" => maker.ids \subseteq seen'[l]
           /\ maker.pc = "keys" => maker.offer \subseteq ever'[l]
    BY <2>1 DEF LinksKept
  <2> QED  BY <1>1, <2>2 DEF MakerRight, Standing
<1> QED  BY <1>2, <1>3

\* The upload: no file appears or goes but by it.
LEMMA UploadKept == ASSUME UploadRight, FilesKept, UNCHANGED <<upload, tray>> PROVE UploadRight'
<1>1. UploadsToldTruly'  BY DEF UploadRight, UploadsToldTruly, FilesKept
<1>2. upload # None => upload.file \in Files  BY DEF UploadRight, Uploads
<1> QED  BY <1>1, <1>2 DEF UploadRight, FilesKept

\* What the page has but for its list, its keys and what it is reading.
PageSame ==
  /\ page'.state = page.state /\ page'.link = page.link /\ page'.zip = page.zip
  /\ page'.want = page.want /\ page'.with = page.with /\ page'.got = page.got
  /\ page'.entries = page.entries

\* What is in an archive was seen in its link, and stays so.
LEMMA PackedKept ==
  ASSUME PageRight, LinksKept, page.zip \/ page.state = "done", page'.link = page.link,
         page'.want = page.want, page'.with = page.with, page'.got = page.got,
         page'.entries = page.entries
  PROVE  PackedRight'
<1>1. page.link \in Links /\ PackedRight  BY DEF PageRight
<1>2. ever[page.link] \subseteq ever'[page.link]  BY <1>1 DEF LinksKept
<1>3. Parted(page'.want)  BY <1>1 DEF PackedRight
<1>4. page'.entries \subseteq (UNION page'.want) \cap ever'[page'.link]  BY <1>1, <1>2 DEF PackedRight
<1>5. /\ \A f \in page'.entries : page'.with[f] = page'.link
      /\ \A p \in page'.want : p \cap page'.got # {} => p \cap page'.entries # {}
  BY <1>1 DEF PackedRight
<1> QED  BY <1>3, <1>4, <1>5 DEF PackedRight, Parted, Disjoint

\* The public page: what was seen in its link stays so.
LEMMA PageKept == ASSUME PageRight, LinksKept, UNCHANGED page PROVE PageRight'
<1>1. page.zip \/ page.state = "done" => PackedRight'  BY PackedKept
<1> QED  BY <1>1 DEF PageRight, Parted, Disjoint

\* The rows, left alone.
LEMMA RowsKept ==
  ASSUME RowsRight, UNCHANGED rowVars
  PROVE  RowsRight' /\ LinksKept /\ FilesKept
<1>1. UNCHANGED <<parent, home, scheme, link, seen, ever>>  BY DEF rowVars
<1>2. Born' = Born /\ Stored' = Stored  BY <1>1 DEF Born, Stored
<1>3. ASSUME NEW l \in Links PROVE LinkRight(l)'
  <2>1. Below(link[l].at)' = Below(link[l].at) /\ FilesOf(seen[l])' = FilesOf(seen[l])
    BY <1>1, <1>2 DEF Below, FilesOf
  <2> QED  BY <1>1, <1>2, <2>1 DEF RowsRight, LinkRight, Keyed, Standing
<1>4. RowType' /\ HomesBorn'  BY <1>1, <1>2 DEF RowsRight, RowType, HomesBorn
<1>5. LinksKept /\ FilesKept  BY <1>1 DEF LinksKept, FilesKept, Standing
<1> QED  BY <1>3, <1>4, <1>5 DEF RowsRight

\* The invariant after a step, from its parts.
LEMMA Parts ==
  ASSUME IInv, RowsRight', begun' \in 0..MaxBegun, known' \in [Folders -> Places],
         UploadRight', RunRight', MakerRight', PageRight'
  PROVE  IInv'
BY DEF IInv

\* A change begins within the bound.
LEMMA BeginBound == ASSUME begun \in 0..MaxBegun, Begin PROVE begun' \in 0..MaxBegun
BY FolderAssumption DEF Begin

\* No folder, file or link is a sentinel.
LEMMA Sentinels ==
  /\ Root # Unborn /\ Root # Gone /\ Root # None /\ Unborn # Gone /\ Unborn # None /\ Gone # None
  /\ \A x \in Folders \union Files \union Links : x \notin {Root, Unborn, Gone, None}
BY FolderAssumption

-----------------------------------------------------------------------------
(* Folders and files. *)

\* The history takes in what a step puts inside.
LEMMA SeenEffect ==
  ASSUME RowType, NEW L, NEW H, SeenInside(L, H)
  PROVE  /\ seen' \in [Links -> SUBSET Folders] /\ ever' \in [Links -> SUBSET Files]
         /\ \A l \in Links : seen[l] \subseteq seen'[l] /\ ever[l] \subseteq ever'[l]
         /\ \A l \in Links : L[l].st \notin {"none", "gone"} =>
              /\ \A x \in Folders :
                   parent'[x] \notin {Unborn, Gone} /\ L[l].at \in Above(parent', x) => x \in seen'[l]
              /\ \A f \in Files : H[f] \in seen'[l] => f \in ever'[l]
<1> DEFINE there(l) == L[l].st \notin {"none", "gone"}
           S(l) == {x \in Folders :
                      there(l) /\ parent'[x] \notin {Unborn, Gone} /\ L[l].at \in Above(parent', x)}
           E(l) == {f \in Files : there(l) /\ H[f] \in seen'[l]}
<1>1. /\ seen' = [l \in Links |-> seen[l] \union S(l)]
      /\ ever' = [l \in Links |-> ever[l] \union E(l)]
  BY DEF SeenInside
<1>2. \A l \in Links : S(l) \subseteq Folders /\ E(l) \subseteq Files  OBVIOUS
<1>3. \A l \in Links : there(l) =>
        /\ \A x \in Folders :
             parent'[x] \notin {Unborn, Gone} /\ L[l].at \in Above(parent', x) => x \in S(l)
        /\ \A f \in Files : H[f] \in seen'[l] => f \in E(l)
  OBVIOUS
<1> HIDE DEF S, E
<1>4. seen' \in [Links -> SUBSET Folders] /\ ever' \in [Links -> SUBSET Files]
  BY <1>1, <1>2 DEF RowType
<1> QED  BY <1>1, <1>3, <1>4

\* Files and folders change place, and nothing that was there goes.
LEMMA PlacesKeep ==
  ASSUME RowsRight, parent' \in [Folders -> Places], home' \in [Files -> Places],
         scheme' \in [Files -> Schemes],
         link' = link, SeenInside(link, home'), HomesBorn', Stored \subseteq Stored', Born \subseteq Born'
  PROVE  RowsRight' /\ LinksKept
<1>1. /\ seen' \in [Links -> SUBSET Folders] /\ ever' \in [Links -> SUBSET Files]
      /\ \A l \in Links : seen[l] \subseteq seen'[l] /\ ever[l] \subseteq ever'[l]
      /\ \A l \in Links : link[l].st \notin {"none", "gone"} =>
           /\ \A x \in Folders :
                parent'[x] \notin {Unborn, Gone} /\ link[l].at \in Above(parent', x) => x \in seen'[l]
           /\ \A f \in Files : home'[f] \in seen'[l] => f \in ever'[l]
  BY SeenEffect DEF RowsRight
<1>2. ASSUME NEW l \in Links PROVE LinkRight(l)'
  <2>1. LinkRight(l)  BY DEF RowsRight
  <2>2. Keyed(l)' = Keyed(l)  BY DEF Keyed
  <2>3. Standing(l)' => Below(link[l].at)' \subseteq seen'[l] /\ FilesOf(seen[l])' \subseteq ever'[l]
    BY <1>1 DEF Standing, Below, FilesOf, Born
  <2> QED  BY <1>1, <2>1, <2>2, <2>3 DEF LinkRight
<1>3. RowType'  BY <1>1 DEF RowsRight, RowType
<1>4. LinksKept  BY <1>1 DEF LinksKept, Standing
<1> QED  BY <1>2, <1>3, <1>4 DEF RowsRight

\* A folder gets another parent: what it brings inside is seen.
LEMMA UpdateEffect ==
  ASSUME RowsRight, NEW d \in Folders, NEW p \in Folders \union {Root}, UpdateFolder(d, p)
  PROVE  RowsRight' /\ LinksKept /\ FilesKept /\ parent' \in [Folders -> Places]
<1>1. parent' = [parent EXCEPT ![d] = p] /\ d \in Born /\ UNCHANGED <<home, scheme, link>>
      /\ SeenInside(link, home)
  BY DEF UpdateFolder
<1>2. parent' \in [Folders -> Places]  BY <1>1 DEF RowsRight, RowType, Places
<1>3. Born' = Born  BY <1>1, Sentinels DEF Born, RowsRight, RowType
<1>4. Stored' = Stored  BY <1>1 DEF Stored
<1>5. HomesBorn'  BY <1>1, <1>3 DEF RowsRight, HomesBorn
<1>6. RowsRight' /\ LinksKept  BY <1>1, <1>2, <1>3, <1>4, <1>5, PlacesKeep DEF RowsRight, RowType
<1>7. FilesKept  BY <1>1 DEF FilesKept
<1> QED  BY <1>2, <1>6, <1>7

\* A file moves: it is seen inside the folders it comes into.
LEMMA MoveRowEffect ==
  ASSUME RowsRight, NEW f \in Files, NEW d \in Folders, MoveRow(f, d)
  PROVE  RowsRight' /\ LinksKept /\ FilesKept /\ parent' = parent
<1>1. /\ home' = [home EXCEPT ![f] = d] /\ f \in Stored /\ d \in Born
      /\ UNCHANGED <<parent, scheme, link>> /\ SeenInside(link, home')
  BY DEF MoveRow
<1>2. home' \in [Files -> Places]  BY <1>1 DEF RowsRight, RowType, Places
<1>3. Born' = Born  BY <1>1 DEF Born
<1>4. Stored \subseteq Stored'  BY <1>1, Sentinels DEF Stored, RowsRight, RowType
<1>5. HomesBorn'  BY <1>1, <1>3 DEF RowsRight, HomesBorn, RowType
<1>6. RowsRight' /\ LinksKept  BY <1>1, <1>2, <1>3, <1>4, <1>5, PlacesKeep DEF RowsRight, RowType
<1>7. FilesKept  BY <1>1, Sentinels DEF FilesKept, RowsRight, RowType, Stored
<1> QED  BY <1>1, <1>6, <1>7

\* A new folder has no file and no link.
LEMMA CreateFolderKeeps ==
  ASSUME IInv, NEW d \in Folders, NEW p \in Folders \union {Root}, CreateFolder(d, p)
  PROVE  IInv'
<1> USE DEF IInv
<1>1. /\ parent' = [parent EXCEPT ![d] = p] /\ parent[d] = Unborn /\ p \in Born \union {Root}
      /\ known' = parent' /\ SeenInside(link, home)
      /\ UNCHANGED <<home, scheme, link, upload, tray, run, maker, page>> /\ Begin
  BY DEF CreateFolder
<1>2. parent' \in [Folders -> Places]  BY <1>1 DEF RowsRight, RowType, Places
<1>3. Born \subseteq Born'  BY <1>1, Sentinels DEF Born, RowsRight, RowType
<1>4. Stored' = Stored  BY <1>1 DEF Stored
<1>5. HomesBorn'  BY <1>1, <1>3 DEF RowsRight, HomesBorn
<1>6. RowsRight' /\ LinksKept  BY <1>1, <1>2, <1>3, <1>4, <1>5, PlacesKeep DEF RowsRight, RowType
<1>7. FilesKept  BY <1>1 DEF FilesKept
<1> QED  BY <1>1, <1>2, <1>6, <1>7, BeginBound, RunKept, MakerKept, UploadKept, PageKept

\* A folder is moved, or renamed and put at the root by it.
LEMMA ChangeFolderKeeps ==
  ASSUME IInv, NEW d \in Folders, NEW p \in Folders \union {Root}, MoveFolder(d, p) \/ RenameFolder(d)
  PROVE  IInv'
<1> USE DEF IInv
<1>1. \E q \in Folders \union {Root} : UpdateFolder(d, q)  BY DEF MoveFolder, RenameFolder
<1>2. RowsRight' /\ LinksKept /\ FilesKept /\ parent' \in [Folders -> Places]  BY <1>1, UpdateEffect
<1>3. Begin /\ UNCHANGED <<upload, tray, run, maker, page>> /\ (known' = known \/ known' = parent')
  BY DEF MoveFolder, RenameFolder, Elsewhere
<1> QED  BY <1>2, <1>3, BeginBound, RunKept, MakerKept, UploadKept, PageKept

\* Files whose folder goes become loose, and every link of a folder that goes is gone.
LEMMA DeleteFolderKeeps == ASSUME IInv, NEW d \in Folders, DeleteFolder(d) PROVE IInv'
<1> USE DEF IInv
<1> DEFINE dead == Below(d)
<1>1. /\ parent' = [x \in Folders |-> IF x \in dead THEN Gone ELSE parent[x]]
      /\ home' = [f \in Files |-> IF home[f] \in dead THEN Root ELSE home[f]]
      /\ link' = [l \in Links |-> IF link[l].at \in dead
                                  THEN [NoLink EXCEPT !.st = "gone"] ELSE link[l]]
      /\ known' = parent' /\ SeenInside(link', home') /\ scheme' = scheme
      /\ UNCHANGED <<upload, tray, run, maker, page>> /\ Begin
  BY DEF DeleteFolder
<1>2. dead \subseteq Folders  BY DEF Below, Born
<1> HIDE DEF dead
<1>3. parent' \in [Folders -> Places] /\ home' \in [Files -> Places]
  BY <1>1 DEF RowsRight, RowType, Places
<1>4. Born' = Born \ dead  BY <1>1, <1>2 DEF Born, RowsRight, RowType
<1>5. Stored' = Stored
  BY <1>1, <1>2, Sentinels DEF Stored, RowsRight, RowType
<1>6. HomesBorn'  BY <1>1, <1>4, Sentinels DEF RowsRight, HomesBorn
<1>7. \A l \in Links :
        \/ /\ link[l].at \in dead /\ link'[l] \in LinkRecs /\ link'[l].st = "gone" /\ link'[l].at = None
           /\ link'[l].owner = None /\ link'[l].keys = NoKeys
        \/ link[l].at \notin dead /\ link'[l] = link[l]
  <2>1. NoKeys \in [Files -> Links \union {None}]  BY DEF NoKeys
  <2> DEFINE gone == [NoLink EXCEPT !.st = "gone"]
  <2>2. gone \in LinkRecs /\ gone.st = "gone" /\ gone.at = None /\ gone.owner = None /\ gone.keys = NoKeys
    BY <2>1 DEF NoLink, LinkRecs
  <2>3. \A l \in Links : link'[l] = IF link[l].at \in dead THEN gone ELSE link[l]  BY <1>1
  <2> HIDE DEF gone
  <2> QED  BY <2>2, <2>3
<1>8. link' \in [Links -> LinkRecs]
  <2>1. \A l \in Links : link'[l] \in LinkRecs  BY <1>7 DEF RowsRight, RowType
  <2>2. link' = [l \in Links |-> link'[l]]  BY <1>1
  <2> QED  BY <2>1, <2>2
<1>9. /\ seen' \in [Links -> SUBSET Folders] /\ ever' \in [Links -> SUBSET Files]
      /\ \A l \in Links : seen[l] \subseteq seen'[l] /\ ever[l] \subseteq ever'[l]
      /\ \A l \in Links : link'[l].st \notin {"none", "gone"} =>
           /\ \A x \in Folders :
                parent'[x] \notin {Unborn, Gone} /\ link'[l].at \in Above(parent', x) => x \in seen'[l]
           /\ \A f \in Files : home'[f] \in seen'[l] => f \in ever'[l]
  BY <1>1, SeenEffect DEF RowsRight
<1>10. ASSUME NEW l \in Links PROVE LinkRight(l)'
  <2>1. LinkRight(l)  BY DEF RowsRight
  <2>2. Standing(l)' => Below(link[l].at)' \subseteq seen'[l] /\ FilesOf(seen[l])' \subseteq ever'[l]
    BY <1>9 DEF Standing, Below, FilesOf, Born
  <2>3. CASE link[l].at \in dead
    <3>1. Keyed(l)' = {} /\ ~Standing(l)' /\ \A f \in Files : link'[l].keys[f] = None
      BY <1>7, <2>3 DEF Keyed, NoKeys, Standing
    <3> QED  BY <1>7, <2>3, <3>1 DEF LinkRight
  <2>4. CASE link[l].at \notin dead
    <3>1. link'[l] = link[l]  BY <1>7, <2>4
    <3>2. Keyed(l)' = Keyed(l)  BY <3>1 DEF Keyed
    <3>3. link[l].at \in Born' \union {None}  BY <1>4, <2>1, <2>4 DEF LinkRight
    <3> QED  BY <1>5, <1>9, <2>1, <2>2, <3>1, <3>2, <3>3 DEF LinkRight
  <2> QED  BY <2>3, <2>4
<1>11. RowsRight'
  BY <1>1, <1>3, <1>6, <1>8, <1>9, <1>10 DEF RowsRight, RowType
<1>12. LinksKept  BY <1>7, <1>9 DEF LinksKept, Standing
<1>13. FilesKept  BY <1>1, <1>2, Sentinels DEF FilesKept
<1> QED  BY <1>1, <1>3, <1>11, <1>12, <1>13, BeginBound, RunKept, MakerKept, UploadKept, PageKept

\* A file is moved from another device.
LEMMA MoveElsewhereKeeps ==
  ASSUME IInv, NEW f \in Files, NEW d \in Folders, MoveElsewhere(f, d) PROVE IInv'
<1> USE DEF IInv
<1>1. MoveRow(f, d) /\ Begin /\ UNCHANGED <<known, upload, tray, run, maker, page>>
  BY DEF MoveElsewhere, Elsewhere
<1>2. RowsRight' /\ LinksKept /\ FilesKept  BY <1>1, MoveRowEffect
<1> QED  BY <1>1, <1>2, BeginBound, RunKept, MakerKept, UploadKept, PageKept

\* The key rows of a file go with it.
LEMMA DeleteFileKeeps == ASSUME IInv, NEW f \in Files, DeleteFile(f) PROVE IInv'
<1> USE DEF IInv
<1>1. /\ home' = [home EXCEPT ![f] = Gone] /\ f \in Stored /\ Begin
      /\ link' = [l \in Links |-> [link[l] EXCEPT !.keys[f] = None]]
      /\ UNCHANGED <<parent, scheme, seen, ever, known, upload, tray, run, maker, page>>
  BY DEF DeleteFile, Elsewhere
<1>2. \A l \in Links :
        /\ link'[l] \in LinkRecs /\ link'[l].st = link[l].st /\ link'[l].at = link[l].at
        /\ link'[l].owner = link[l].owner
        /\ \A g \in Files : link'[l].keys[g] = IF g = f THEN None ELSE link[l].keys[g]
  <2> SUFFICES ASSUME NEW l \in Links
        PROVE /\ link'[l] \in LinkRecs /\ link'[l].st = link[l].st /\ link'[l].at = link[l].at
              /\ link'[l].owner = link[l].owner
              /\ \A g \in Files : link'[l].keys[g] = IF g = f THEN None ELSE link[l].keys[g]
    OBVIOUS
  <2> DEFINE k == [link[l].keys EXCEPT ![f] = None]
  <2>1. link[l] \in LinkRecs  BY DEF RowsRight, RowType
  <2>2. link'[l] = [link[l] EXCEPT !.keys = k]  BY <1>1, <2>1 DEF LinkRecs
  <2>3. k \in [Files -> Links \union {None}] /\ \A g \in Files : k[g] = IF g = f THEN None ELSE link[l].keys[g]
    BY <2>1 DEF LinkRecs
  <2> HIDE DEF k
  <2> QED  BY <2>1, <2>2, <2>3 DEF LinkRecs
<1>3. link' \in [Links -> LinkRecs]
  <2>1. link' = [l \in Links |-> link'[l]]  BY <1>1
  <2> QED  BY <1>2, <2>1
<1>4. Stored' = Stored \ {f} /\ Born' = Born  BY <1>1, Sentinels DEF Stored, Born, RowsRight, RowType
<1>5. HomesBorn'  BY <1>1, <1>4, Sentinels DEF RowsRight, RowType, HomesBorn
<1>6. ASSUME NEW l \in Links PROVE LinkRight(l)'
  <2>1. LinkRight(l)  BY DEF RowsRight
  <2>2. Keyed(l)' = Keyed(l) \ {f}  BY <1>2 DEF Keyed
  <2>3. Standing(l)' => Below(link[l].at)' \subseteq seen'[l] /\ FilesOf(seen[l])' \subseteq ever'[l]
    <3>1. Standing(l)' = Standing(l)  BY <1>2 DEF Standing
    <3>2. Below(link[l].at)' = Below(link[l].at)  BY <1>1, <1>2, <1>4 DEF Below
    <3>3. seen[l] \subseteq Folders  BY DEF RowsRight, RowType
    <3>4. FilesOf(seen[l])' \subseteq FilesOf(seen[l])
      BY <1>1, <3>3, Sentinels DEF FilesOf, RowsRight, RowType
    <3> QED  BY <1>1, <2>1, <3>1, <3>2, <3>4 DEF LinkRight
  <2>4. Keyed(l)' \subseteq Stored' /\ Keyed(l)' \subseteq ever'[l]
    BY <1>1, <1>4, <2>1, <2>2 DEF LinkRight
  <2>5. link'[l].at \in Born' \union {None} /\ link'[l].owner \in {None, l}
    BY <1>2, <1>4, <2>1 DEF LinkRight
  <2>6. \A g \in Files : link'[l].keys[g] \in {None, l}  BY <1>2, <2>1 DEF LinkRight
  <2> QED  BY <2>3, <2>4, <2>5, <2>6 DEF LinkRight
<1>7. RowsRight'
  <2>1. home' \in [Files -> Places]  BY <1>1 DEF RowsRight, RowType, Places
  <2> QED  BY <1>1, <1>3, <1>5, <1>6, <2>1 DEF RowsRight, RowType
<1>8. LinksKept  BY <1>1, <1>2 DEF LinksKept, Standing
<1>9. FilesKept  BY <1>1, Sentinels DEF FilesKept, Stored, RowsRight, RowType
<1> QED  BY <1>1, <1>7, <1>8, <1>9, BeginBound, RunKept, MakerKept, UploadKept, PageKept

\* One link changes, and the place of nothing.
LEMMA OneLinkKeeps ==
  ASSUME RowsRight, NEW l \in Links, UNCHANGED <<parent, home, scheme>>,
         link' \in [Links -> LinkRecs], \A k \in Links \ {l} : link'[k] = link[k],
         seen' \in [Links -> SUBSET Folders], ever' \in [Links -> SUBSET Files],
         \A k \in Links : seen[k] \subseteq seen'[k] /\ ever[k] \subseteq ever'[k],
         link'[l].at \in Born \union {None}, link'[l].owner \in {None, l},
         \A f \in Files : link'[l].keys[f] \in {None, l},
         Keyed(l)' \subseteq Stored, Keyed(l)' \subseteq ever'[l],
         Standing(l)' => Below(link'[l].at) \subseteq seen'[l],
         \A k \in Links : Standing(k)' => FilesOf(seen'[k]) \subseteq ever'[k],
         link[l].st = "gone" => link'[l].st = "gone",
         Standing(l) => /\ Standing(l)' /\ link'[l].at = link[l].at
                        /\ link[l].owner = l => link'[l].owner = l
  PROVE  RowsRight' /\ LinksKept /\ FilesKept
<1>1. Stored' = Stored /\ Born' = Born  BY DEF Stored, Born
<1>2. /\ Below(link[l].at)' = Below(link'[l].at)
      /\ \A k \in Links : FilesOf(seen[k])' = FilesOf(seen'[k])
  BY <1>1 DEF Below, FilesOf
<1>3. LinkRight(l)'  BY <1>1, <1>2 DEF LinkRight
<1>4. ASSUME NEW k \in Links \ {l} PROVE LinkRight(k)'
  <2>1. LinkRight(k) /\ link'[k] = link[k]  BY DEF RowsRight
  <2>2. Keyed(k)' = Keyed(k) /\ Standing(k)' = Standing(k)  BY <2>1 DEF Keyed, Standing
  <2>3. Below(link[k].at)' = Below(link[k].at)  BY <1>1, <2>1 DEF Below
  <2> QED  BY <1>1, <1>2, <2>1, <2>2, <2>3 DEF LinkRight
<1>5. RowType' /\ HomesBorn'  BY <1>1 DEF RowsRight, RowType, HomesBorn
<1>6. LinksKept
  <2>1. ASSUME NEW k \in Links \ {l} PROVE link'[k] = link[k] /\ (Standing(k) => Standing(k)')
    BY DEF Standing
  <2> QED  BY <2>1 DEF LinksKept
<1>7. FilesKept  BY DEF FilesKept
<1> QED  BY <1>3, <1>4, <1>5, <1>6, <1>7 DEF RowsRight

\* One link that stands changes, and nothing new is seen.
LEMMA StandingLinkKeeps ==
  ASSUME RowsRight, NEW l \in Links, UNCHANGED <<parent, home, scheme, seen, ever>>,
         link' \in [Links -> LinkRecs], \A k \in Links \ {l} : link'[k] = link[k],
         Standing(l), Standing(l)', link'[l].at = link[l].at,
         link'[l].owner \in {None, l}, link[l].owner = l => link'[l].owner = l,
         \A f \in Files : link'[l].keys[f] \in {None, l},
         Keyed(l)' \subseteq Stored, Keyed(l)' \subseteq ever[l]
  PROVE  RowsRight' /\ LinksKept /\ FilesKept
<1>1. RowType /\ LinkRight(l)  BY DEF RowsRight
<1>2. seen' \in [Links -> SUBSET Folders] /\ ever' \in [Links -> SUBSET Files]  BY <1>1 DEF RowType
<1>3. Below(link'[l].at) \subseteq seen'[l] /\ link'[l].at \in Born \union {None}
  BY <1>1 DEF LinkRight
<1>4. ASSUME NEW k \in Links, Standing(k)' PROVE FilesOf(seen'[k]) \subseteq ever'[k]
  <2>1. Standing(k)  BY <1>4 DEF Standing
  <2> QED  BY <2>1 DEF RowsRight, LinkRight
<1>5. link[l].st # "gone"  BY DEF Standing
<1> QED  BY <1>2, <1>3, <1>4, <1>5, OneLinkKeeps

\* A closed link keeps its folder, its copy and its keys.
LEMMA CloseLinkKeeps == ASSUME IInv, NEW l \in Links, CloseLink(l) PROVE IInv'
<1> USE DEF IInv
<1>1. /\ link' = [link EXCEPT ![l].st = "over"] /\ link[l].st = "open" /\ Begin
      /\ UNCHANGED <<parent, home, scheme, seen, ever, known, upload, tray, run, maker, page>>
  BY DEF CloseLink, Elsewhere, Open
<1>2. /\ link' \in [Links -> LinkRecs] /\ \A k \in Links \ {l} : link'[k] = link[k]
      /\ link'[l].st = "over" /\ link'[l].at = link[l].at
      /\ link'[l].owner = link[l].owner /\ link'[l].keys = link[l].keys
  BY <1>1 DEF RowsRight, RowType, LinkRecs
<1>3. LinkRight(l)  BY DEF RowsRight
<1>4. Keyed(l)' = Keyed(l) /\ Standing(l) /\ Standing(l)'  BY <1>1, <1>2 DEF Keyed, Standing
<1>5. RowsRight' /\ LinksKept /\ FilesKept
  BY <1>1, <1>2, <1>3, <1>4, StandingLinkKeeps DEF LinkRight
<1> QED  BY <1>1, <1>5, BeginBound, RunKept, MakerKept, UploadKept, PageKept

-----------------------------------------------------------------------------
(* Uploads, and the synchronisations they begin. *)

\* What is above a folder is folders, a cycle or none.
LEMMA AboveFolders == \A up, d : Above(up, d) \subseteq Folders
BY DEF Above

\* The record of a synchronisation that begins.
LEMMA SyncingType ==
  ASSUME NEW phase \in Phases, NEW c \in {"pin", "password"}, NEW scope \in SUBSET Folders
  PROVE  LET r == Syncing(phase, c, scope, {})
         IN  /\ r \in Runs /\ r.pc = phase /\ r.cred = c /\ r.scope = scope /\ r.todo = {}
             /\ r.cur = None /\ r.key = None /\ ~r.url /\ ~r.repair
<1> DEFINE r == Syncing(phase, c, scope, {})
<1>1. {} \in SUBSET Links /\ {} \in SUBSET Files /\ FALSE \in BOOLEAN  OBVIOUS
<1>2. /\ None \in Links \union {None} /\ None \in (SUBSET Files) \union {None}
      /\ None \in (SUBSET Folders) \union {None}
  OBVIOUS
<1>3. r \in Runs  BY <1>1, <1>2 DEF Syncing, Runs
<1>4. r.pc = phase /\ r.cred = c /\ r.scope = scope /\ r.todo = {} /\ r.cur = None /\ r.key = None
  BY DEF Syncing
<1>5. r.url = FALSE /\ r.repair = FALSE  BY DEF Syncing
<1> QED  BY <1>3, <1>4, <1>5

\* A synchronisation that begins has no link yet.
LEMMA SyncingRight ==
  ASSUME NEW c \in {"pin", "password"}, NEW scope \in SUBSET Folders,
         run' = Syncing("links", c, scope, {})
  PROVE  RunRight'
<1>1. run' \in Runs /\ run'.pc = "links" /\ run'.todo = {} /\ ~run'.repair
  BY SyncingType DEF Phases
<1> QED  BY <1>1 DEF RunRight

\* It begins with no link to work on.
LEMMA BeginSyncRight ==
  ASSUME RunRight, LinksKept, UNCHANGED page, NEW scope \in SUBSET Folders, BeginSync(scope)
  PROVE  RunRight'
BY RunKept, SyncingRight DEF BeginSync, NoSync

\* Only a file that is not stored is uploaded.
LEMMA ChooseUploadKeeps ==
  ASSUME IInv, NEW f \in Files, NEW d \in Folders \union {Root}, ChooseUpload(f, d)
  PROVE  IInv'
<1> USE DEF IInv
<1>1. /\ upload' = [file |-> f, to |-> d, scope |-> Ancestors(d), answer |-> None] /\ home[f] = Unborn
      /\ tray' = [tray EXCEPT ![f] = "uploading"] /\ Begin
      /\ UNCHANGED rowVars /\ UNCHANGED <<known, run, maker, page>>
  BY DEF ChooseUpload
<1>2. RowsRight' /\ LinksKept /\ FilesKept  BY <1>1, RowsKept
<1>3. UploadRight'
  <2>1. Ancestors(d) \subseteq Folders  BY AboveFolders DEF Ancestors
  <2>2. upload' \in Uploads  BY <1>1, <2>1 DEF Uploads
  <2>3. home' = home /\ scheme' = scheme  BY <1>1 DEF rowVars
  <2>4. UploadsToldTruly'  BY <1>1, <2>3 DEF UploadRight, UploadsToldTruly
  <2>5. upload'.file = f /\ upload'.answer = None  BY <1>1
  <2>6. /\ tray' \in [Files -> {"none", "uploading", "done", "error", "unknown"}]
        /\ tray'[f] = "uploading"
    BY <1>1 DEF UploadRight
  <2>7. None # "201"  BY FolderAssumption
  <2> QED  BY <1>1, <2>2, <2>3, <2>4, <2>5, <2>6, <2>7 DEF UploadRight
<1> QED  BY <1>1, <1>2, <1>3, BeginBound, RunKept, MakerKept, PageKept

\* A refusal stores nothing.
LEMMA RefuseUploadKeeps == ASSUME IInv, RefuseUpload PROVE IInv'
<1> USE DEF IInv
<1>1. /\ upload # None /\ upload.answer = None /\ upload' = [upload EXCEPT !.answer = "4xx"]
      /\ UNCHANGED rowVars /\ UNCHANGED <<begun, known, tray, run, maker, page>>
  BY DEF RefuseUpload, AskedNow, Reply
<1>2. RowsRight' /\ LinksKept /\ FilesKept  BY <1>1, RowsKept
<1>3. UploadRight'
  <2>1. upload' \in Uploads /\ upload'.file = upload.file /\ upload'.answer = "4xx"
    BY <1>1 DEF UploadRight, Uploads
  <2>2. home' = home /\ scheme' = scheme  BY <1>1 DEF rowVars
  <2> QED  BY <1>1, <2>1, <2>2 DEF UploadRight, UploadsToldTruly
<1> QED  BY <1>1, <1>2, <1>3, RunKept, MakerKept, PageKept

\* The row and the key of an upload: only the upload under way is disturbed.
LEMMA StoreUploadKeeps == ASSUME IInv, StoreUpload PROVE IInv'
<1> USE DEF IInv
<1> DEFINE f == upload.file
<1>1. /\ upload # None /\ upload.answer = None /\ upload.to \in Born \union {Root}
      /\ SeenInside(link, home')
      /\ UNCHANGED <<parent, link, begun, known, tray, run, maker, page>>
  BY DEF StoreUpload, AskedNow
<1>2. \/ home' = [home EXCEPT ![f] = upload.to] /\ \E s \in {"pin", "password"} : scheme' = [scheme EXCEPT ![f] = s]
      \/ home' = [home EXCEPT ![f] = upload.to] /\ scheme' = [scheme EXCEPT ![f] = "none"]
      \/ UNCHANGED <<home, scheme>>
  BY DEF StoreUpload
<1>3. PICK a \in {"201", "lost", "5xx"} :
        /\ upload' = [upload EXCEPT !.answer = a]
        /\ a = "201" => /\ home' = [home EXCEPT ![f] = upload.to]
                        /\ \E s \in {"pin", "password"} : scheme' = [scheme EXCEPT ![f] = s]
  BY DEF StoreUpload, Reply
<1>4. upload \in Uploads /\ f \in Files /\ home[f] = Unborn /\ tray[f] = "uploading"
  BY <1>1 DEF UploadRight, Uploads
<1>5. upload.to \notin {Unborn, Gone, None} /\ upload.to \in Places
  BY <1>1, Sentinels DEF Born, Places
<1>6. /\ home' \in [Files -> Places] /\ scheme' \in [Files -> Schemes]
      /\ \A g \in Files \ {f} : home'[g] = home[g] /\ scheme'[g] = scheme[g]
      /\ home'[f] \in {home[f], upload.to}
  BY <1>2, <1>4, <1>5 DEF RowsRight, RowType, Schemes
<1>7. Born' = Born /\ Stored \subseteq Stored'  BY <1>1, <1>4, <1>6 DEF Born, Stored
<1>8. HomesBorn'
  <2>1. upload.to \in Folders => upload.to \in Born  BY <1>1, Sentinels
  <2>2. \A g \in Files : home'[g] \in Folders => home'[g] \in Born
    <3>1. \A g \in Files : home[g] \in Folders => home[g] \in Born  BY DEF RowsRight, HomesBorn
    <3>2. home'[f] \in {home[f], upload.to}  BY <1>6
    <3>3. ASSUME NEW g \in Files, home'[g] \in Folders PROVE home'[g] \in Born
      <4>1. CASE g = f  BY <1>4, <2>1, <3>1, <3>2, <3>3, <4>1
      <4>2. CASE g # f  BY <1>6, <3>1, <3>3, <4>2
      <4> QED  BY <4>1, <4>2
    <3> QED  BY <3>3
  <2> QED  BY <1>7, <2>2 DEF HomesBorn
<1>9. RowsRight' /\ LinksKept  BY <1>1, <1>6, <1>7, <1>8, PlacesKeep DEF RowsRight, RowType
<1>10. UploadRight'
  <2>1. upload' \in Uploads /\ upload'.file = f /\ upload'.answer = a
    BY <1>3, <1>4 DEF Uploads
  <2>2. UploadsToldTruly'  BY <1>1, <1>4, <1>6 DEF UploadRight, UploadsToldTruly
  <2>3. a = "201" => home'[f] # Unborn /\ scheme'[f] # "none"
    BY <1>3, <1>4, <1>5 DEF RowsRight, RowType
  <2>4. a \notin {None, "4xx"}  BY FolderAssumption
  <2> QED  BY <1>1, <1>4, <2>1, <2>2, <2>3, <2>4 DEF UploadRight
<1> QED  BY <1>1, <1>9, <1>10, RunKept, MakerKept, PageKept

\* What the page shows is what the answer says.
LEMMA UploadAnsweredKeeps == ASSUME IInv, UploadAnswered PROVE IInv'
<1> USE DEF IInv
<1>1. /\ upload # None /\ upload.answer # None /\ upload' = None
      /\ tray' = [tray EXCEPT ![upload.file] = Outcome(upload.answer)]
      /\ BeginSync(upload.scope) \/ NoSync
      /\ UNCHANGED rowVars /\ UNCHANGED <<begun, known, maker, page>>
  BY DEF UploadAnswered
<1>2. RowsRight' /\ LinksKept /\ FilesKept  BY <1>1, RowsKept
<1>3. UploadRight'
  <2>1. upload \in Uploads /\ upload.file \in Files  BY <1>1 DEF UploadRight, Uploads
  <2>2. Outcome(upload.answer) \in {"done", "error", "unknown"}
        /\ (Outcome(upload.answer) = "done" => upload.answer = "201")
        /\ (Outcome(upload.answer) = "error" => upload.answer = "4xx")
    BY DEF Outcome
  <2>3. home' = home /\ scheme' = scheme  BY <1>1 DEF rowVars
  <2>4. UploadsToldTruly'  BY <1>1, <2>1, <2>2, <2>3 DEF UploadRight, UploadsToldTruly
  <2> QED  BY <1>1, <2>1, <2>2, <2>4 DEF UploadRight
<1>4. RunRight'
  <2>1. upload.scope \in SUBSET Folders  BY <1>1 DEF UploadRight, Uploads
  <2> QED  BY <1>1, <1>2, <2>1, BeginSyncRight, RunKept DEF NoSync
<1> QED  BY <1>1, <1>2, <1>3, <1>4, MakerKept, PageKept

\* A file is moved on the page, and the links of its folder brought up to date.
LEMMA MoveFileKeeps ==
  ASSUME IInv, NEW f \in Files, NEW d \in Folders, MoveFile(f, d) PROVE IInv'
<1> USE DEF IInv
<1>1. /\ MoveRow(f, d) /\ Begin /\ BeginSync(Ancestors(d)) /\ known' = parent'
      /\ UNCHANGED <<upload, tray, maker, page>>
  BY DEF MoveFile
<1>2. RowsRight' /\ LinksKept /\ FilesKept /\ parent' = parent  BY <1>1, MoveRowEffect
<1>3. known' \in [Folders -> Places]  BY <1>1, <1>2 DEF RowsRight, RowType
<1>4. Ancestors(d) \in SUBSET Folders  BY AboveFolders DEF Ancestors
<1>5. RunRight'  BY <1>1, <1>2, <1>4, BeginSyncRight
<1> QED  BY <1>1, <1>2, <1>3, <1>5, BeginBound, MakerKept, UploadKept, PageKept

\* A page opened again shows no upload.
LEMMA OpenPageKeeps == ASSUME IInv, OpenPage PROVE IInv'
<1> USE DEF IInv
<1>1. /\ Begin /\ upload = None /\ known' = parent /\ tray' = [f \in Files |-> "none"]
      /\ UNCHANGED rowVars /\ UNCHANGED <<upload, maker, page>>
      /\ \/ run' = None
         \/ \E c \in {"pin", "password"} : run' = Syncing("links", c, Folders, {})
  BY DEF OpenPage
<1>2. RowsRight' /\ LinksKept /\ FilesKept  BY <1>1, RowsKept
<1>3. known' \in [Folders -> Places]  BY <1>1 DEF RowsRight, RowType
<1>4. UploadRight'  BY <1>1 DEF UploadRight, UploadsToldTruly
<1>5. RunRight'
  <2>1. CASE run' = None  BY <2>1 DEF RunRight
  <2>2. CASE \E c \in {"pin", "password"} : run' = Syncing("links", c, Folders, {})
    <3>1. Folders \in SUBSET Folders  OBVIOUS
    <3> QED  BY <2>2, <3>1, SyncingRight
  <2> QED  BY <1>1, <2>1, <2>2
<1> QED  BY <1>1, <1>2, <1>3, <1>4, <1>5, BeginBound, MakerKept, PageKept

-----------------------------------------------------------------------------
(* The steps of a synchronisation. *)

\* A step that changes the synchronisation alone.
LEMMA RunOnlyKeeps ==
  ASSUME IInv, UNCHANGED <<rowVars, begun, known, upload, tray, maker, page>>, RunRight'
  PROVE  IInv'
<1>1. RowsRight' /\ LinksKept /\ FilesKept  BY RowsKept DEF IInv
<1> QED  BY <1>1, MakerKept, UploadKept, PageKept DEF IInv

\* A run may go on to the next link at any moment.
LEMMA OnwardRight ==
  ASSUME RunRight, run # None, LinksKept, UNCHANGED page,
         run' = Onward(run) \/ run' = [Onward(run) EXCEPT !.repair = FALSE]
  PROVE  RunRight'
<1>1. run \in Runs  BY DEF RunRight
<1>2. run' \in Runs /\ run'.pc = "next" /\ run'.todo = run.todo /\ (run'.repair => run.repair)
  <2> DEFINE r == Onward(run)
  <2>1. {} \in SUBSET Files /\ "next" \in Phases  BY DEF Phases
  <2>2. r \in Runs /\ r.pc = "next" /\ r.todo = run.todo /\ r.repair = run.repair
    <3> DEFINE x == run
    <3>1. x \in Runs /\ r = [x EXCEPT !.pc = "next", !.cur = None, !.key = None, !.ids = None,
                                    !.files = None, !.have = None, !.offer = {}]
      BY <1>1 DEF Onward
    <3>2. /\ None \in Links \union {None} /\ None \in (SUBSET Files) \union {None}
          /\ None \in (SUBSET Folders) \union {None}
      OBVIOUS
    <3>3. /\ r = [pc |-> "next", cred |-> x.cred, scope |-> x.scope, todo |-> x.todo, cur |-> None,
                  key |-> None, url |-> x.url, repair |-> x.repair, ids |-> None, files |-> None,
                  have |-> None, offer |-> {}]
          /\ x.cred \in {"pin", "password"} /\ x.scope \in SUBSET Folders /\ x.todo \in SUBSET Links
          /\ x.url \in BOOLEAN /\ x.repair \in BOOLEAN
      BY <3>1 DEF Runs
    <3> HIDE DEF r
    <3>4. r \in Runs  BY <2>1, <3>2, <3>3 DEF Runs
    <3>5. r.pc = "next" /\ r.todo = x.todo /\ r.repair = x.repair  BY <3>3
    <3> QED  BY <3>4, <3>5
  <2>3. run' = r \/ run' = [r EXCEPT !.repair = FALSE]  OBVIOUS
  <2> HIDE DEF r
  <2> QED  BY <2>2, <2>3 DEF Runs
<1>3. \A l \in run.todo : l \in Links  BY <1>1 DEF Runs
<1>4. \A l \in run.todo : link'[l].st = "gone" \/ (Standing(l)' /\ link'[l].owner = l)
  BY <1>3 DEF RunRight, LinksKept
<1> QED  BY <1>2, <1>4 DEF RunRight

\* The links read have a copy of their own key.
LEMMA SyncLinksReadKeeps == ASSUME IInv, SyncLinksRead PROVE IInv'
<1> USE DEF IInv
<1> DEFINE T == {l \in Links : Open(l) /\ link[l].at \in run.scope /\ link[l].owner # None}
<1>1. run # None /\ run' = [run EXCEPT !.pc = "next", !.todo = T] /\ link' = link
  BY DEF SyncLinksRead, syncOnly, rowVars
<1>2. \A l \in T : l \in Links /\ Standing(l) /\ link[l].owner = l
  BY DEF Open, Standing, RowsRight, LinkRight
<1>3. T \in SUBSET Links  OBVIOUS
<1> HIDE DEF T
<1>4. run' \in Runs /\ run'.pc = "next" /\ run'.todo = T /\ run'.repair = run.repair /\ page' = page
  BY <1>1, <1>3 DEF RunRight, Runs, Phases, SyncLinksRead, syncOnly
<1>5. RunRight'  BY <1>1, <1>2, <1>4 DEF RunRight, Standing
<1> QED  BY <1>5, RunOnlyKeeps DEF SyncLinksRead, syncOnly

\* The copy of a link is its key, unless it went since.
LEMMA SyncTakesLinkKeeps == ASSUME IInv, NEW l \in Links, SyncTakesLink(l) PROVE IInv'
<1> USE DEF IInv
<1>1. /\ run # None /\ l \in run.todo /\ link' = link
      /\ run' = [run EXCEPT !.pc = "read", !.cur = l, !.key = link[l].owner, !.todo = @ \ {l}]
  BY DEF SyncTakesLink, syncOnly, rowVars
<1>2. link[l].owner \in Links \union {None}  BY DEF RowsRight, LinkRight
<1>3. /\ run' \in Runs /\ run'.pc = "read" /\ run'.cur = l /\ run'.key = link[l].owner
      /\ run'.todo = run.todo \ {l} /\ run'.repair = run.repair /\ page' = page
  <2> DEFINE k == link[l].owner
             T == run.todo \ {l}
  <2>1. run' = [run EXCEPT !.pc = "read", !.cur = l, !.key = k, !.todo = T]  BY <1>1
  <2>2. run \in Runs /\ T \in SUBSET Links /\ k \in Links \union {None}
    BY <1>1, <1>2 DEF RunRight, Runs
  <2> HIDE DEF k, T
  <2>3. /\ run' \in Runs /\ run'.pc = "read" /\ run'.cur = l /\ run'.key = k
        /\ run'.todo = T /\ run'.repair = run.repair
    BY <2>1, <2>2 DEF Runs, Phases
  <2> QED  BY <2>3 DEF k, T, SyncTakesLink, syncOnly
<1>4. RunRight'  BY <1>1, <1>3 DEF RunRight, Standing
<1> QED  BY <1>4, RunOnlyKeeps DEF SyncTakesLink, syncOnly

\* A link is repaired with its own URL or its copy.
LEMMA SyncLinkKeeps ==
  ASSUME IInv, NEW l \in Links, NEW u \in Links \union {None}, NEW c \in {"pin", "password"},
         Open(l), u = None => link[l].owner # None, u # None => u = l, Begin,
         \/ run' = Repairing(l, u, c)
         \/ run' = [Repairing(l, u, c) EXCEPT !.repair = TRUE] /\ page.state # "none",
         UNCHANGED rowVars, UNCHANGED <<known, upload, tray, maker, page>>
  PROVE  IInv'
<1> USE DEF IInv
<1> DEFINE k == IF u = None THEN link[l].owner ELSE u
           w == (u # None)
           p == IF u # None /\ link[l].owner = None THEN "upgrade" ELSE "read"
<1>1. k = l  BY DEF RowsRight, LinkRight
<1>2. w \in BOOLEAN /\ p \in {"upgrade", "read"}  OBVIOUS
<1>3. Repairing(l, u, c) = [Syncing(p, c, {}, {}) EXCEPT !.cur = l, !.key = k, !.url = w]
  BY DEF Repairing
<1> HIDE DEF k, w, p
<1>4. /\ run' \in Runs /\ run'.pc = p /\ run'.cur = l /\ run'.key = k /\ run'.todo = {}
      /\ run'.repair => page.state # "none"
  <2> DEFINE s == Syncing(p, c, {}, {})
             r == Repairing(l, u, c)
  <2>1. s \in Runs /\ s.pc = p /\ s.todo = {} /\ ~s.repair  BY <1>2, SyncingType DEF Phases
  <2>2. r = [s EXCEPT !.cur = l, !.key = k, !.url = w]  BY <1>3
  <2> HIDE DEF s
  <2>3. r \in Runs /\ r.pc = p /\ r.cur = l /\ r.key = k /\ r.todo = {} /\ ~r.repair
    BY <1>1, <1>2, <2>1, <2>2 DEF Runs
  <2>4. run' = r \/ (run' = [r EXCEPT !.repair = TRUE] /\ page.state # "none")  OBVIOUS
  <2> HIDE DEF r
  <2> QED  BY <2>3, <2>4 DEF Runs
<1>5. RowsRight' /\ LinksKept /\ FilesKept  BY RowsKept
<1>6. link' = link /\ Standing(l)  BY DEF rowVars, Open, Standing
<1>7. RunRight'  BY <1>1, <1>2, <1>4, <1>6 DEF RunRight, Standing
<1> QED  BY <1>5, <1>7, BeginBound, MakerKept, UploadKept, PageKept

\* The panel of a link takes the link's own URL alone.
LEMMA PanelKeeps ==
  ASSUME IInv, NEW l \in Links, NEW u \in Links \union {None}, SyncLink(l, u) PROVE IInv'
<1>1. /\ Begin /\ Open(l) /\ UNCHANGED rowVars /\ UNCHANGED <<known, upload, tray, maker, page>>
      /\ u = None => link[l].owner # None
      /\ u # None => u = l
  BY DEF SyncLink, UrlFits
<1>2. PICK c \in {"pin", "password"} : run' = Repairing(l, u, c)  BY DEF SyncLink
<1> QED  BY <1>1, <1>2, SyncLinkKeeps

\* The page of a visitor who owns the link repairs it with its URL.
LEMMA PageRepairsKeeps == ASSUME IInv, PageRepairs PROVE IInv'
<1>1. /\ Begin /\ Open(page.link) /\ page.state = "ready"
      /\ UNCHANGED rowVars /\ UNCHANGED <<known, upload, tray, maker, page>>
  BY DEF PageRepairs
<1>2. page.link \in Links  BY <1>1 DEF IInv, PageRight
<1>3. page.link # None  BY <1>2, Sentinels
<1>4. PICK c \in {"pin", "password"} :
         run' = [Repairing(page.link, page.link, c) EXCEPT !.repair = TRUE]
  BY DEF PageRepairs
<1> QED  BY <1>1, <1>2, <1>3, <1>4, SyncLinkKeeps

\* A page may read its list again at any time.
LEMMA PageReadsRight ==
  ASSUME PageRight, LinksKept, PageSame, page'.tree = page.tree, page' \in Pages,
         page'.refresh \in {"none", "info", "tree"}, page.state # "none"
  PROVE  PageRight'
<1>1. page.zip \/ page.state = "done" => PackedRight'  BY PackedKept DEF PageSame
<1> QED  BY <1>1 DEF PageRight, Parted, Disjoint, PageSame

\* A repair that ends has its page read again.
LEMMA SyncEndsKeeps == ASSUME IInv, SyncEnds PROVE IInv'
<1> USE DEF IInv
<1>1. /\ run' = None /\ page' = (IF run.repair THEN [page EXCEPT !.refresh = "info"] ELSE page)
      /\ UNCHANGED rowVars /\ UNCHANGED <<begun, known, upload, tray, maker>>
  BY DEF SyncEnds
<1>2. RowsRight' /\ LinksKept /\ FilesKept  BY <1>1, RowsKept
<1>3. RunRight'  BY <1>1 DEF RunRight
<1>4. PageRight'
  <2>1. run.repair => page.state # "none"  BY DEF RunRight, SyncEnds
  <2>2. CASE run.repair
    <3>1. page' = [page EXCEPT !.refresh = "info"]  BY <1>1, <2>2
    <3>2. page' \in Pages /\ page'.refresh = "info" /\ page'.tree = page.tree /\ PageSame
      BY <3>1 DEF PageRight, Pages, PageSame
    <3> QED  BY <1>2, <2>1, <2>2, <3>2, PageReadsRight
  <2>3. CASE ~run.repair  BY <1>1, <1>2, <2>3, PageKept
  <2> QED  BY <2>2, <2>3
<1> QED  BY <1>1, <1>2, <1>3, <1>4, MakerKept, UploadKept

\* The owner's copy is of the link it is of.
LEMMA CopyKeeps ==
  ASSUME IInv, run # None, run.pc \in {"upgrade", "post"}, StoreCopy \/ UNCHANGED link,
         Open(run.cur) \/ UNCHANGED link,
         UNCHANGED <<parent, home, scheme, seen, ever, begun, known, upload, tray, maker, page>>,
         NEW phase \in {"read", "subtree"}, run' = [run EXCEPT !.pc = phase]
  PROVE  IInv'
<1> USE DEF IInv
<1>1. run \in Runs /\ run.cur \in Links  BY DEF RunRight, Phases
<1>2. RowsRight' /\ LinksKept /\ FilesKept
  <2>1. CASE UNCHANGED link  BY <2>1, RowsKept DEF rowVars
  <2>2. CASE StoreCopy /\ Open(run.cur)
    <3> PICK l \in Links : l = run.cur  BY <1>1
    <3>1. run.key = l /\ Standing(l)  BY <2>2 DEF RunRight, Open, Standing
    <3>2. OwnersCopy \in {None, l} /\ (link[l].owner = l => OwnersCopy = l)
      BY <3>1, Sentinels DEF OwnersCopy, RowsRight, LinkRight
    <3>3. link' = [link EXCEPT ![l].owner = OwnersCopy]  BY <2>2 DEF StoreCopy
    <3>4. /\ link' \in [Links -> LinkRecs] /\ \A k \in Links \ {l} : link'[k] = link[k]
          /\ link'[l].st = link[l].st /\ link'[l].at = link[l].at
          /\ link'[l].owner = OwnersCopy /\ link'[l].keys = link[l].keys
      <4>1. link \in [Links -> LinkRecs]  BY DEF RowsRight, RowType
      <4>2. OwnersCopy \in Links \union {None}  BY <3>2
      <4> QED  BY <3>3, <4>1, <4>2 DEF LinkRecs
    <3>5. LinkRight(l)  BY DEF RowsRight
    <3>6. Keyed(l)' = Keyed(l) /\ Standing(l)'
      BY <3>1, <3>4 DEF Keyed, Standing
    <3> QED  BY <3>1, <3>2, <3>4, <3>5, <3>6, StandingLinkKeeps DEF LinkRight
  <2> QED  BY <2>1, <2>2
<1>3. RunRight'
  <2>1. run' \in Runs /\ run'.pc = phase /\ run'.cur = run.cur /\ run'.key = run.key /\ run'.todo = run.todo
        /\ run'.repair = run.repair
    BY <1>1 DEF Runs, Phases
  <2>2. \A l \in run.todo : l \in Links  BY <1>1 DEF Runs
  <2>3. \A l \in run.todo : link'[l].st = "gone" \/ (Standing(l)' /\ link'[l].owner = l)
    BY <1>2, <2>2 DEF RunRight, LinksKept
  <2>4. link'[run.cur].st = "gone" \/ (link'[run.cur].st \in {"open", "over"} /\ run.key = run.cur)
    BY <1>1, <1>2 DEF RunRight, LinksKept, Standing
  <2> QED  BY <1>1, <2>1, <2>3, <2>4 DEF RunRight, Standing
<1> QED  BY <1>2, <1>3, MakerKept, UploadKept, PageKept

\* The copy alone is stored.
LEMMA SyncUpgradeKeeps == ASSUME IInv, SyncUpgrade PROVE IInv'
BY CopyKeeps DEF SyncUpgrade, Phases

\* The copy is stored before the keys.
LEMMA SyncAdmittedKeeps == ASSUME IInv, SyncAdmitted PROVE IInv'
BY CopyKeeps DEF SyncAdmitted, Phases

\* A list of files or of keys arrives.
LEMMA SyncReadsKeep == ASSUME IInv, SyncFoldersRead \/ SyncFilesRead \/ SyncKeysRead PROVE IInv'
<1> USE DEF IInv
<1>0. run # None /\ run.pc = "read" /\ run \in Runs /\ UNCHANGED <<link, page>>
  BY DEF SyncFoldersRead, SyncFilesRead, SyncKeysRead, syncOnly, rowVars, RunRight
<1>1. PICK S \in SUBSET Files, D \in SUBSET Folders :
        \/ run' = [run EXCEPT !.files = S, !.ids = None]
        \/ run' = [run EXCEPT !.have = S]
        \/ run' = [run EXCEPT !.ids = D]
  <2>1. \A ids : FilesOf(ids) \in SUBSET Files  BY DEF FilesOf
  <2>2. \A d : Below(d) \in SUBSET Folders  BY DEF Below, Born
  <2>3. \A l : Keyed(l) \in SUBSET Files  BY DEF Keyed
  <2>4. {} \in SUBSET Files /\ {} \in SUBSET Folders  OBVIOUS
  <2>5. CASE SyncFoldersRead  BY <2>2, <2>4, <2>5 DEF SyncFoldersRead
  <2>6. CASE SyncFilesRead  BY <2>1, <2>4, <2>6 DEF SyncFilesRead
  <2>7. CASE SyncKeysRead  BY <2>3, <2>4, <2>7 DEF SyncKeysRead
  <2> QED  BY <2>5, <2>6, <2>7
<1>2. /\ run' \in Runs /\ run'.pc = "read" /\ run'.cur = run.cur /\ run'.key = run.key
      /\ run'.todo = run.todo /\ run'.repair = run.repair
  BY <1>0, <1>1 DEF Runs
<1>3. RunRight'  BY <1>0, <1>2 DEF RunRight, Standing
<1> QED  BY <1>3, RunOnlyKeeps DEF SyncFoldersRead, SyncFilesRead, SyncKeysRead, syncOnly

\* What is offered is files.
LEMMA SyncWrapKeeps == ASSUME IInv, SyncWrap PROVE IInv'
<1> USE DEF IInv
<1> DEFINE offer == {f \in run.files \ run.have : Resolves(f, run.cred)}
<1>1. /\ run # None /\ run.pc = "read" /\ run \in Runs /\ run.files # None
      /\ UNCHANGED rowVars /\ UNCHANGED <<link, page>>
      /\ run' = IF offer = {} THEN Onward(run) ELSE [run EXCEPT !.pc = "post", !.offer = offer]
  BY DEF SyncWrap, syncOnly, rowVars, RunRight
<1>2. offer \in SUBSET Files  BY <1>1 DEF Runs
<1> HIDE DEF offer
<1>3. LinksKept  BY <1>1, RowsKept
<1>4. RunRight'
  <2>1. CASE offer = {}  BY <1>1, <1>3, <2>1, OnwardRight
  <2>2. CASE offer # {}
    <3>1. /\ run' \in Runs /\ run'.pc = "post" /\ run'.cur = run.cur /\ run'.key = run.key
          /\ run'.todo = run.todo /\ run'.repair = run.repair
      BY <1>1, <1>2, <2>2 DEF Runs, Phases
    <3> QED  BY <1>1, <3>1 DEF RunRight, Standing
  <2> QED  BY <2>1, <2>2
<1> QED  BY <1>4, RunOnlyKeeps DEF SyncWrap, syncOnly

\* A failure leaves the link behind.
LEMMA SyncFailsKeeps == ASSUME IInv, SyncFails PROVE IInv'
<1> USE DEF IInv
<1>1. /\ run # None /\ UNCHANGED rowVars /\ UNCHANGED page
      /\ run' = None \/ run' = [Onward(run) EXCEPT !.repair = FALSE]
  BY DEF SyncFails, syncOnly
<1>2. LinksKept  BY <1>1, RowsKept
<1>3. RunRight'
  <2>1. CASE run' = None  BY <2>1 DEF RunRight
  <2>2. CASE run' = [Onward(run) EXCEPT !.repair = FALSE]  BY <1>1, <1>2, <2>2, OnwardRight
  <2> QED  BY <1>1, <2>1, <2>2
<1> QED  BY <1>3, RunOnlyKeeps DEF SyncFails, syncOnly

\* The folders below that of the link, seen there.
LEMMA SyncSubtreeKeeps == ASSUME IInv, SyncSubtree PROVE IInv'
<1> USE DEF IInv
<1>1. PICK D : D = Below(link[run.cur].at)  OBVIOUS
<1>2. /\ run # None /\ run.pc = "subtree" /\ run \in Runs /\ UNCHANGED <<link, seen, ever, page>>
      /\ run' = [run EXCEPT !.pc = "check", !.ids = D]
  BY <1>1 DEF SyncSubtree, syncOnly, rowVars, RunRight
<1>3. D \in SUBSET Folders  BY <1>1 DEF Below, Born
<1>4. /\ run' \in Runs /\ run'.pc = "check" /\ run'.ids = D /\ run'.cur = run.cur
      /\ run'.key = run.key /\ run'.todo = run.todo /\ run'.repair = run.repair
  BY <1>2, <1>3 DEF Runs, Phases
<1>5. run.cur \in Links /\ (link[run.cur].st = "gone" \/ (Standing(run.cur) /\ run.key = run.cur))
  BY <1>2 DEF RunRight
<1>6. Standing(run.cur) => D \subseteq seen[run.cur]  BY <1>1, <1>5 DEF RowsRight, LinkRight
<1>7. RunRight'  BY <1>2, <1>4, <1>5, <1>6 DEF RunRight, Standing
<1> QED  BY <1>7, RunOnlyKeeps DEF SyncSubtree, syncOnly

\* The files in those folders, seen there too.
LEMMA SyncChecksKeeps == ASSUME IInv, SyncChecks PROVE IInv'
<1> USE DEF IInv
<1>1. PICK valid : valid = run.offer \cap FilesOf(run.ids)  OBVIOUS
<1>2. /\ run # None /\ run.pc = "check" /\ run \in Runs
      /\ UNCHANGED rowVars /\ UNCHANGED <<link, seen, ever, page>>
      /\ run' = IF valid = {} THEN Onward(run)
                ELSE [run EXCEPT !.pc = "store", !.ids = None, !.offer = valid]
  BY <1>1 DEF SyncChecks, syncOnly, rowVars, RunRight
<1>3. valid \in SUBSET Files  BY <1>1, <1>2 DEF Runs
<1>4. LinksKept  BY <1>2, RowsKept
<1>5. RunRight'
  <2>1. CASE valid = {}  BY <1>2, <1>4, <2>1, OnwardRight
  <2>2. CASE valid # {}
    <3>1. /\ run' \in Runs /\ run'.pc = "store" /\ run'.offer = valid /\ run'.cur = run.cur
          /\ run'.key = run.key /\ run'.todo = run.todo /\ run'.repair = run.repair
      BY <1>2, <1>3, <2>2 DEF Runs, Phases
    <3>2. /\ run.cur \in Links
          /\ \/ link[run.cur].st = "gone"
             \/ Standing(run.cur) /\ run.key = run.cur /\ run.ids \subseteq seen[run.cur]
      BY <1>2 DEF RunRight
    <3>3. Standing(run.cur) => FilesOf(seen[run.cur]) \subseteq ever[run.cur]
      BY <3>2 DEF RowsRight, LinkRight
    <3>4. Standing(run.cur) /\ run.ids \subseteq seen[run.cur] => valid \subseteq ever[run.cur]
      BY <1>1, <3>3 DEF FilesOf
    <3> QED  BY <1>2, <3>1, <3>2, <3>4 DEF RunRight, Standing
  <2> QED  BY <2>1, <2>2
<1> QED  BY <1>5, RunOnlyKeeps DEF SyncChecks, syncOnly

\* The key of a file that was seen inside a link, wrapped with the link's own key.
LEMMA KeyAddedKeeps ==
  ASSUME RowsRight, NEW l \in Links, NEW f \in Files, Standing(l), f \in Stored, f \in ever[l],
         UNCHANGED <<parent, home, scheme, seen, ever>>, KeyAdded(l, f, l)
  PROVE  RowsRight' /\ LinksKept /\ FilesKept
<1> DEFINE k == [link[l].keys EXCEPT ![f] = l]
<1>1. link \in [Links -> LinkRecs] /\ link[l] \in LinkRecs /\ LinkRight(l)  BY DEF RowsRight, RowType
<1>2. /\ k \in [Files -> Links \union {None}]
      /\ \A g \in Files : k[g] = IF g = f THEN l ELSE link[l].keys[g]
  BY <1>1 DEF LinkRecs
<1>3. link' = [link EXCEPT ![l].keys = k]  BY <1>1 DEF KeyAdded, LinkRecs
<1> HIDE DEF k
<1>4. /\ link' \in [Links -> LinkRecs] /\ \A m \in Links \ {l} : link'[m] = link[m]
      /\ link'[l].st = link[l].st /\ link'[l].at = link[l].at
      /\ link'[l].owner = link[l].owner /\ link'[l].keys = k
  <2> DEFINE n == [link[l] EXCEPT !.keys = k]
  <2>1. link' = [link EXCEPT ![l] = n]  BY <1>1, <1>3 DEF LinkRecs
  <2>2. /\ n \in LinkRecs /\ n.st = link[l].st /\ n.at = link[l].at /\ n.owner = link[l].owner
        /\ n.keys = k
    BY <1>1, <1>2 DEF LinkRecs
  <2> HIDE DEF n
  <2> QED  BY <1>1, <2>1, <2>2
<1>5. Keyed(l)' \subseteq Keyed(l) \union {f}  BY <1>2, <1>4 DEF Keyed
<1>6. \A g \in Files : link'[l].keys[g] \in {None, l}  BY <1>1, <1>2, <1>4 DEF LinkRight
<1>7. Standing(l)'  BY <1>4 DEF Standing
<1>8. Keyed(l)' \subseteq Stored /\ Keyed(l)' \subseteq ever[l]  BY <1>1, <1>5 DEF LinkRight
<1>9. link'[l].owner \in {None, l}  BY <1>1, <1>4 DEF LinkRight
<1> QED  BY <1>4, <1>6, <1>7, <1>8, <1>9, StandingLinkKeeps

\* A key is stored, of a file read inside.
LEMMA SyncStoreKeeps == ASSUME IInv, NEW f \in Files, SyncStore(f) PROVE IInv'
<1> USE DEF IInv
<1>1. /\ run # None /\ run.pc = "store" /\ f \in run.offer /\ run \in Runs
      /\ run' = IF run.offer = {f} THEN Onward(run) ELSE [run EXCEPT !.offer = @ \ {f}]
      /\ UNCHANGED <<parent, home, scheme, seen, ever>>
      /\ UNCHANGED <<begun, known, upload, tray, maker, page>>
  BY DEF SyncStore, RunRight
<1>2. PICK l \in Links : l = run.cur  BY <1>1 DEF RunRight
<1>3. link[l].st = "gone" \/ (Standing(l) /\ run.key = l /\ run.offer \subseteq ever[l])
  BY <1>1, <1>2 DEF RunRight
<1>4. RowsRight' /\ LinksKept /\ FilesKept
  <2>1. CASE UNCHANGED link  BY <1>1, <2>1, RowsKept DEF rowVars
  <2>2. CASE link[l].st # "gone" /\ f \in Stored /\ KeyAdded(l, f, run.key)
    BY <1>1, <1>3, <2>2, KeyAddedKeeps
  <2> QED  BY <1>2, <2>1, <2>2 DEF SyncStore
<1>5. RunRight'
  <2>1. CASE run.offer = {f}  BY <1>1, <1>4, <2>1, OnwardRight
  <2>2. CASE run.offer # {f}
    <3>1. /\ run' \in Runs /\ run'.pc = "store" /\ run'.offer \subseteq run.offer /\ run'.cur = run.cur
          /\ run'.key = run.key /\ run'.todo = run.todo /\ run'.repair = run.repair
      BY <1>1, <2>2 DEF Runs
    <3>2. link'[l].st = "gone" \/ (Standing(l)' /\ run.key = l /\ run.offer \subseteq ever'[l])
      BY <1>3, <1>4 DEF LinksKept
    <3>3. \A m \in run.todo : m \in Links  BY <1>1 DEF Runs
    <3>4. \A m \in run.todo : link'[m].st = "gone" \/ (Standing(m)' /\ link'[m].owner = m)
      BY <1>1, <1>4, <3>3 DEF RunRight, LinksKept
    <3>5. run.repair => page.state # "none"  BY <1>1 DEF RunRight
    <3> QED  BY <1>1, <1>2, <3>1, <3>2, <3>4, <3>5 DEF RunRight, Standing
  <2> QED  BY <2>1, <2>2
<1> QED  BY <1>1, <1>4, <1>5, MakerKept, UploadKept, PageKept

-----------------------------------------------------------------------------
(* The making of a link. *)

\* A step that changes the maker alone.
LEMMA MakerOnlyKeeps ==
  ASSUME IInv, UNCHANGED <<rowVars, known, upload, tray, run, page>>, begun' \in 0..MaxBegun, MakerRight'
  PROVE  IInv'
<1>1. RowsRight' /\ LinksKept /\ FilesKept  BY RowsKept DEF IInv
<1> QED  BY <1>1, RunKept, UploadKept, PageKept DEF IInv

\* A link begins to be made for a folder that is there.
LEMMA MakerReadsKeeps == ASSUME IInv, NEW d \in Folders, MakerReads(d) PROVE IInv'
<1>1. /\ maker' = [pc |-> "files", at |-> d, ids |-> Below(d), offer |-> {}, made |-> None] /\ Begin
      /\ UNCHANGED <<rowVars, known, upload, tray, run, page>>
  BY DEF MakerReads
<1>2. Below(d) \in SUBSET Folders /\ {} \in SUBSET Files  BY DEF Below, Born
<1>3. maker' \in Makers /\ maker'.pc = "files"  BY <1>1, <1>2 DEF Makers, Makings
<1>4. MakerRight'  BY <1>3 DEF MakerRight
<1> QED  BY <1>1, <1>4, BeginBound, MakerOnlyKeeps DEF IInv

\* Its files are read and its keys are made, or it is given up.
LEMMA MakerWrapsKeeps == ASSUME IInv, MakerFilesRead \/ MakerWraps \/ MakerFails PROVE IInv'
<1>1. PICK kept : kept = {f \in maker.offer \cap Stored : scheme[f] # "none"}  OBVIOUS
<1>2. PICK found : found = FilesOf(maker.ids)  OBVIOUS
<1>3. /\ \/ maker' = None
         \/ maker # None /\ maker' = [maker EXCEPT !.pc = "wrap", !.ids = {}, !.offer = found]
         \/ maker # None /\ maker' = [maker EXCEPT !.pc = "post", !.offer = kept]
      /\ UNCHANGED <<rowVars, begun, known, upload, tray, run, page>>
  BY <1>1, <1>2 DEF MakerFilesRead, MakerWraps, MakerFails, makerOnly
<1>4. kept \in SUBSET Files /\ found \in SUBSET Files  BY <1>1, <1>2 DEF Stored, FilesOf
<1>5. MakerRight'
  <2>1. CASE maker' = None  BY <2>1 DEF MakerRight
  <2>2. CASE maker # None /\ maker' # None
    <3>1. maker \in Makers  BY <2>2 DEF IInv, MakerRight
    <3>2. maker' \in Makers /\ maker'.pc \in {"wrap", "post"}
      BY <1>3, <1>4, <2>2, <3>1 DEF Makers, Makings
    <3> QED  BY <3>2 DEF MakerRight
  <2> QED  BY <1>3, <2>1, <2>2
<1> QED  BY <1>3, <1>5, MakerOnlyKeeps DEF IInv

\* The folders below that of the new link, seen there.
LEMMA MakerSubtreeKeeps == ASSUME IInv, MakerSubtree PROVE IInv'
<1> USE DEF IInv
<1>1. PICK D : D = Below(maker.at)  OBVIOUS
<1>2. /\ maker # None /\ maker.pc = "subtree" /\ maker \in Makers
      /\ maker' = [maker EXCEPT !.pc = "check", !.ids = D]
      /\ UNCHANGED <<rowVars, begun, known, upload, tray, run, page>>
  BY <1>1 DEF MakerSubtree, makerOnly, MakerRight
<1>3. D \in SUBSET Folders  BY <1>1 DEF Below, Born
<1>4. /\ maker' \in Makers /\ maker'.pc = "check" /\ maker'.ids = D /\ maker'.made = maker.made
      /\ maker'.at = maker.at
  BY <1>2, <1>3 DEF Makers, Makings
<1>5. /\ maker.made \in Links
      /\ link[maker.made].st = "gone" \/ (Standing(maker.made) /\ link[maker.made].at = maker.at)
  BY <1>2 DEF MakerRight
<1>6. Standing(maker.made) /\ link[maker.made].at = maker.at => D \subseteq seen[maker.made]
  BY <1>1, <1>5 DEF RowsRight, LinkRight
<1>7. UNCHANGED <<link, seen, ever>>  BY <1>2 DEF rowVars
<1>8. MakerRight'  BY <1>4, <1>5, <1>6, <1>7 DEF MakerRight, Standing
<1> QED  BY <1>2, <1>8, MakerOnlyKeeps

\* The files in those folders, seen there too.
LEMMA MakerChecksKeeps == ASSUME IInv, MakerChecks PROVE IInv'
<1> USE DEF IInv
<1>1. PICK valid : valid = maker.offer \cap FilesOf(maker.ids)  OBVIOUS
<1>2. /\ maker # None /\ maker.pc = "check" /\ maker \in Makers
      /\ maker' = None \/ maker' = [maker EXCEPT !.pc = "keys", !.ids = {}, !.offer = valid]
      /\ UNCHANGED <<rowVars, begun, known, upload, tray, run, page>>
  BY <1>1 DEF MakerChecks, makerOnly, MakerRight
<1>3. valid \in SUBSET Files /\ {} \in SUBSET Folders  BY <1>1 DEF FilesOf
<1>4. MakerRight'
  <2>1. CASE maker' = None  BY <2>1 DEF MakerRight
  <2>2. CASE maker' = [maker EXCEPT !.pc = "keys", !.ids = {}, !.offer = valid]
    <3>1. /\ maker' \in Makers /\ maker'.pc = "keys" /\ maker'.offer = valid
          /\ maker'.made = maker.made /\ maker'.at = maker.at
      BY <1>2, <1>3, <2>2 DEF Makers, Makings
    <3>2. /\ maker.made \in Links
          /\ \/ link[maker.made].st = "gone"
             \/ /\ Standing(maker.made) /\ link[maker.made].at = maker.at
                /\ maker.ids \subseteq seen[maker.made]
      BY <1>2 DEF MakerRight
    <3>3. Standing(maker.made) => FilesOf(seen[maker.made]) \subseteq ever[maker.made]
      BY <3>2 DEF RowsRight, LinkRight
    <3>4. Standing(maker.made) /\ maker.ids \subseteq seen[maker.made] => valid \subseteq ever[maker.made]
      BY <1>1, <3>3 DEF FilesOf
    <3>5. UNCHANGED <<link, seen, ever>>  BY <1>2 DEF rowVars
    <3> QED  BY <3>1, <3>2, <3>4, <3>5 DEF MakerRight, Standing
  <2> QED  BY <1>2, <2>1, <2>2
<1> QED  BY <1>2, <1>4, MakerOnlyKeeps

\* The new link has no keys, and all that is inside its folder is seen there.
LEMMA MakerInsertsKeeps == ASSUME IInv, NEW l \in Links, MakerInserts(l) PROVE IInv'
<1> USE DEF IInv
<1>1. /\ maker # None /\ maker.pc = "post" /\ maker.at \in Born /\ link[l].st = "none"
      /\ link' = [link EXCEPT ![l] = [NoLink EXCEPT !.st = "open", !.at = maker.at, !.owner = l]]
      /\ maker' = [maker EXCEPT !.pc = "subtree", !.made = l] /\ SeenInside(link', home)
      /\ UNCHANGED <<parent, home, scheme, begun, known, upload, tray, run, page>>
  BY DEF MakerInserts
<1>2. PICK d \in Folders : d = maker.at /\ d \in Born  BY <1>1 DEF Born
<1>3. /\ link' \in [Links -> LinkRecs] /\ \A m \in Links \ {l} : link'[m] = link[m]
      /\ link'[l].st = "open" /\ link'[l].at = d /\ link'[l].owner = l /\ link'[l].keys = NoKeys
  <2> DEFINE n == [NoLink EXCEPT !.st = "open", !.at = d, !.owner = l]
  <2>1. NoKeys \in [Files -> Links \union {None}]  BY DEF NoKeys
  <2>2. n \in LinkRecs /\ n.st = "open" /\ n.at = d /\ n.owner = l /\ n.keys = NoKeys
    BY <2>1 DEF NoLink, LinkRecs
  <2>3. link' = [link EXCEPT ![l] = n] /\ link \in [Links -> LinkRecs]
    BY <1>1, <1>2 DEF RowsRight, RowType
  <2> HIDE DEF n
  <2> QED  BY <2>2, <2>3
<1>4. /\ seen' \in [Links -> SUBSET Folders] /\ ever' \in [Links -> SUBSET Files]
      /\ \A m \in Links : seen[m] \subseteq seen'[m] /\ ever[m] \subseteq ever'[m]
      /\ \A m \in Links : link'[m].st \notin {"none", "gone"} =>
           /\ \A x \in Folders :
                parent'[x] \notin {Unborn, Gone} /\ link'[m].at \in Above(parent', x) => x \in seen'[m]
           /\ \A f \in Files : home[f] \in seen'[m] => f \in ever'[m]
  BY <1>1, SeenEffect DEF RowsRight
<1>5. /\ Below(link'[l].at) \subseteq seen'[l]
      /\ \A m \in Links : Standing(m)' => FilesOf(seen'[m]) \subseteq ever'[m]
  BY <1>1, <1>3, <1>4 DEF Below, Born, FilesOf, Standing
<1>6. Keyed(l)' = {} /\ \A f \in Files : link'[l].keys[f] = None  BY <1>3 DEF Keyed, NoKeys
<1>7. link[l].st # "gone" /\ ~Standing(l) /\ Standing(l)'  BY <1>1, <1>3 DEF Standing
<1>8. RowsRight' /\ LinksKept /\ FilesKept
  BY <1>1, <1>2, <1>3, <1>4, <1>5, <1>6, <1>7, OneLinkKeeps
<1>9. MakerRight'
  <2>1. maker' \in Makers /\ maker'.pc = "subtree" /\ maker'.made = l /\ maker'.at = d
    BY <1>1, <1>2 DEF MakerRight, Makers, Makings
  <2> QED  BY <1>3, <2>1 DEF MakerRight, Standing
<1> QED  BY <1>1, <1>8, <1>9, RunKept, UploadKept, PageKept

\* A key is stored, of a file read inside.
LEMMA MakerKeyKeeps == ASSUME IInv, NEW f \in Files, MakerKey(f) PROVE IInv'
<1> USE DEF IInv
<1>1. /\ maker # None /\ maker.pc = "keys" /\ f \in maker.offer /\ maker \in Makers
      /\ maker' = IF maker.offer = {f} THEN None ELSE [maker EXCEPT !.offer = @ \ {f}]
      /\ UNCHANGED <<parent, home, scheme, seen, ever>>
      /\ UNCHANGED <<begun, known, upload, tray, run, page>>
  BY DEF MakerKey, MakerRight
<1>2. PICK l \in Links : l = maker.made  BY <1>1 DEF MakerRight
<1>3. \/ link[l].st = "gone"
      \/ Standing(l) /\ link[l].at = maker.at /\ maker.offer \subseteq ever[l]
  BY <1>1, <1>2 DEF MakerRight
<1>4. RowsRight' /\ LinksKept /\ FilesKept
  <2>1. CASE UNCHANGED link  BY <1>1, <2>1, RowsKept DEF rowVars
  <2>2. CASE link[l].st # "gone" /\ f \in Stored /\ KeyAdded(l, f, l)
    BY <1>1, <1>3, <2>2, KeyAddedKeeps
  <2> QED  BY <1>2, <2>1, <2>2 DEF MakerKey
<1>5. MakerRight'
  <2>1. CASE maker.offer = {f}  BY <1>1, <2>1 DEF MakerRight
  <2>2. CASE maker.offer # {f}
    <3>1. /\ maker' \in Makers /\ maker'.pc = "keys" /\ maker'.offer \subseteq maker.offer
          /\ maker'.made = l /\ maker'.at = maker.at
      BY <1>1, <1>2, <2>2 DEF Makers
    <3>2. \/ link'[l].st = "gone"
          \/ Standing(l)' /\ link'[l].at = maker.at /\ maker.offer \subseteq ever'[l]
      BY <1>3, <1>4 DEF LinksKept
    <3> QED  BY <3>1, <3>2 DEF MakerRight, Standing
  <2> QED  BY <2>1, <2>2
<1> QED  BY <1>1, <1>4, <1>5, RunKept, UploadKept, PageKept

-----------------------------------------------------------------------------
(* The public page. *)

\* A step that changes the page alone.
LEMMA PageOnlyKeeps ==
  ASSUME IInv, UNCHANGED <<rowVars, begun, known, upload, tray, run, maker>>, PageRight',
         page.state # "none" => page'.state # "none"
  PROVE  IInv'
<1>1. RowsRight' /\ LinksKept /\ FilesKept  BY RowsKept DEF IInv
<1> QED  BY <1>1, RunKept, MakerKept, UploadKept DEF IInv

\* A page is opened, and shows nothing yet.
LEMMA PageOpensKeeps == ASSUME IInv, NEW l \in Links, PageOpens(l) PROVE IInv'
<1> USE DEF IInv
<1>1. /\ page' = [NoPage EXCEPT !.state = "loading", !.link = l, !.refresh = "info"] /\ Begin
      /\ run' = (IF run = None THEN None ELSE [run EXCEPT !.repair = FALSE])
      /\ UNCHANGED rowVars /\ UNCHANGED <<known, upload, tray, maker>>
  BY DEF PageOpens
<1>2. RowsRight' /\ LinksKept /\ FilesKept /\ link' = link  BY <1>1, RowsKept DEF rowVars
<1>3. NoKeys \in [Files -> Links \union {None}]  BY DEF NoKeys
<1>4. /\ page' \in Pages /\ page'.state = "loading" /\ page'.link = l /\ page'.refresh = "info"
      /\ ~page'.zip /\ page'.tree = None
  BY <1>1, <1>3 DEF NoPage, Pages
<1>5. PageRight'  BY <1>4 DEF PageRight, Parted, Disjoint
<1>6. RunRight'
  <2>1. CASE run = None  BY <1>1, <2>1 DEF RunRight
  <2>2. CASE run # None
    <3>1. /\ run' \in Runs /\ run'.pc = run.pc /\ run'.cur = run.cur /\ run'.key = run.key
          /\ run'.todo = run.todo /\ run'.ids = run.ids /\ run'.offer = run.offer /\ ~run'.repair
      BY <1>1, <2>2 DEF RunRight, Runs
    <3>2. seen' = seen /\ ever' = ever  BY <1>1 DEF rowVars
    <3> QED  BY <1>2, <2>2, <3>1, <3>2 DEF RunRight, Standing
  <2> QED  BY <2>1, <2>2
<1> QED  BY <1>1, <1>2, <1>5, <1>6, BeginBound, MakerKept, UploadKept

\* The page asks for the folders of its link.
LEMMA PageSubtreeKeeps == ASSUME IInv, PageSubtree PROVE IInv'
<1> USE DEF IInv
<1>1. PICK D : D = Below(link[page.link].at)  OBVIOUS
<1>2. /\ page' = [page EXCEPT !.ids = D, !.refresh = "tree"] /\ page \in Pages
      /\ page.state # "none" /\ UNCHANGED rowVars
  BY <1>1 DEF PageSubtree, pageOnly, PageRight
<1>3. D \in SUBSET Folders  BY <1>1 DEF Below, Born
<1>4. page' \in Pages /\ page'.refresh = "tree" /\ page'.tree = page.tree /\ PageSame
  BY <1>2, <1>3 DEF Pages, PageSame
<1>5. LinksKept  BY <1>2, RowsKept
<1>6. PageRight'  BY <1>2, <1>4, <1>5, PageReadsRight
<1> QED  BY <1>4, <1>6, PageOnlyKeeps DEF PageSubtree, pageOnly, PageSame

\* It reads the list of the link: the files under each path, of which none is empty.
LEMMA PageInfoKeeps == ASSUME IInv, PageInfo PROVE IInv'
<1> USE DEF IInv
<1>1. /\ page.refresh = "tree" /\ page \in Pages /\ page.state # "none" /\ page.link \in Links
      /\ UNCHANGED rowVars
  BY DEF PageInfo, pageOnly, PageRight
<1>2. PICK P : /\ Disjoint(P) /\ {} \notin P /\ UNION P \subseteq Files
               /\ page' = [page EXCEPT !.ids = {}, !.tree = P, !.refresh = "keys"]
  <2>1. PICK listed : listed = FilesOf(Attached) \cap Keyed(page.link)  OBVIOUS
  <2>2. PICK P \in SUBSET ((SUBSET listed) \ {{}}) :
          /\ Disjoint(P)
          /\ page' = [page EXCEPT !.ids = {}, !.tree = P, !.refresh = "keys"]
    BY <2>1 DEF PageInfo
  <2>3. listed \subseteq Files  BY <2>1 DEF Keyed
  <2>4. {} \notin P /\ UNION P \subseteq Files  BY <2>2, <2>3
  <2> QED  BY <2>2, <2>4
<1>3. P \in SUBSET SUBSET Files /\ {} \in SUBSET Folders  BY <1>2
<1>4. page' \in Pages /\ page'.refresh = "keys" /\ page'.tree = P /\ PageSame
  BY <1>1, <1>2, <1>3 DEF Pages, PageSame
<1>5. P # None
  <2>1. P \in (SUBSET Files) \union (SUBSET Folders) \union (SUBSET SUBSET Files)  BY <1>3
  <2> QED  BY <2>1, FolderAssumption
<1>6. LinksKept  BY <1>1, RowsKept
<1>7. page.zip \/ page.state = "done" => PackedRight'  BY <1>4, <1>6, PackedKept DEF PageSame
<1>8. PageRight'
  BY <1>1, <1>2, <1>4, <1>5, <1>7 DEF PageRight, Parted, Disjoint, PageSame
<1> QED  BY <1>4, <1>8, PageOnlyKeeps DEF PageInfo, pageOnly, PageSame

\* The page reads its keys.
LEMMA PageKeysKeeps == ASSUME IInv, PageKeys PROVE IInv'
<1> USE DEF IInv
<1>1. PICK k, s : k = link[page.link].keys /\ s = IF page.state = "loading" THEN "ready" ELSE page.state
  OBVIOUS
<1>2. /\ page' = [page EXCEPT !.keys = k, !.refresh = "none", !.state = s]
      /\ page.refresh = "keys" /\ page \in Pages /\ page.state # "none" /\ page.link \in Links
      /\ UNCHANGED rowVars
  BY <1>1 DEF PageKeys, PageRight, pageOnly
<1>3. k \in [Files -> Links \union {None}]  BY <1>1, <1>2 DEF RowsRight, RowType, LinkRecs
<1>4. s \in {"none", "loading", "ready", "downloading", "done", "expired", "error"}
  BY <1>1, <1>2 DEF Pages
<1>5. /\ page' \in Pages /\ page'.refresh = "none" /\ page'.tree = page.tree /\ page'.state = s
      /\ page'.link = page.link /\ page'.zip = page.zip /\ page'.want = page.want
      /\ page'.with = page.with /\ page'.got = page.got /\ page'.entries = page.entries
  BY <1>2, <1>3, <1>4 DEF Pages
<1>6. LinksKept  BY <1>2, RowsKept
<1>7. page.zip \/ page.state = "done" => PackedRight'  BY <1>5, <1>6, PackedKept
<1>8. PageRight'  BY <1>1, <1>2, <1>5, <1>7 DEF PageRight, Parted, Disjoint
<1>9. page.state # "none" => page'.state # "none"  BY <1>1, <1>5
<1> QED  BY <1>8, <1>9, PageOnlyKeeps DEF PageKeys, pageOnly

\* The page shows an error, its expiry or its list again.
LEMMA PageShowsKeeps == ASSUME IInv, PageExpired \/ PageFails \/ PageBack PROVE IInv'
<1> USE DEF IInv
<1>1. page \in Pages /\ {} \in SUBSET Folders  BY DEF PageRight
<1>2. /\ page' \in Pages /\ page'.refresh \in {"none", page.refresh} /\ page'.tree = page.tree
      /\ page'.state \in {page.state, "expired", "error", "ready"}
      /\ page'.state = "ready" => page.tree # None
      /\ page'.state = "done" => page.state = "done"
      /\ page'.link = page.link /\ page'.zip = page.zip /\ page'.want = page.want
      /\ page'.with = page.with /\ page'.got = page.got /\ page'.entries = page.entries
      /\ page.state = "none" => page.refresh # "none"
      /\ page.zip => page'.state \in {page.state, "expired"}
  <2>1. CASE PageExpired  BY <1>1, <2>1 DEF PageExpired, Pages
  <2>2. CASE PageFails
    <3> PICK s : s = IF page.state = "loading" THEN "error" ELSE page.state  OBVIOUS
    <3>1. page' = [page EXCEPT !.ids = {}, !.refresh = "none", !.state = s]  BY <2>2 DEF PageFails
    <3>2. s \in {"none", "loading", "ready", "downloading", "done", "expired", "error"}
          /\ s \in {page.state, "error"}
      BY <1>1 DEF Pages
    <3>3. /\ page' \in Pages /\ page'.refresh = "none" /\ page'.tree = page.tree /\ page'.state = s
          /\ page'.link = page.link /\ page'.zip = page.zip /\ page'.want = page.want
          /\ page'.with = page.with /\ page'.got = page.got /\ page'.entries = page.entries
      BY <1>1, <3>1, <3>2 DEF Pages
    <3>4. (s = "ready" => page.tree # None) /\ (page.zip => s = page.state)
      BY DEF PageRight
    <3> QED  BY <2>2, <3>2, <3>3, <3>4 DEF PageFails
  <2>3. CASE PageBack  BY <1>1, <2>3 DEF PageBack, Pages, PageRight
  <2> QED  BY <2>1, <2>2, <2>3
<1>3. LinksKept  BY RowsKept DEF PageExpired, PageFails, PageBack, pageOnly
<1>4. page.zip \/ page.state = "done" => PackedRight'  BY <1>2, <1>3, PackedKept
<1>5. PageRight'
  <2>1. page.state # "none"  BY <1>2 DEF PageRight, PageBack
  <2> QED  BY <1>2, <1>4, <2>1 DEF PageRight, Parted, Disjoint
<1>6. page.state # "none" => page'.state # "none"  BY <1>2
<1> QED  BY <1>5, <1>6, PageOnlyKeeps DEF PageExpired, PageFails, PageBack, pageOnly

\* What the archive is made of is fixed at the click.
LEMMA ArchiveStartsKeeps == ASSUME IInv, ArchiveStarts PROVE IInv'
<1> USE DEF IInv
<1>1. page \in Pages /\ page.state = "ready" /\ page.tree # None /\ page.link \in Links
  BY DEF ArchiveStarts, PageRight
<1>2. page.tree \in SUBSET SUBSET Files /\ Parted(page.tree)  BY <1>1 DEF Pages, PageRight
<1>3. CASE page.tree = {}
  <2>1. page' = [page EXCEPT !.state = "error"]  BY <1>3 DEF ArchiveStarts
  <2>2. /\ page' \in Pages /\ page'.refresh = page.refresh /\ page'.tree = page.tree
        /\ page'.state = "error" /\ page'.link = page.link /\ page'.zip = page.zip
    BY <1>1, <2>1 DEF Pages
  <2>3. PageRight'  BY <1>1, <2>2 DEF PageRight, Parted, Disjoint
  <2> QED  BY <2>2, <2>3, PageOnlyKeeps DEF ArchiveStarts, pageOnly
<1>4. CASE page.tree # {}
  <2>1. PICK t, k : t = page.tree /\ k = page.keys  OBVIOUS
  <2>2. page' = [page EXCEPT !.state = "downloading", !.zip = TRUE,
                             !.want = t, !.with = k, !.got = {}, !.entries = {}]
    BY <1>4, <2>1 DEF ArchiveStarts, Archiving
  <2>3. k \in [Files -> Links \union {None}] /\ t \in SUBSET SUBSET Files /\ {} \in SUBSET Files
    BY <1>1, <1>2, <2>1 DEF Pages
  <2>4. /\ page' \in Pages /\ page'.refresh = page.refresh /\ page'.tree = page.tree
        /\ page'.state = "downloading"
        /\ page'.link = page.link /\ page'.want = t /\ page'.got = {} /\ page'.entries = {} /\ page'.zip
    BY <1>1, <2>2, <2>3 DEF Pages
  <2>5. PackedRight'  BY <1>2, <2>1, <2>4 DEF PackedRight, Parted, Disjoint
  <2>6. PageRight'  BY <1>1, <1>2, <1>4, <2>1, <2>4, <2>5 DEF PageRight, Parted, Disjoint
  <2> QED  BY <2>4, <2>6, PageOnlyKeeps DEF ArchiveStarts, pageOnly
<1> QED  BY <1>3, <1>4

\* A file that takes the place of those of its path leaves one in every path.
LEMMA ZippedPacks ==
  ASSUME PackedRight, NEW f \in UNION page.want
  PROVE  /\ Zipped(f) \subseteq page.entries \union {f}
         /\ \A p \in page.want : p \cap (page.got \union {f}) # {} => p \cap Zipped(f) # {}
<1>1. Zipped(f) \subseteq page.entries \union {f} /\ f \in Zipped(f)  BY DEF Zipped
<1>2. ASSUME NEW p \in page.want, p \cap (page.got \union {f}) # {} PROVE p \cap Zipped(f) # {}
  <2>1. CASE f \in p  BY <1>1, <2>1
  <2>2. CASE f \notin p
    <3>1. PICK g \in p : g \in page.entries  BY <1>2, <2>2 DEF PackedRight
    <3>2. ~SharesPath(f, g)
      <4> SUFFICES ASSUME NEW q \in page.want, f \in q, g \in q PROVE FALSE  BY DEF SharesPath
      <4>1. p = q  BY <3>1 DEF PackedRight, Parted, Disjoint
      <4> QED  BY <2>2, <4>1
    <3> QED  BY <3>1, <3>2 DEF Zipped
  <2> QED  BY <2>1, <2>2
<1> QED  BY <1>1, <1>2

\* A file is added once it was served and opened, or the archive is given up.
LEMMA ArchiveTakesKeeps == ASSUME IInv, NEW f \in Files, ArchiveTakes(f) PROVE IInv'
<1> USE DEF IInv
<1>1. /\ page \in Pages /\ page.zip /\ page.want # {} /\ PackedRight /\ page.link \in Links
      /\ f \in UNION page.want /\ page.state \in {"downloading", "expired"}
      /\ \/ /\ page.with[f] = page.link /\ link[page.link].keys[f] # None
            /\ page' = [page EXCEPT !.got = @ \union {f}, !.entries = Zipped(f)]
         \/ page' = [page EXCEPT !.state = "error", !.zip = FALSE]
      /\ UNCHANGED rowVars /\ ever' = ever
  BY DEF ArchiveTakes, Opens, ServedTo, PageRight, pageOnly, rowVars
<1>2. CASE page' = [page EXCEPT !.state = "error", !.zip = FALSE]
  <2>1. /\ page' \in Pages /\ page'.refresh = page.refresh /\ page'.tree = page.tree
        /\ page'.state = "error" /\ page'.link = page.link /\ page'.zip = FALSE
    BY <1>1, <1>2 DEF Pages
  <2>2. PageRight'  BY <1>1, <2>1 DEF PageRight, Parted, Disjoint
  <2> QED  BY <2>1, <2>2, PageOnlyKeeps DEF ArchiveTakes, pageOnly
<1>3. CASE /\ page.with[f] = page.link /\ link[page.link].keys[f] # None
           /\ page' = [page EXCEPT !.got = @ \union {f}, !.entries = Zipped(f)]
  <2>1. PICK z, g : z = Zipped(f) /\ g = page.got \union {f}  OBVIOUS
  <2>2. /\ z \subseteq page.entries \union {f}
        /\ \A p \in page.want : p \cap g # {} => p \cap z # {}
    BY <1>1, <2>1, ZippedPacks
  <2>3. z \in SUBSET Files /\ g \in SUBSET Files  BY <1>1, <2>1, <2>2 DEF Pages
  <2>4. page' = [page EXCEPT !.got = g, !.entries = z]  BY <1>3, <2>1
  <2>5. /\ page' \in Pages /\ page'.refresh = page.refresh /\ page'.tree = page.tree
        /\ page'.state = page.state /\ page'.link = page.link /\ page'.zip = page.zip
        /\ page'.want = page.want /\ page'.with = page.with /\ page'.got = g /\ page'.entries = z
    BY <1>1, <2>3, <2>4 DEF Pages
  <2>6. f \in ever[page.link]  BY <1>1, <1>3 DEF RowsRight, LinkRight, Keyed
  <2>7. PackedRight'
    <3>1. Parted(page'.want)  BY <1>1, <2>5 DEF PackedRight
    <3>2. page'.entries \subseteq (UNION page'.want) \cap ever'[page'.link]
      <4>1. page.entries \subseteq (UNION page.want) \cap ever[page.link]  BY <1>1 DEF PackedRight
      <4>2. z \subseteq (UNION page.want) \cap ever[page.link]  BY <1>1, <2>2, <2>6, <4>1
      <4>3. /\ page'.want = page.want /\ page'.link = page.link /\ page'.entries = z
            /\ ever'[page.link] = ever[page.link]
        BY <1>1, <2>5
      <4> QED  BY <4>2, <4>3
    <3>3. \A h \in page'.entries : page'.with[h] = page'.link
      BY <1>1, <1>3, <2>2, <2>5 DEF PackedRight
    <3>4. \A p \in page'.want : p \cap page'.got # {} => p \cap page'.entries # {}  BY <2>2, <2>5
    <3> QED  BY <3>1, <3>2, <3>3, <3>4 DEF PackedRight, Parted, Disjoint
  <2>8. PageRight'  BY <1>1, <2>5, <2>7 DEF PageRight, Parted, Disjoint
  <2> QED  BY <2>5, <2>8, PageOnlyKeeps DEF ArchiveTakes, pageOnly
<1> QED  BY <1>1, <1>2, <1>3

\* An archive that ends has had every file it wanted.
LEMMA ArchiveEndsKeeps == ASSUME IInv, ArchiveEnds PROVE IInv'
<1> USE DEF IInv
<1>1. /\ page \in Pages /\ page.zip /\ page.want # {} /\ UNION page.want = page.got
      /\ page' = [page EXCEPT !.state = "done", !.zip = FALSE] /\ page.link \in Links
      /\ UNCHANGED rowVars
  BY DEF ArchiveEnds, PageRight, pageOnly
<1>2. /\ page' \in Pages /\ page'.refresh = page.refresh /\ page'.tree = page.tree
      /\ page'.state = "done" /\ page'.link = page.link /\ page'.zip = FALSE /\ page'.want = page.want
      /\ page'.with = page.with /\ page'.got = page.got /\ page'.entries = page.entries
  BY <1>1 DEF Pages
<1>3. LinksKept  BY <1>1, RowsKept
<1>4. PackedRight'  BY <1>1, <1>2, <1>3, PackedKept
<1>5. PageRight'  BY <1>1, <1>2, <1>4 DEF PageRight, Parted, Disjoint
<1> QED  BY <1>2, <1>5, PageOnlyKeeps DEF ArchiveEnds, pageOnly

-----------------------------------------------------------------------------
(* The invariant, and what follows from it. *)

\* It holds at first: the one old link is of a folder that is there.
LEMMA InitIInv == Init => IInv
<1> SUFFICES ASSUME Init PROVE IInv  OBVIOUS
<1>1. PICK top \in Folders :
        /\ parent \in {p \in [Folders -> {Root, Unborn, Gone, top}] :
                         p[top] = Root /\ \A d \in Folders \ {top} : p[d] # Root}
        /\ home \in {h \in [Files -> Folders \union {Root, Unborn}] :
                       \A f \in Files : h[f] \in Folders => parent[h[f]] \notin {Unborn, Gone}}
        /\ \E old \in Links, keyed \in SUBSET Inside(top) :
             /\ link = [l \in Links |->
                  IF l = old THEN [st |-> "open", at |-> top, owner |-> None,
                                   keys |-> [f \in Files |-> IF f \in keyed THEN l ELSE None]]
                  ELSE NoLink]
             /\ seen = [l \in Links |-> IF l = old THEN Below(top) ELSE {}]
             /\ ever = [l \in Links |-> IF l = old THEN Inside(top) ELSE {}]
  BY DEF Init
<1>2. PICK old \in Links, keyed \in SUBSET Inside(top) :
        /\ link = [l \in Links |->
             IF l = old THEN [st |-> "open", at |-> top, owner |-> None,
                              keys |-> [f \in Files |-> IF f \in keyed THEN l ELSE None]]
             ELSE NoLink]
        /\ seen = [l \in Links |-> IF l = old THEN Below(top) ELSE {}]
        /\ ever = [l \in Links |-> IF l = old THEN Inside(top) ELSE {}]
  BY <1>1
<1>3. /\ scheme \in [Files -> Schemes] /\ begun \in 0..MaxBegun /\ known = parent
      /\ upload = None /\ tray = [f \in Files |-> "none"] /\ run = None /\ maker = None
      /\ page = NoPage
  BY DEF Init
<1>4. parent \in [Folders -> Places] /\ home \in [Files -> Places] /\ HomesBorn
  BY <1>1, Sentinels DEF Places, HomesBorn, Born
<1>5. top \in Born  BY <1>1, Sentinels DEF Born
<1>6. /\ Inside(top) \subseteq Stored /\ Inside(top) \subseteq Files /\ Below(top) \subseteq Folders
      /\ Inside(top) = FilesOf(Below(top))
  BY Sentinels DEF Inside, FilesOf, Below, Born, Stored
<1>7. ASSUME NEW l \in Links
      PROVE  /\ link[l] \in LinkRecs /\ LinkRight(l)
             /\ seen[l] \in SUBSET Folders /\ ever[l] \in SUBSET Files
  <2>1. CASE l = old
    <3> DEFINE k == [f \in Files |-> IF f \in keyed THEN l ELSE None]
    <3>1. link[l] = [st |-> "open", at |-> top, owner |-> None, keys |-> k]  BY <1>2, <2>1
    <3>2. k \in [Files -> Links \union {None}]
          /\ \A f \in Files : k[f] = IF f \in keyed THEN l ELSE None
      OBVIOUS
    <3> HIDE DEF k
    <3>3. link[l] \in LinkRecs /\ link[l].at = top /\ link[l].owner = None /\ link[l].keys = k
      BY <3>1, <3>2 DEF LinkRecs
    <3>4. Keyed(l) \subseteq keyed /\ \A f \in Files : link[l].keys[f] \in {None, l}
      BY <3>2, <3>3 DEF Keyed
    <3>5. ever[l] = Inside(top) /\ seen[l] = Below(top)  BY <1>2, <2>1
    <3> QED  BY <1>2, <1>5, <1>6, <3>3, <3>4, <3>5 DEF LinkRight
  <2>2. CASE l # old
    <3>1. link[l] = NoLink /\ seen[l] = {} /\ ever[l] = {}  BY <1>2, <2>2
    <3>2. NoKeys \in [Files -> Links \union {None}] /\ \A f \in Files : NoKeys[f] = None  BY DEF NoKeys
    <3>3. /\ link[l] \in LinkRecs /\ link[l].st = "none" /\ link[l].at = None
          /\ link[l].owner = None /\ link[l].keys = NoKeys
      BY <3>1, <3>2 DEF NoLink, LinkRecs
    <3>4. Keyed(l) = {} /\ ~Standing(l)  BY <3>2, <3>3 DEF Keyed, Standing
    <3> QED  BY <3>1, <3>2, <3>3, <3>4 DEF LinkRight
  <2> QED  BY <2>1, <2>2
<1>8. RowsRight
  <2>1. /\ link = [l \in Links |-> link[l]] /\ ever = [l \in Links |-> ever[l]]
        /\ seen = [l \in Links |-> seen[l]]
    BY <1>2
  <2>2. /\ link \in [Links -> LinkRecs] /\ ever \in [Links -> SUBSET Files]
        /\ seen \in [Links -> SUBSET Folders]
    BY <1>7, <2>1
  <2> QED  BY <1>3, <1>4, <1>7, <2>2 DEF RowsRight, RowType
<1>9. UploadRight  BY <1>3 DEF UploadRight, UploadsToldTruly
<1>10. RunRight /\ MakerRight  BY <1>3 DEF RunRight, MakerRight
<1>11. PageRight
  <2>1. NoKeys \in [Files -> Links \union {None}]  BY DEF NoKeys
  <2>2. /\ page \in Pages /\ page.state = "none" /\ page.refresh = "none" /\ ~page.zip
        /\ page.tree = None
    BY <1>3, <2>1 DEF NoPage, Pages
  <2> QED  BY <2>2 DEF PageRight
<1> QED  BY <1>3, <1>4, <1>8, <1>9, <1>10, <1>11, FolderAssumption DEF IInv

\* Every step keeps it.
LEMMA NextIInv == IInv /\ [Next]_vars => IInv'
<1> SUFFICES ASSUME IInv, [Next]_vars PROVE IInv'  OBVIOUS
<1>1. CASE UNCHANGED vars
  <2>1. UNCHANGED <<rowVars, begun, known, upload, tray, run, maker, page>>  BY <1>1 DEF vars
  <2>2. RowsRight' /\ LinksKept /\ FilesKept  BY <2>1, RowsKept DEF IInv
  <2> QED  BY <2>1, <2>2, RunKept, MakerKept, UploadKept, PageKept DEF IInv
<1>2. ASSUME NEW d \in Folders, NEW p \in Folders \union {Root},
             CreateFolder(d, p) \/ MoveFolder(d, p)
      PROVE  IInv'
  BY <1>2, CreateFolderKeeps, ChangeFolderKeeps
<1>3. ASSUME NEW d \in Folders, RenameFolder(d) \/ DeleteFolder(d) \/ MakerReads(d)
      PROVE  IInv'
  <2>1. Root \in Folders \union {Root}  OBVIOUS
  <2> QED  BY <1>3, <2>1, ChangeFolderKeeps, DeleteFolderKeeps, MakerReadsKeeps
<1>4. ASSUME NEW f \in Files, NEW d \in Folders, MoveElsewhere(f, d) \/ MoveFile(f, d)
      PROVE  IInv'
  BY <1>4, MoveElsewhereKeeps, MoveFileKeeps
<1>5. ASSUME NEW f \in Files, DeleteFile(f) \/ SyncStore(f) \/ MakerKey(f) \/ ArchiveTakes(f)
      PROVE  IInv'
  BY <1>5, DeleteFileKeeps, SyncStoreKeeps, MakerKeyKeeps, ArchiveTakesKeeps
<1>6. ASSUME NEW f \in Files, NEW d \in Folders \union {Root}, ChooseUpload(f, d) PROVE IInv'
  BY <1>6, ChooseUploadKeeps
<1>7. CASE RefuseUpload \/ StoreUpload \/ UploadAnswered \/ OpenPage
  BY <1>7, RefuseUploadKeeps, StoreUploadKeeps, UploadAnsweredKeeps, OpenPageKeeps
<1>8. CASE SyncLinksRead \/ SyncEnds \/ SyncUpgrade \/ SyncFoldersRead \/ SyncFilesRead \/ SyncKeysRead
  BY <1>8, SyncLinksReadKeeps, SyncEndsKeeps, SyncUpgradeKeeps, SyncReadsKeep
<1>9. CASE SyncWrap \/ SyncAdmitted \/ SyncSubtree \/ SyncChecks \/ SyncFails
  BY <1>9, SyncWrapKeeps, SyncAdmittedKeeps, SyncSubtreeKeeps, SyncChecksKeeps, SyncFailsKeeps
<1>10. ASSUME NEW l \in Links, CloseLink(l) \/ SyncTakesLink(l) \/ MakerInserts(l) \/ PageOpens(l)
       PROVE  IInv'
  BY <1>10, CloseLinkKeeps, SyncTakesLinkKeeps, MakerInsertsKeeps, PageOpensKeeps
<1>11. ASSUME NEW l \in Links, NEW u \in Links \union {None}, SyncLink(l, u) PROVE IInv'
  BY <1>11, PanelKeeps
<1>12. CASE MakerFilesRead \/ MakerWraps \/ MakerSubtree \/ MakerChecks \/ MakerFails
  BY <1>12, MakerWrapsKeeps, MakerSubtreeKeeps, MakerChecksKeeps
<1>13. CASE \/ PageRepairs \/ PageBack \/ PageSubtree \/ PageInfo \/ PageExpired \/ PageKeys
            \/ PageFails
  BY <1>13, PageRepairsKeeps, PageShowsKeeps, PageSubtreeKeeps, PageInfoKeeps, PageKeysKeeps
<1>14. CASE ArchiveStarts \/ ArchiveEnds
  BY <1>14, ArchiveStartsKeeps, ArchiveEndsKeeps
<1> QED
  BY <1>1, <1>2, <1>3, <1>4, <1>5, <1>6, <1>7, <1>8, <1>9, <1>10, <1>11, <1>12, <1>13, <1>14
  DEF Next

\* The invariant gives the type invariant.
LEMMA IInvTypes == IInv => TypeOK
<1> SUFFICES ASSUME IInv PROVE TypeOK  OBVIOUS
<1>1. /\ parent \in [Folders -> Places] /\ home \in [Files -> Places]
      /\ scheme \in [Files -> Schemes] /\ link \in [Links -> LinkRecs]
      /\ seen \in [Links -> SUBSET Folders] /\ ever \in [Links -> SUBSET Files]
      /\ begun \in 0..MaxBegun /\ known \in [Folders -> Places]
      /\ tray \in [Files -> {"none", "uploading", "done", "error", "unknown"}]
  BY DEF IInv, RowsRight, RowType, UploadRight
<1>2. \A f \in Files : home[f] \in Folders => home[f] \in Born  BY DEF IInv, RowsRight, HomesBorn
<1>3. \A l \in Links : /\ Keyed(l) \subseteq Stored /\ link[l].at \in Born \union {None}
  BY DEF IInv, RowsRight, LinkRight
<1>4. \A l \in Links :
        /\ link[l].st \in {"none", "open", "over", "gone"}
        /\ link[l].at \in Folders \union {None} /\ link[l].owner \in Links \union {None}
        /\ link[l].keys \in [Files -> Links \union {None}]
  BY <1>1 DEF LinkRecs
<1>5. upload = None \/ upload \in Uploads  BY DEF IInv, UploadRight
<1>6. run = None \/
        /\ run.pc \in Phases /\ run.cred \in {"pin", "password"}
        /\ run.scope \subseteq Folders /\ run.todo \subseteq Links
        /\ run.cur \in Links \union {None} /\ run.key \in Links \union {None}
        /\ {run.url, run.repair} \subseteq BOOLEAN /\ run.offer \subseteq Files
        /\ run.ids = None \/ run.ids \subseteq Folders
        /\ run.files = None \/ run.files \subseteq Files
        /\ run.have = None \/ run.have \subseteq Files
  BY DEF IInv, RunRight, Runs
<1>7. maker = None \/ maker \in Makers  BY DEF IInv, MakerRight
<1>8. /\ page.state \in {"none", "loading", "ready", "downloading", "done", "expired", "error"}
      /\ page.refresh \in {"none", "info", "tree", "keys"} /\ page.zip \in BOOLEAN
      /\ page.tree = None \/ page.tree \subseteq SUBSET Files
  BY DEF IInv, PageRight, Pages
<1> QED  BY <1>1, <1>2, <1>3, <1>4, <1>5, <1>6, <1>7, <1>8 DEF TypeOK, Places, Uploads, Makers

\* The invariant is inductive: it holds in every state of every behaviour, whatever is
\* moved, deleted, lost or done from another device, for any folders, files and links.
THEOREM Inductive == Spec => []IInv
BY InitIInv, NextIInv, PTL DEF Spec

\* Rows point at rows that are there: no file is in a folder that was deleted, no link
\* keeps the key of a file that was (handle_folders.go, handle_file_delete.go).
THEOREM TypeCorrect == Spec => []TypeOK
BY Inductive, IInvTypes, PTL

\* A link has keys only of files that were, since it exists, in a folder that was then or
\* had been since it exists inside the link's: of files moved out before it is shared none
\* gets a key, though the requests read the folders and their files one after the other.
THEOREM WereInside == Spec => []KeysWereInside
<1>1. IInv => KeysWereInside  BY DEF IInv, RowsRight, LinkRight, KeysWereInside
<1> QED  BY <1>1, Inductive, PTL

\* The URL of a link opens every key it has, and so does the owner's copy.
THEOREM UrlOpens == Spec => []KeysOpenWithTheUrl
<1>1. IInv => KeysOpenWithTheUrl
  BY DEF IInv, RowsRight, LinkRight, KeysOpenWithTheUrl, Keyed
<1> QED  BY <1>1, Inductive, PTL

\* An archive is handed out with a file under every path listed, each of them opened with
\* the key of the link and once inside its folder, or not at all; files that share a path
\* replace one another in it.
THEOREM ArchiveWhole == Spec => []ArchiveIsWhole
<1>1. ASSUME IInv, page.state = "done" PROVE ArchiveIsWhole
  <2>1. PackedRight /\ page.got = UNION page.want /\ page.want # {}  BY <1>1 DEF IInv, PageRight
  <2>2. ASSUME NEW p \in page.want PROVE p \cap page.entries # {}
    <3>1. p # {} /\ p \subseteq UNION page.want  BY <2>1 DEF PackedRight, Parted
    <3> QED  BY <2>1, <3>1 DEF PackedRight
  <2> QED  BY <2>1, <2>2 DEF PackedRight, ArchiveIsWhole
<1>2. IInv => ArchiveIsWhole  BY <1>1 DEF ArchiveIsWhole
<1> QED  BY <1>2, Inductive, PTL

\* The page calls an upload refused, or done, only when it was.
THEOREM UploadsTold == Spec => []UploadsToldTruly
<1>1. IInv => UploadsToldTruly  BY DEF IInv, UploadRight
<1> QED  BY <1>1, Inductive, PTL

-----------------------------------------------------------------------------
(***************************************************************************)
(* What is behind the URL of a link.  Links are written by the owner's     *)
(* page, by two activities under way and from other devices; none of them  *)
(* brings a closed link back, turns a link to another folder, or replaces  *)
(* the copy of its key that the owner relies on.                           *)
(***************************************************************************)
Lasting(l) ==
  /\ link[l].st = "gone" => link'[l].st = "gone"
  /\ link[l].st = "over" => link'[l].st \in {"over", "gone"}
  /\ link[l].st # "none" /\ link'[l].st # "gone" =>
       /\ link'[l].at = link[l].at
       /\ link[l].owner # None => link'[l].owner = link[l].owner
LinksLast == [][\A l \in Links : Lasting(l)]_vars

\* A step that writes some columns of one link.
LEMMA CopyLasts == ASSUME RowType, StoreCopy, NEW l \in Links PROVE Lasting(l)
<1> DEFINE copy == OwnersCopy
<1>1. link' = [link EXCEPT ![run.cur].owner = copy]  BY DEF StoreCopy
<1>2. link[run.cur].owner # None => copy = link[run.cur].owner  BY DEF OwnersCopy
<1>3. link \in [Links -> LinkRecs]  BY DEF RowType
<1> HIDE DEF copy
<1>4. /\ link'[l].st = link[l].st /\ link'[l].at = link[l].at
      /\ link'[l].owner = IF l = run.cur THEN copy ELSE link[l].owner
  BY <1>1, <1>3 DEF LinkRecs
<1> QED  BY <1>2, <1>3, <1>4 DEF Lasting, LinkRecs

\* A key that is added changes nothing else of a link.
LEMMA KeyLasts ==
  ASSUME RowType, NEW m, NEW f, NEW k, KeyAdded(m, f, k), NEW l \in Links
  PROVE  Lasting(l)
<1>1. link \in [Links -> LinkRecs]  BY DEF RowType
<1>2. CASE l = m
  <2>1. PICK keys : keys = [link[l].keys EXCEPT ![f] = k]  OBVIOUS
  <2>2. link'[l] = [link[l] EXCEPT !.keys = keys]  BY <1>1, <1>2, <2>1 DEF KeyAdded, LinkRecs
  <2> QED  BY <1>1, <2>2 DEF Lasting, LinkRecs
<1>3. CASE l # m
  <2>1. link'[l] = link[l]  BY <1>1, <1>3 DEF KeyAdded
  <2> QED  BY <1>1, <2>1 DEF Lasting, LinkRecs
<1> QED  BY <1>2, <1>3

\* A link that is left alone lasts.
LEMMA SameLasts == ASSUME RowType, NEW l \in Links, link'[l] = link[l] PROVE Lasting(l)
BY DEF RowType, LinkRecs, Lasting

\* Every step, of whatever activity.
LEMMA NextLasts == ASSUME IInv, [Next]_vars, NEW l \in Links PROVE Lasting(l)
<1>0. RowType /\ link \in [Links -> LinkRecs]  BY DEF IInv, RowsRight, RowType
<1>1. ASSUME NEW d \in Folders, DeleteFolder(d) PROVE Lasting(l)
  <2>1. link'[l] = IF link[l].at \in Below(d) THEN [NoLink EXCEPT !.st = "gone"] ELSE link[l]
    BY <1>1 DEF DeleteFolder
  <2>2. CASE link[l].at \in Below(d)
    <3>1. link'[l].st = "gone"  BY <2>1, <2>2 DEF NoLink
    <3> QED  BY <3>1 DEF Lasting
  <2>3. CASE link[l].at \notin Below(d)  BY <1>0, <2>1, <2>3, SameLasts
  <2> QED  BY <2>2, <2>3
<1>2. ASSUME NEW f \in Files, DeleteFile(f) PROVE Lasting(l)
  <2>1. link'[l] = [link[l] EXCEPT !.keys[f] = None]  BY <1>2 DEF DeleteFile
  <2>2. PICK keys : link'[l] = [link[l] EXCEPT !.keys = keys]  BY <1>0, <2>1 DEF LinkRecs
  <2> QED  BY <1>0, <2>2 DEF Lasting, LinkRecs
<1>3. ASSUME NEW m \in Links, CloseLink(m) PROVE Lasting(l)
  <2>1. link' = [link EXCEPT ![m].st = "over"] /\ link[m].st = "open"  BY <1>3 DEF CloseLink, Open
  <2>2. /\ link'[l].st = IF l = m THEN "over" ELSE link[l].st
        /\ link'[l].at = link[l].at /\ link'[l].owner = link[l].owner
    BY <1>0, <2>1 DEF LinkRecs
  <2> QED  BY <1>0, <2>1, <2>2 DEF Lasting, LinkRecs
<1>4. ASSUME NEW m \in Links, MakerInserts(m) PROVE Lasting(l)
  <2>1. /\ link[m].st = "none"
        /\ link' = [link EXCEPT ![m] = [NoLink EXCEPT !.st = "open", !.at = maker.at, !.owner = m]]
    BY <1>4 DEF MakerInserts
  <2>2. CASE l = m  BY <2>1, <2>2 DEF Lasting
  <2>3. CASE l # m
    <3>1. link'[l] = link[l]  BY <1>0, <2>1, <2>3
    <3> QED  BY <1>0, <3>1, SameLasts
  <2> QED  BY <2>2, <2>3
<1>5. CASE SyncUpgrade \/ SyncAdmitted
  BY <1>0, <1>5, CopyLasts, SameLasts DEF SyncUpgrade, SyncAdmitted
<1>6. ASSUME NEW f \in Files, SyncStore(f) \/ MakerKey(f) PROVE Lasting(l)
  <2>1. ASSUME NEW m, NEW k, KeyAdded(m, f, k) PROVE Lasting(l)  BY <1>0, <2>1, KeyLasts
  <2> QED  BY <1>0, <1>6, <2>1, SameLasts DEF SyncStore, MakerKey
<1>7. ASSUME UNCHANGED link PROVE Lasting(l)  BY <1>0, <1>7, SameLasts
<1>8. ASSUME NEW d \in Folders, NEW p \in Folders \union {Root},
             CreateFolder(d, p) \/ MoveFolder(d, p) \/ RenameFolder(d) \/ MakerReads(d)
      PROVE  UNCHANGED link
  BY <1>8 DEF CreateFolder, MoveFolder, RenameFolder, UpdateFolder, MakerReads, rowVars
<1>9. ASSUME NEW f \in Files, NEW d \in Folders \union {Root},
             MoveElsewhere(f, d) \/ MoveFile(f, d) \/ ChooseUpload(f, d) \/ ArchiveTakes(f)
      PROVE  UNCHANGED link
  BY <1>9 DEF MoveElsewhere, MoveFile, MoveRow, ChooseUpload, ArchiveTakes, pageOnly, rowVars
<1>10. ASSUME RefuseUpload \/ StoreUpload \/ UploadAnswered \/ OpenPage PROVE UNCHANGED link
  BY <1>10 DEF RefuseUpload, StoreUpload, UploadAnswered, OpenPage, rowVars
<1>11. ASSUME \/ SyncLinksRead \/ SyncEnds \/ SyncFoldersRead \/ SyncFilesRead \/ SyncKeysRead
              \/ SyncWrap \/ SyncSubtree \/ SyncChecks \/ SyncFails
              \/ \E m \in Links : SyncTakesLink(m) \/ \E u \in Links \union {None} : SyncLink(m, u)
       PROVE  UNCHANGED link
  BY <1>11 DEF SyncLinksRead, SyncEnds, SyncFoldersRead, SyncFilesRead, SyncKeysRead, SyncWrap,
     SyncSubtree, SyncChecks, SyncFails, SyncTakesLink, SyncLink, syncOnly, rowVars
<1>12. ASSUME \/ MakerFilesRead \/ MakerWraps \/ MakerSubtree \/ MakerChecks \/ MakerFails
              \/ \E m \in Links : PageOpens(m)
              \/ PageRepairs \/ PageBack \/ PageSubtree \/ PageInfo \/ PageExpired \/ PageKeys \/ PageFails
              \/ ArchiveStarts \/ ArchiveEnds \/ UNCHANGED vars
       PROVE  UNCHANGED link
  BY <1>12 DEF MakerFilesRead, MakerWraps, MakerSubtree, MakerChecks, MakerFails, PageOpens, PageRepairs,
     PageBack, PageSubtree, PageInfo, PageExpired, PageKeys, PageFails, ArchiveStarts, ArchiveEnds,
     makerOnly, pageOnly, rowVars, vars
<1>13. Root \in Folders \union {Root} /\ Folders \subseteq Folders \union {Root}  OBVIOUS
<1>14. ASSUME NEW d \in Folders, RenameFolder(d) \/ MakerReads(d) PROVE UNCHANGED link
  BY <1>8, <1>13, <1>14
<1>15. ASSUME NEW f \in Files, ArchiveTakes(f) PROVE UNCHANGED link  BY <1>9, <1>13, <1>15
<1> QED  BY <1>1, <1>2, <1>3, <1>4, <1>5, <1>6, <1>7, <1>8, <1>9, <1>10, <1>11, <1>12, <1>13, <1>14, <1>15
         DEF Next

\* A revoked or expired link is never open again, a URL never leads to another folder,
\* and the owner's copy of its key is never another's.
THEOREM LinksStay == Spec => LinksLast
<1>1. IInv /\ [Next]_vars => [\A l \in Links : Lasting(l)]_vars  BY NextLasts
<1> QED  BY <1>1, Inductive, PTL DEF Spec, LinksLast
=============================================================================
