# Specifications of ABRN Drive (VaultDrive)

TLA+ models of the parts of this repository whose correctness depends on the order in which
requests, transactions, tabs and failures meet, with TLC runs on small instances and TLAPS proofs
for all instances. Paths below are relative to the repository root; `PROJECT.json` maps every
definition of a model to the lines it stands for.

## The system

ABRN Drive is a Go HTTP server (`*.go` at the root, package `main`), a React client
(`vaultdrive_client/src`), a PostgreSQL database (`sql/schema`, `sql/queries`, sqlc code in
`internal/database`), a directory of encrypted files and a release installer (`deploy/release`).
The server never sees a private key or a file in clear; clients wrap keys under passwords and PINs.
Requests run concurrently; what orders them is a transaction, a row lock or an advisory lock, all
under PostgreSQL's READ COMMITTED, and where a handler uses none of these, nothing does. Two
components meet in memory only (live events, rooms); the others meet in the tables.

| Component | State it keeps | Operations | Meets | What is hard | Correct when |
|---|---|---|---|---|---|
| Custodian recovery `handle_recovery_capability.go` | configuration and parts per owner, attempts, approvals | save parts, start, approve, status, reset, cancel, lazy expiry | credentials (reset), administration (cascade) | seven ways out of an attempt, each must erase the parts; configuration changes under an attempt | one attempt per owner; bound to the present custodians; quorum real and audited; parts erased |
| Account credentials `credential_mutations.go`, `handle_login.go`, `handle_user_pin.go`, `handle_change_password.go`, `handle_auth_refresh.go` | password and PIN hashes, wrapped keys and their format, refresh tokens | login, migration, change, PIN, refresh | recovery, administration, client sessions | values cached in devices and stored later; read then write | key opens under the login password; formats agree; temporary passwords are forced; old tokens die |
| Account administration `handle_admin.go` | flags on `users` | reset password and PIN, force change, create, delete, roles | credentials, recovery | two statements without a transaction | as above |
| Offline edits `handle_sync.go`, `offline-sync.ts`, `offline-db.ts`, `dashboard-layout.tsx` | browser queue, audit rows by action id, version of a file | queue, retry, discard, send in chunks, apply, match answers | file rows, deletion | lost requests and answers, tabs sharing one queue, duplicates in flight | at most once; only on the version seen; nothing confirmed that was not done |
| Public links `handle_public_share_links.go`, `share_revocation.go` | link rows: state, limit, count, times | create, look up, claim a use, close | revocation, deletion | a use is claimed long after the look-up; concurrent last uses | limits and terms hold when the use is counted; closed stays closed |
| Direct shares and revocation `handle_file_share.go`, `handle_file_revoke.go`, `handle_access.go` | key rows, audit rows | share, revoke, revoke everything, summary, timeline | links, deletion | several statements of one transaction; a summary from several reads | nothing that existed survives; history adds up |
| File deletion `handle_file_delete.go` | stored file, row | delete | all of the above | two resources | neither is served afterwards |
| Upload, download, versions `handle_files.go`, `handle_file_download.go`, `handle_file_versions.go` | stored file, row, key row, versions | upload, download, restore | folders, groups | disk, row and key in turn, with compensation | no row without its file and key |
| Secure Drop, file requests `handle_drop.go`, `handle_file_requests.go`, `drop-upload.tsx`, `FileRequestPage.tsx` | upload tokens, counts; the visitor's queue, outcomes and receipt | create, upload, finish, seal, delete; choose, drop, retry | storage, folders, events | limits read before a long upload, counted after; answers lost; two batches on one page | what a visitor is told is stored; no second copy; limit and sealing in turn |
| Groups `handle_groups.go`, `handle_group_members.go` | members, group shares | add, remove, share, unshare | access summary, history | membership race; whose history records | only members read; the owner's history is whole |
| Folders `handle_folders.go`, `handle_folder_share_links.go`, `folder-share-sync.ts`, `PublicFolderSharePage.tsx` | tree, collaborators, folder links with keys per file, the owner's copy of a link's key | create, move, share, sync keys, archive | files, links, uploads | moves against each other; key sync against moves and revocation; pasted URLs | keys only of files that were inside, which the URL opens; archives whole |
| Vault session, preview `SessionVaultProvider.tsx`, `FilePreviewModal.tsx`, `files.tsx` | credential, private key, file keys, their copies in sessionStorage, search index | type, cache, restore, preview, download, lock | uploads, links | awaits overtaken by a lock, a reload or another file | keys open their files; nothing cleared comes back; locked means empty |
| Live events, rooms `handle_events.go`, `handle_rooms.go` | channel per user or room, in memory | ticket, connect, broadcast | every mutation | second connection replaces the first; full buffers | a connected owner is told |
| Admission `middleware_ratelimit.go`, `middleware_actor.go` | counters, agent keys | count, authorise | every request | counters shared by goroutines | limits hold |
| Release installer `deploy/release/release_installer.py` | service, binary, schema, backup | preflight, stop, migrate, replace, start, probe | database, systemd | signals and failures between irreversible steps | one release in service, never the old binary on the new schema; a way back |
| Frame `main.go`, `config.go`, `json*.go`, `spa.go`, listings | none | routing, reading | all | none | stateless |

## Modules

| Module | Stands for |
|---|---|
| `CustodianQuorum` | what recovery promises: an attempt opens once, counts votes of its electorate, recovers only with a quorum |
| `Recovery` | the transactions of recovery, refines `CustodianQuorum` |
| `RecoveryAnswers` | `Recovery` with every answer of a start request, rollbacks included |
| `Credentials` | one account's row, devices, tokens, an administrator and a recovery |
| `VersionedEdits` | what offline editing promises: an edit at most once and on the version its author saw |
| `OfflineSync` | queue, tabs, network and server, refines `VersionedEdits` |
| `LinkAllowance` | what a public link promises: opens once, used within a fixed limit, never reopens |
| `ExternalAccess` | one file with its keys, links, fetches, revocations and deletion; the links refine `LinkAllowance` |
| `PublicUploads` | the pages of visitors without an account and the handlers that store what they post |
| `VaultSession` | one tab's cached credential and keys, the previews and downloads that use them, the lock |
| `FolderLinks` | folders, the owner's uploads, the links of a folder with their keys, the visitor's page |
| `ReleaseInstaller` | runs of the installer, goose, the service, the host and its operator |
| `*_proofs` | the theorems about each of these, but for the abstract ones and `RecoveryAnswers` |
| `MC*` | the instances that TLC checks |

**What a step is.** A handler that works in one transaction under locks is one action. Where the
code commits, returns to a client, or takes several statements whose effects others can observe,
each part is an action of its own: login and the insertion of its refresh token, the two writes of
an administrator's reset, a device building a request and the server storing it, a tab marking and
sending a chunk, the look-up, opening and claim of a link, the two statements of a revocation of
everything (which keep row locks until the commit). An operation that is refused, or fails and
rolls back, changes nothing and is a stuttering step, unless a property is about its answer.
Comments with `mutant:` mark variants of a definition as a plausible bug would make it; the runs
must fail with them, and no action uses them.

**Recovery.** `status`, `request`, `due` and `approval` are the columns of the two tables of
`sql/schema/050_recovery_attempt_capabilities.sql`; `config` joins the threshold of `users` with
`account_recovery_shares` and remembers which save made them. Capabilities and challenges are
256-bit secrets and are left out: `offered` keeps which custodian has read which challenge. Time is
`due`, the set of attempts past their expiry. Parts are two opaque values, so that a replacement
shows. Start requests answered with 409 or with a decoy are stuttering in `Recovery` and explicit
in `RecoveryAnswers`. Reset requests need the capability, which only the owner holds.

**Credentials.** There is one private key, so a wrapped key is known by what opens it and by its
format version. A device caches the wrapped key of its session and computes with it later: `op`
is what it has under way, made from what it knew when it began. `staleRepair` and `overtaken`
are history, set in the interleavings that the properties exempt by name. The PIN lock ends by
time (`PinLockExpires`).

**OfflineSync.** The queue is shared by the tabs; a tab reads what is ready, marks a chunk before it
sends it, and applies each answer in a step of its own. The network may lose a request or its
answer, and delay either. The server takes one edit of a request at a time: `BeginAction` takes the
advisory lock of the action id, `FinishAction` decides and commits. `WebLocks` says whether the
browser has `navigator.locks`; the code runs without. Chunks are at most `MaxActions`, 100 in the
code.

**ExternalAccess.** `Claim` is `claimPublicShareUse`, `CloseLink` is `closeOwnedShareLink`;
`BeginRevokeAll`, `DeleteKeys`, `CloseLinks`, `CommitRevokeAll` are the steps of
`handlerRevokeAllExternalAccess`: rows that a statement has changed stay locked (`LockedKeys`,
`LockedLinks`) and look unchanged to others until the commit, which may report an error though it
happened. A time on a link is one of three positions of the clock. A limit of 0 is none, and stands
for the negative limits, which the handler takes and treats in the same way. `hadKeys`
and `hadLinks` are history. Groups and folders are left out of this file's access.

**PublicUploads.** One action of `server` is a statement of a handler: admit, save the bytes, write
the row, write the key, count, seal; each but the first may fail, with the compensation the code
tries, which may fail too. `answer` is what reaches the page; `Settle` also ends a request without
it, while the handler runs on. Both pages run one protocol, so they share the actions; what differs
(the drop page reads its link again, the file request page selects before it sends) is guarded by
`Drop` and `Request`. A second selection or drop may start a batch while another is at work: `merged`
names that case, in which the pages' shared queue mixes both, and `overlap` names the uploads that
were admitted before another was counted. `TermsHoldInTurn` and the claim of a delivery except them,
since the code takes no lock there.

**VaultSession.** An await is a step: the encryption of a credential for `sessionStorage` (`write`),
the restore after a reload, the key, worker and digest of a preview (`run`), the fetch and decryption
of a download. A generation or version that is compared after the await is not kept: what it
overtakes is removed where the number changes. What is not compared stays: `late` digests, the PIN
timer, downloads that outlive the lock, the write of the private key's own copy (`pemWrite`).
`stray` says what such steps have put back behind the lock: the words of a digest in the index, the
private key in `sessionStorage`. A digest also shows its SHA-256 in the modal, whichever file the
modal names by then, as long as it is the same mounted modal (`late` keeps whether it is): `sha` is
the file whose digest is shown, `hashedBy` whether the load that showed it was overtaken.

**FolderLinks.** `link` joins the rows of `folder_share_links` and `folder_share_file_keys`; a key
wrapped under the fragment of link l is written l, so that a wrong fragment shows. A revoked and an
expired link serve nothing and are both `over`. `run` is the synchronisation under way (a page keeps
at most one), `maker` the dialogue that creates a link, `page` the visitor's. Every request may fail
before or after it is stored. The parents of folders may form a cycle, since the server refuses only
a folder as its own parent: `Ends` says which recursive queries end, and `Climbs` which loops of
the page. What is inside a folder is asked in two queries outside a transaction, the folders below it
and then the files in those: they are two steps in the listing of the owner, in the creation and the
synchronisation of a link and in the page's list, and anything may move between them; the inserts of
keys are a step each. In the page's list the rows of the folders, the key rows and the files are one
step. A request of a page that is left breaks with its context (`r.Context()`). `seen` and `ever` are
history: the folders that have been inside the folder of a link since the link was stored, and the
files that have been in one of them. Names are not modelled: `tree` is the list of a page by path, a
set of files under each, since names need not be unique and may contain a slash; `entries` is the ZIP,
where a file takes the place of one of its path, and `got` what the page counts.

**ReleaseInstaller.** `run[r].at` is how far a run has come in `main`: every line that changes the
host is a step, and the reading between them is part of the next. An error, SIGINT and SIGTERM are
`Fail`, which leads to the clean-up of `ensure_service_state`; a signal without a handler, or a
second one during the clean-up, is `Die`. Goose is a process: a failing installer kills it, its
transaction being committed or not, and a killed one leaves it behind (`goose`, with `late` for a
migration that then commits). `Reboot` starts what is installed, because `systemctl stop` does not
disable the unit. The operator starts the service or goes back to a backup while no run lives.
`unsaved` says whether anything was written since the last dump, `starter` who started the service.

## Runs

| Run | Instance | Shows |
|---|---|---|
| `recovery` | 3 accounts, 2 attempts, 2 parts, up to 2 custodians, 2 saves | the safety properties and the refinement |
| `recovery_answers` | the same | violation: a decoy answer rolls back the expiry it made |
| `credentials` | 2 devices, 2 chosen passwords, 1 assigned, 1 PIN, lock at 2, 1 recovery | the five invariants |
| `credentials_repair` | the same | violation: a PIN repair overtaken by a password change |
| `offline_sync` | 2 edits of one file, 2 tabs, 3 requests, 1 retry each, locks between tabs | the invariants and the refinement |
| `offline_sync_live` | 1 edit, 2 tabs without locks, 3 requests, 2 retries | every request that arrives is answered |
| `external_access` | 2 links, 2 requests, 1 recipient, limit up to 1, 2 grants | limits, terms, revocation, history, refinement |
| `public_uploads` | 2 files, 2 batches, limit up to 1, both pages | truth of what the visitor is told, terms in turn, no second copy, every batch ends |
| `vault_session` | 2 files of different kinds, 2 credentials, 2 loads | secrets are current, the locked vault empties, the preview shows its file |
| `folder_links` | 2 files, 2 links; 2 folders with all actions and 3 changes, or 3 folders with the making of a link and 4 | keys of what was inside, opened by the URL, whole archives, uploads told truly |
| `folder_rename` | the same | violation: a rename moves the folder to the top |
| `release_installer` | 3 runs, 2 builds | one release in service, a way back |

**Why the bounds are enough.** Three accounts give an owner with a quorum of two and allow two
owners to guard each other; two attempts give an overdue attempt beside a new one; a second save
changes the configuration under an attempt. Two devices give every overtaking, two passwords a
change away and back. Two edits of one file conflict, and three requests give an original, a
duplicate in flight and a retry. Two requests race for the last use of a link, or revoke everything
against each other, while a third party (the owner) closes one link; one recipient granted twice shows a
key given again after a revocation began. Two files and two batches make a batch with one stored and
one failed file, a retry, and two batches at once; a limit of 1 is passed by the second file. Two
files of different kinds make a credential right for one and wrong for the other; two loads let one
be overtaken by the other, by the lock or by a reload. Two folders are a folder and one below it, or
a cycle; two links of them have wrong URLs for each other, and three changes move a file out, back
and away while keys are made. A third folder and a fourth change (the scope `Making` of
`MCFolderLinks`, beside `Busy`) take a folder out of a link's between two queries and a file into it.
Three runs of the installer are one that dies, a retry that fails differently, and a third on what
both have left; two builds tell whose binary and frontend are installed. `MaxSaves`, `MaxRecoveries`, `MaxSends`, `MaxRetries`,
`MaxGrants`, `MaxLoads` and `MaxBegun` bound only how long a run goes on, and `MaxDownloads` the limits; the other constants are sizes of
the environment. Symmetry is used in runs without liveness, over values the model treats alike.
`CHECK_DEADLOCK FALSE` stands where the instance ends: attempts, requests or tokens, which are
never reused, are used up. `MCVaultSession` restricts the initial states to two kinds of files.
`MCFolderLinks` restricts them to its two scopes (in `Busy` the third folder, `Spare`, was deleted
before; a change spent at the start leaves it three of `MaxBegun`), to one file still to be uploaded
and to older files whose keys are wrapped under the private key; the keys of the PIN and of the
password come with uploads. In `Making` its action constraint `Scope` leaves out uploads,
synchronisation and the page, which `Busy` has.

**Fairness.** `offline_sync_live` assumes weak fairness of each request's server handler (`LiveSpec`).
A handler that has begun runs on, since a Go handler and PostgreSQL's lock queue do
not stop by themselves; nothing is assumed of tabs, of the owner or of the network, which may stop
or lose anything. The property therefore speaks of requests that arrived. `public_uploads` assumes
weak fairness of each batch's own steps (`BatchStep`): the browser ends every encryption and every
request, by an answer, an error or its timeout of 30 minutes. Nothing is assumed of the server or
of the visitor, so `BatchesSettle` holds with handlers that never answer. The other runs check
safety only.

## Where code and documentation differ

Each is a violation run of one property that states the quoted sentence; `PROJECT.json` "findings"
has the lines.

- A start request answered with a decoy undoes the expiry it made, so overdue parts stay stored.
- A PIN repair overtaken by a password change stores the key under the old password.
- The rename of a folder sends no parent, which the server takes for the root: a renamed subfolder
  leaves the links of the folders above it.

Met while modelling, and not given a run:

- `createUserAsAdminHandler` (`handle_admin.go:319`) stores key version 0, which no handler takes:
  the PIN of such an account is always refused.
- An account of version 1 with an assigned password cannot log in (`handle_login.go:68`), so the
  forced-change screen that would accept the previous password is never reached.
- The access summary (`handle_access.go:221`) is several reads outside a transaction; "Only you" may
  describe no moment of the request.
- A retry of the installer is refused while the service is stopped, which is how a failed run leaves
  it: the operator first has to start what is installed, which after a failure between migration and
  replacement is the old binary on schema 50 (`release_installer.py:557`; its README says "From 50,
  treat the run as a retry"). A restart of the host does the same by itself.
- The words of a digest that ends after the lock stay in the index (`FilePreviewModal.tsx:318`); a
  PIN timer fires after its modal has gone (`FilePreviewModal.tsx:684`); the private key's copy in
  `sessionStorage` is written without a version (`SessionVaultProvider.tsx:66`), so it can be there
  again after the lock has removed it (`:133`).
- The digest of a large file can end after a smaller one has been opened in its place, and shows its
  SHA-256 under that file's name (`FilePreviewModal.tsx:310`).
- A folder moved out of a shared one between the query of the folders and that of their files
  (`handle_folder_share_links.go:200-209`, `425-434`, `502-508`) still counts, so a file moved into it
  meanwhile gets a key of the link.
- Two files of a shared folder with the same name become one entry of its ZIP, though both are counted
  (`PublicFolderSharePage.tsx:486`).
- The receipt of a Secure Drop page is replaced by an error page when its link is read again after
  the last allowed upload (`drop-upload.tsx:212`).
- A folder link revoked meanwhile still takes keys, and a file moved out of a shared folder is still
  downloaded by its key row, though it is no longer listed.

The passing properties name these cases as exceptions where they bear on them (`staleRepair` in
`KeyFollowsPassword`, `overtaken` in `OldTokensOnlyFromOvertakenLogins`, `overlap` and `merged` in `PublicUploads`, `stray` in
`LockedVaultEmpties` for words and for the private key, `hashedBy` in `ShownIsTheFile`, the files of
every folder `seen` in `KeysWereInside`, files that share a path in `ArchiveIsWhole`, `late` in
`LeavesOneRelease`).

## Proofs

The theorems hold for every value of the constants that meets the named assumptions of the modules
(finite sets of accounts, recipients, links, requests, items and folders; sentinels that are no ordinary values; natural bounds).

`Recovery_proofs`. The inductive invariant `IInv` adds to the checked invariants that custodians
are accounts other than the owner, that an active attempt has its owner's configured threshold, and
that every stored part has been audited: without these a quorum counted in rows says nothing of
custodians or of the audit trail. `Inductive` proves it; all its safety properties follow
(`Bound`, `Erased`, `Recovered`, `NeverReplaced`, `ByStandingCustodians`,
`TypeCorrect`); `AuditExact` adds that the trail has one recovery for each attempt spent, as long as
the account is there, and none for another; and `Implements` maps every step to one of `CustodianQuorum` or to stuttering.

`Credentials_proofs`. The strengthening is that a login no recovery overtook has read the row of
the present one (`LoginsAreCurrent`). All five invariants of the run follow. `StaysMigrated`, of
steps: the wrapped keys of a migrated account never return to the old format.

`ExternalAccess_proofs`. The invariant adds that a fetch past its look-up has a link, that an open
link is strictly below its limit and a token without a row has no use (so that a use can close a
link exactly at its limit), that each served fetch is one of the uses counted, and, for revocations, that
from each statement on the transaction holds every row that was there when it was received and
still is, where no key is newer than the last grant. From it: `AllowanceKept`,
`ServedOnTerms`, `RevocationCloses`, and `LinksImplement` for `LinkAllowance`. What the history counts
(`HistoryComplete`) needs an invariant of its own, `Ledger`: the rows a revocation of everything has
locked are there until it commits, and no row is locked by two; so the sets that it adds to the
counts are disjoint from all counted before. `DeletionCloses` says that nothing is given of a file
whose row is gone, and `ServesNothingClosed`, of steps, that a fetch that had found its link is
not served once the file is deleted or a revocation of everything has ended.

`OfflineSync_proofs`. Everything in flight carries what a tab once read: `IInv` says that each send,
request and answer is of an edit as it was queued (`EditsKnown`, `UnderWayKnown`), that an answer was
made by the one handler of its request (`MadeByOne`), and that the audit row and the version of the
file bear it out for ever (`AnswersHold`, `ResultsThere`), though entries are discarded, retried and
sent twice meanwhile. From it: `AnswersTrue`, and `EditsImplement` for `VersionedEdits`. A second
invariant, that one tab sends under the browser's lock and sends only what is marked, gives
`SentAsAsked` where `WebLocks` holds. `EditsNeverOverwrite`: of all edits of one version of a file one
takes effect, since a version that was replaced (`ReplacedForGood`) is never current again.

`ReleaseInstaller_proofs`. One run lives (`OneLives`); the old build is installed as long as the
schema is 49 (`OldOn49`); each stage has reached what the code before it did (`Reached`), with the
service stopped and everything saved (`Quiet`); a migration begins after its boundary and its
backup, and before the boundary the schema is as it was found, unless a migration came late
(`Bounded`); the first backup of all is whole (`Backed`). From it: `OneRelease` and `AlwaysBack`, and, of steps,
that no backup is written over and no ended run moves (`NoBackupLost`), and that a run verified has
its own build installed and in service as a whole, though its proofs do not look at the binary
(`VerifiedHolds`).

`PublicUploads_proofs`. The stage of a handler and the answer it gave agree with what is stored
(`HandlersKnow`); the page tells success only with a receipt and an error only of an item nothing was
sent of (`OutcomesTold`); an item is held by one run or selection at a time (`RunsShaped`,
`HeldOnce`), and by one batch while nothing is merged (`OneBatch`); the count of the link is of the
keys made through it, but for those just written, while uploads come in turn (`TermsCounted`). From
it: `ClaimsTrue`, `TermsHeld`, `NoSecondCopy`, and `ReceiptsTrueForGood`: what a receipt was given for
stays stored, whatever is sent, fails or is closed later. The items are finitely many, as those of a page are.

`VaultSession_proofs`. The copy in `sessionStorage` and the write of one under way are of the present
credential, and a copy nobody has read yet exists only while it is being restored (`CopyHolds`);
once the lock is drawn only a download can put something back, but for a late digest's words and a
late private key (`BehindShutter`); the load and the timer that count are of the file the modal shows,
and a load about to show has put its SHA-256 there, unless an overtaken one wrote over it (`OneFile`);
what is submitted was typed (`Typed`).
All the properties of the run follow.

`FolderLinks_proofs`. Rows point at rows that are there, a link holds only its own key, the folders
below its own are in `seen` and the files in those in `ever` (`RowsRight`); folders read in the first
of two queries were `seen`, so that files read in the second are in `ever`, however late; the files of
one path are disjoint from those of another, and a path of which a file was added keeps an entry
(`PackedRight`); the upload, the synchronisation, the making of
a link and the archive under way each carry what they once read, with what the others keep of it
(`UploadRight`, `RunRight`, `MakerRight`, `PageRight`): a link does not come back, keeps its folder
and its copy (`LinksKept`), and files are stored by the upload alone (`FilesKept`). From it:
`WereInside`, `UrlOpens`, `ArchiveWhole`, `UploadsTold`, and, of steps, `LinksStay`: a link that ended
never comes back, none leads to another folder, and the owner's copy is never replaced. What `Above` computes by climbing the parents
is not needed, only that history and listing climb alike.

**Only model-checked.** The liveness properties `RequestsAnswered` and `BatchesSettle`: liveness under
fairness and ENABLED are outside the prover. Every invariant and action property of the runs that
pass is stated by a theorem. The theorems `AuditExact`, `DeletionCloses`, `ServesNothingClosed`,
`EditsNeverOverwrite`, `StaysMigrated`, `LinksStay`, `ReceiptsTrueForGood`, `NoBackupLost` and
`VerifiedHolds` state properties of their own, defined beside them, that no run checks. Induction over
data is outside the prover too; no module declares a RECURSIVE operator.

## Not modelled, and the plan

In the order of what is most likely to go wrong unnoticed:

1. Groups (`handle_groups.go`, `handle_group_members.go`): a membership that ends while its shares
   are used or granted, and whose history records it; they would extend the access of
   `ExternalAccess`.
2. Live events and rooms (`handle_events.go`, `handle_rooms.go`): a replaced connection whose end
   removes its successor, and full buffers. They only prompt a page to read again.
3. Collaborators of a folder (`handle_folder_shares.go`), the creation of nested folders by one
   upload, and the PIN counter of a Secure Drop link.

Administration beyond the resets, settings and onboarding are forms over single statements, rate
limits and agent keys one decision on one counter each: little can go wrong there that a test does
not reach. File versions are dormant: no code makes one but the restore of one, which no page calls.
The access summary, timeline and listings only read. A failed deletion that leaves a row without its
bytes is a state of `ExternalAccess` ("unlinked"), in which nothing is served.

Left out for good: cryptography (keys and parts are opaque values with a rule for who opens them),
SQL text and generated code (statements are part of the actions), listings and search (they only
read), routing, headers, wording and layout, and the client's screens without a protocol of their own.
