---------------------------- MODULE OfflineSync ----------------------------
(***************************************************************************)
(* Edits made offline by one owner: the queue that the tabs of a browser   *)
(* share (utils/offline-db.ts), the sync loop of each tab                  *)
(* (dashboard-layout.tsx with utils/offline-sync.ts), and the transactions *)
(* of applySyncAction (handle_sync.go), over a network that loses and      *)
(* delays requests and answers.  An edit is known by its action_id; the    *)
(* new_hash of a rename is fresh, so the version it makes has that name.   *)
(***************************************************************************)
EXTENDS Naturals, FiniteSets

CONSTANTS Actions,    \* action ids, each a fresh UUID
          Files,
          Tabs,
          Initial,    \* the version of a file never renamed
          Gone,       \* in place of the version of a deleted row
          NoAction,
          WebLocks,   \* whether the browser has navigator.locks
          MaxActions, \* edits per request (100 in the code)
          MaxSends,   \* bound of the model: requests ever sent
          MaxRetries  \* bound of the model: retries of one edit

ASSUME NamesAssumption ==
  {Initial, Gone, NoAction} \intersect Actions = {} /\ Initial # Gone
ASSUME BoundsAssumption ==
  WebLocks \in BOOLEAN /\ {MaxActions, MaxSends, MaxRetries} \subseteq Nat \ {0}

VARIABLES version,  \* server: per file, files.parent_hash or Gone
          applied,  \* server: action ids of audit_logs
          intent,   \* per queued edit, what it asks
          queue,    \* per action, the status of its entry, or how it left the queue
          tab,      \* per tab, its run of performSync
          request,  \* per request sent, its progress on the server
          sent,     \* requests sent so far
          sends,    \* per action, requests that carried it
          retries   \* per action, times the owner asked for another

vars == <<version, applied, intent, queue, tab, request, sent, sends, retries>>

Requests == 1..MaxSends
Held == {"pending", "unknown", "failed", "conflict"}
Refusals == {"not_found", "version_conflict"}
Codes == Refusals \union {"success", "unavailable", "outcome_unknown"}
Replies == UNION {[S -> Codes] : S \in SUBSET Actions}
Resting == [at |-> "idle", ready |-> {}, chunk |-> {}, req |-> 0]
Unsent == [state |-> "unsent", todo |-> {}, doing |-> NoAction, answers |-> [a \in {} |-> ""]]

TypeOK ==
  /\ version \in [Files -> Actions \union {Initial, Gone}]
  /\ applied \subseteq Actions
  /\ DOMAIN intent \subseteq Actions
  /\ \A a \in DOMAIN intent :
        intent[a] \in [file : Files, type : {"rename", "delete"}, base : Actions \union {Initial}]
  /\ queue \in [Actions -> Held \union {"new", "confirmed", "discarded"}]
  /\ tab \in [Tabs -> [at : {"idle", "ready", "marked", "sent", "applying"},
                       ready : SUBSET Actions, chunk : SUBSET Actions, req : 0..MaxSends]]
  /\ request \in [Requests -> [state : {"unsent", "sent", "lost"}, todo : SUBSET Actions,
                               doing : Actions \union {NoAction}, answers : Replies]]
  /\ sent \in 0..MaxSends
  /\ sends \in [Actions -> 0..MaxSends] /\ retries \in [Actions -> 0..MaxRetries]

Init ==
  /\ version = [f \in Files |-> Initial]
  /\ applied = {}
  /\ intent = [a \in {} |-> Initial]
  /\ queue = [a \in Actions |-> "new"]
  /\ tab = [t \in Tabs |-> Resting]
  /\ request = [r \in Requests |-> Unsent]
  /\ sent = 0
  /\ sends = [a \in Actions |-> 0]
  /\ retries = [a \in Actions |-> 0]

server == <<version, applied>>
counts == <<sent, sends, retries>>

-----------------------------------------------------------------------------
(* The owner. *)

\* Versions of f that some inventory of the browser may still show.
SeenVersions(f) == {Initial} \union {b \in applied : intent[b].file = f}

\* queueOfflineAction.
Enqueue(a, f, type, base) ==
  /\ queue[a] = "new"
  /\ base \in SeenVersions(f)
  /\ intent' = [b \in DOMAIN intent \union {a} |->
                  IF b = a THEN [file |-> f, type |-> type, base |-> base] ELSE intent[b]]
  /\ queue' = [queue EXCEPT ![a] = "pending"]
  /\ UNCHANGED <<server, tab, request, counts>>

\* retryOfflineAction; the sync it then asks for may find the lock taken.
Retry(a) ==
  /\ queue[a] \in Held \ {"pending"}
  /\ retries[a] < MaxRetries
  /\ queue' = [queue EXCEPT ![a] = "pending"]
  /\ retries' = [retries EXCEPT ![a] = @ + 1]
  /\ UNCHANGED <<server, intent, tab, request, sent, sends>>

\* discardOfflineAction.
Discard(a) ==
  /\ queue[a] \in Held
  /\ queue' = [queue EXCEPT ![a] = "discarded"]
  /\ UNCHANGED <<server, intent, tab, request, counts>>

\* reconcileOfflineRename: the entry is compared with a file list, which may
\* be of before the latest changes, or cannot be had.
Reconcile(a) ==
  /\ queue[a] \in Held \ {"pending"}
  /\ intent[a].type = "rename"
  /\ \/ version[intent[a].file] = a /\ queue' = [queue EXCEPT ![a] = "confirmed"]
     \/ \E s \in {"failed", "unknown"} : queue' = [queue EXCEPT ![a] = s]
  /\ UNCHANGED <<server, intent, tab, request, counts>>

-----------------------------------------------------------------------------
(* The sync loop of a tab. *)

\* performSync, alone among the tabs if the browser has locks.
StartSync(t) ==
  /\ tab[t].at = "idle"
  /\ WebLocks => \A u \in Tabs : tab[u].at = "idle"
  /\ LET ready == {a \in Actions : queue[a] = "pending"}
     IN ready # {} /\ tab' = [tab EXCEPT ![t] = [Resting EXCEPT !.at = "ready", !.ready = ready]]
  /\ UNCHANGED <<server, intent, queue, request, counts>>

Chunks(ready) ==
  {S \in SUBSET ready : S # {} /\ (S = ready \/ Cardinality(S) = MaxActions)
                        /\ Cardinality(S) <= MaxActions}

\* The status an entry has while its request is out.
StatusKept(a) == queue[a]   \* mutant: the entry is not marked before the request
StatusSending(a) == "sending"   \* mutant: a status the review does not list
StatusMarked(a) == "unknown"

\* The entries of a chunk are marked before their request is sent.  One that
\* another tab has discarded makes the run fail, after the others are marked.
MarkChunk(t) ==
  /\ tab[t].at = "ready"
  /\ \E S \in Chunks(tab[t].ready) :
        LET present == {a \in S : queue[a] \in Held} IN
          /\ queue' = [a \in Actions |-> IF a \in present THEN StatusMarked(a) ELSE queue[a]]
          /\ tab' = [tab EXCEPT ![t] =
                      IF present = S THEN [@ EXCEPT !.at = "marked", !.chunk = S] ELSE Resting]
  /\ UNCHANGED <<server, intent, request, counts>>

SendChunk(t) ==
  /\ tab[t].at = "marked"
  /\ sent < MaxSends
  /\ sent' = sent + 1
  /\ request' = [request EXCEPT ![sent'] = [Unsent EXCEPT !.state = "sent", !.todo = tab[t].chunk]]
  /\ sends' = [a \in Actions |-> IF a \in tab[t].chunk THEN sends[a] + 1 ELSE sends[a]]
  /\ tab' = [tab EXCEPT ![t].at = "sent", ![t].req = sent']
  /\ UNCHANGED <<server, intent, queue, retries>>

Answered(r) == request[r].state = "sent" /\ request[r].todo = {} /\ request[r].doing = NoAction

\* The response arrives, with one result for each edit of the chunk.
ReceiveResponse(t) ==
  /\ tab[t].at = "sent"
  /\ Answered(tab[t].req)
  /\ tab' = [tab EXCEPT ![t].at = "applying"]
  /\ UNCHANGED <<server, intent, queue, request, counts>>

\* The fetch fails, or the tab is closed at any point of the run.
AbandonSync(t) ==
  /\ tab[t].at # "idle"
  /\ tab' = [tab EXCEPT ![t] = Resting]
  /\ UNCHANGED <<server, intent, queue, request, counts>>

\* What matchOfflineSyncResults makes of a result, as the entry's next status.
OutcomeIfGone(code) ==   \* mutant: a file that is not there counts as deleted
  CASE code \in {"success", "not_found"} -> "confirmed"
    [] code = "outcome_unknown" -> "unknown"
    [] code = "version_conflict" -> "conflict"
    [] OTHER -> "failed"
Outcome(code) ==
  CASE code = "success" -> "confirmed"
    [] code = "outcome_unknown" -> "unknown"
    [] code = "version_conflict" -> "conflict"
    [] OTHER -> "failed"

\* One result is stored in the queue: a confirmed entry is removed, another is
\* updated.  To update an entry already discarded makes the run fail.
ApplyOutcome(t, a) ==
  /\ tab[t].at = "applying"
  /\ a \in tab[t].chunk
  /\ LET next == Outcome(request[tab[t].req].answers[a])
         left == tab[t].chunk \ {a}
         ready == tab[t].ready \ {a}
     IN /\ queue' = [queue EXCEPT ![a] = IF @ \in Held THEN next ELSE @]
        /\ tab' = [tab EXCEPT ![t] =
             IF ready = {} \/ (next # "confirmed" /\ queue[a] \notin Held) THEN Resting
             ELSE IF left = {} THEN [Resting EXCEPT !.at = "ready", !.ready = ready]
             ELSE [@ EXCEPT !.chunk = left, !.ready = ready]]
  /\ UNCHANGED <<server, intent, request, counts>>

-----------------------------------------------------------------------------
(* The server: each edit of a request is a transaction of its own. *)

\* A request never arrives.
LoseRequest(r) ==
  /\ request[r].state = "sent"
  /\ request[r].doing = NoAction /\ request[r].answers = Unsent.answers
  /\ request' = [request EXCEPT ![r].state = "lost"]
  /\ UNCHANGED <<server, intent, queue, tab, counts>>

\* The request once edit a has its result; the transaction's locks are free.
WithAnswerKeepingLock(r, a, code) ==   \* mutant: only a commit ends the transaction
  [request EXCEPT ![r].todo = @ \ {a},
                  ![r].doing = IF code = "success" THEN NoAction ELSE a,
                  ![r].answers = [b \in DOMAIN @ \union {a} |-> IF b = a THEN code ELSE @[b]]]
WithAnswer(r, a, code) ==
  [request EXCEPT ![r].todo = @ \ {a},
                  ![r].doing = NoAction,
                  ![r].answers = [b \in DOMAIN @ \union {a} |-> IF b = a THEN code ELSE @[b]]]

\* pg_advisory_xact_lock on the action id.
Unlocked(a) == TRUE   \* mutant: the identity is not locked
LockFree(a) == \A r \in Requests : request[r].doing # a

\* The transaction begins: it locks the action id and looks for it in the
\* audit log, where an edit already made is confirmed.
BeginAction(r, a) ==
  /\ request[r].state = "sent" /\ request[r].doing = NoAction
  /\ a \in request[r].todo
  /\ LockFree(a)
  /\ \/ a \in applied /\ request' = WithAnswer(r, a, "success")
     \/ a \notin applied /\ request' = [request EXCEPT ![r].doing = a]
     \/ request' = WithAnswer(r, a, "unavailable")
  /\ UNCHANGED <<server, intent, queue, tab, counts>>

\* The version an edit asks for against the one of the locked row.
VersionIgnored(a) == version[intent[a].file] # Gone   \* mutant: the version is not compared
VersionCurrent(a) == version[intent[a].file] = intent[a].base

\* The rest of the transaction, which holds the row's lock: the edit and its
\* audit row are stored together, refused, or rolled back.  A commit that
\* reports an error may have happened.
FinishAction(r) ==
  LET a == request[r].doing
      file == intent[a].file
      stored == /\ version' = [version EXCEPT ![file] =
                                IF intent[a].type = "rename" THEN a ELSE Gone]
                /\ applied' = applied \union {a}
  IN /\ a # NoAction
     /\ \/ version[file] = Gone /\ request' = WithAnswer(r, a, "not_found") /\ UNCHANGED server
        \/ /\ version[file] # Gone /\ ~VersionCurrent(a)
           /\ request' = WithAnswer(r, a, "version_conflict")
           /\ UNCHANGED server
        \/ VersionCurrent(a) /\ request' = WithAnswer(r, a, "success") /\ stored
        \/ /\ VersionCurrent(a)
           /\ request' = WithAnswer(r, a, "outcome_unknown")
           /\ stored \/ UNCHANGED server
        \/ request' = WithAnswer(r, a, "unavailable") /\ UNCHANGED server
     /\ UNCHANGED <<intent, queue, tab, counts>>

\* handlerDeleteFile of a client that is online.
DeleteOnline(f) ==
  /\ version[f] # Gone
  /\ version' = [version EXCEPT ![f] = Gone]
  /\ UNCHANGED <<applied, intent, queue, tab, request, counts>>

Owner ==
  \/ \E a \in Actions : Retry(a) \/ Discard(a) \/ Reconcile(a)
  \/ \E a \in Actions, f \in Files, type \in {"rename", "delete"}, base \in Actions \union {Initial} :
        Enqueue(a, f, type, base)
  \/ \E f \in Files : DeleteOnline(f)

Tab(t) ==
  \/ StartSync(t) \/ MarkChunk(t) \/ SendChunk(t) \/ ReceiveResponse(t) \/ AbandonSync(t)
  \/ \E a \in Actions : ApplyOutcome(t, a)

Server(r) == FinishAction(r) \/ \E a \in Actions : BeginAction(r, a)

Next ==
  \/ Owner
  \/ \E t \in Tabs : Tab(t)
  \/ \E r \in Requests : Server(r) \/ LoseRequest(r)

Spec == Init /\ [][Next]_vars

\* A handler runs on, and PostgreSQL grants its locks in turn; nothing is asked
\* of the owner, the tabs or the network.
LiveSpec == Spec /\ \A r \in Requests : WF_vars(Server(r))

-----------------------------------------------------------------------------
\* An entry that leaves the queue as confirmed was made on the server, however
\* its requests, answers, retries and comparisons fell.
ConfirmedWasApplied == \A a \in Actions : queue[a] = "confirmed" => a \in applied

\* An edit is never refused for what it did itself: while one request of it
\* makes it, no duplicate is told of a conflict or of a missing file.
RefusedWasNotApplied ==
  \A r \in Requests : \A a \in DOMAIN request[r].answers :
     request[r].answers[a] \in Refusals => a \notin applied

\* What the owner is told of an edit is true: confirmed only what was made, and
\* refused only what no request of the edit has made.
AnswersAreTrue == ConfirmedWasApplied /\ RefusedWasNotApplied

\* Nothing is sent again unless the owner asked: with locks between tabs, a
\* request that was lost or abandoned leaves its edits held.
SentOnlyWhenAsked == WebLocks => \A a \in Actions : sends[a] <= 1 + retries[a]

\* Every request that arrives is answered: transactions that wait for each
\* other's action ids do not wait for ever.
RequestsAnswered ==
  \A r \in Requests : request[r].state = "sent" ~> Answered(r) \/ request[r].state = "lost"

\* OfflineSync does what VersionedEdits promises.
Edits == INSTANCE VersionedEdits WITH done <- applied

\* Each edit is made at most once, and on the version its author saw.
ImplementsEdits == Edits!Spec
=============================================================================
