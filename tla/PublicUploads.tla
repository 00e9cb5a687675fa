--------------------------- MODULE PublicUploads ---------------------------
(***************************************************************************)
(* Files sent without an account: the Secure Drop page (drop-upload.tsx)   *)
(* and the file request page (FileRequestPage.tsx) of one visitor, with    *)
(* the handlers that store what they post (handle_drop.go,                 *)
(* handle_file_requests.go), one POST per file.  A file queued by a page   *)
(* has a fresh id (crypto.randomUUID), so an item is queued once; a retry  *)
(* sends the same item again.  The order inside a batch is immaterial.     *)
(***************************************************************************)
EXTENDS Naturals, FiniteSets

CONSTANTS Items,    \* files as the pages queue them
          Loops,    \* bound of the model: runs of handleUpload
          MaxLimit, \* bound of the model: max_files of a link
          NoItem

ASSUME UploadsAssumption == IsFiniteSet(Items) /\ NoItem \notin Items /\ MaxLimit \in Nat

VARIABLES link,     \* the row of upload_tokens, or of file_requests
          server,   \* per item, how far the handler is with its last POST
          answer,   \* per item, the answer to its last POST
          blob, row, key,  \* items stored on disk, in files, in file_access_keys
          overlap,  \* history: a POST passed the checks over another unfinished
                    \* one, or the count or the seal of one was not written
          page,     \* what the visitor sees
          gathering,\* items of dropped folders still being read
          queue,    \* uploadQueueRef, which is also the rows shown
          outcome,  \* uploadOutcomesRef, "none" where it has no entry
          waiting,  \* rows shown as pending or uploading
          loop,     \* the runs of handleUpload
          merged    \* history: a batch began while another was at work

serverVars == <<link, server, answer, blob, row, key, overlap>>
pageVars == <<page, gathering, queue, outcome, waiting, loop, merged>>
vars == <<serverVars, pageVars>>

Stages == {"none", "sent", "admitted", "saved", "filed", "stored", "counted", "done"}
Answers == {"none", "receipt", "empty", "refused", "throttled", "failed"}
Outcomes == {"none", "success", "error", "rejected", "unknown", "cancelled"}
Drop == link.kind = "drop"
Request == link.kind = "request"
Working == {i \in Items : server[i] \in {"admitted", "saved", "filed", "stored", "counted"}}

\* What the owner can open: a file whose bytes, row and key are all there.
Openable == blob \intersect row \intersect key

\* The state of every variable is of the shape its code gives it.
TypeOK ==
  /\ link \in [kind : {"drop", "request"}, limit : 0..MaxLimit, seal : BOOLEAN,
               open : BOOLEAN, count : 0..Cardinality(Items)]
  /\ server \in [Items -> Stages] /\ answer \in [Items -> Answers]
  /\ {blob, row, key, queue, waiting} \subseteq SUBSET Items
  /\ gathering \subseteq SUBSET Items
  /\ page \in [at : {"loading", "form", "error", "left"}, uploading : BOOLEAN,
               delivered : BOOLEAN, checking : BOOLEAN]
  /\ outcome \in [Items -> Outcomes]
  /\ loop \in [Loops -> [at : {"unused", "next", "sent", "ended"},
                         todo : SUBSET Items, item : Items \union {NoItem}, won : BOOLEAN]]
  /\ {overlap, merged} \subseteq BOOLEAN

Init ==
  /\ link \in [kind : {"drop"}, limit : 0..MaxLimit, seal : BOOLEAN, open : {TRUE}, count : {0}]
        \union [kind : {"request"}, limit : {0}, seal : {FALSE}, open : {TRUE}, count : {0}]
  /\ server = [i \in Items |-> "none"] /\ answer = [i \in Items |-> "none"]
  /\ blob = {} /\ row = {} /\ key = {} /\ overlap = FALSE
  /\ page = [at |-> "loading", uploading |-> FALSE, delivered |-> FALSE, checking |-> TRUE]
  /\ gathering = {} /\ queue = {} /\ waiting = {} /\ merged = FALSE
  /\ outcome = [i \in Items |-> "none"]
  /\ loop = [l \in Loops |-> [at |-> "unused", todo |-> {}, item |-> NoItem, won |-> FALSE]]

-----------------------------------------------------------------------------
(* The server: handlerDropUpload and handlerFileRequestUpload.             *)

\* Mutant: the limit is compared with the count before this upload.
AtLimitInclusive == link.limit > 0 /\ link.count > link.limit
AtLimit == link.limit > 0 /\ link.count >= link.limit

\* middlewareRateLimitDropUpload answers 429 before the handler runs.
ThrottleDrop(i) ==
  /\ Drop /\ server[i] = "sent"
  /\ server' = [server EXCEPT ![i] = "done"] /\ answer' = [answer EXCEPT ![i] = "throttled"]
  /\ UNCHANGED <<link, blob, row, key, overlap, pageVars>>

\* The checks of the link, on the row read before the form is parsed.
AdmitDrop(i) ==
  /\ Drop /\ server[i] = "sent" /\ link.open /\ ~AtLimit
  /\ server' = [server EXCEPT ![i] = "admitted"]
  /\ overlap' = (overlap \/ Working # {})
  /\ UNCHANGED <<link, answer, blob, row, key, pageVars>>

RefuseDrop(i) ==
  /\ Drop /\ server[i] = "sent" /\ (~link.open \/ AtLimit)
  /\ server' = [server EXCEPT ![i] = "done"] /\ answer' = [answer EXCEPT ![i] = "refused"]
  /\ UNCHANGED <<link, blob, row, key, overlap, pageVars>>

\* The bytes go to disk, then the row, then the owner's key: each may fail, a
\* later failure removing the bytes and trying to delete the row.  A file that
\* failed is answered by a 201 that lists no file.
SaveDrop(i) ==
  /\ Drop /\ server[i] = "admitted"
  /\ \/ blob' = blob \union {i} /\ server' = [server EXCEPT ![i] = "saved"] /\ UNCHANGED answer
     \/ UNCHANGED blob /\ server' = [server EXCEPT ![i] = "done"]
        /\ answer' \in {[answer EXCEPT ![i] = a] : a \in {"empty", "failed"}}
  /\ UNCHANGED <<link, row, key, overlap, pageVars>>

FileDrop(i) ==
  /\ Drop /\ server[i] = "saved"
  /\ \/ row' = row \union {i} /\ server' = [server EXCEPT ![i] = "filed"]
        /\ UNCHANGED <<blob, answer>>
     \/ blob' = blob \ {i} /\ server' = [server EXCEPT ![i] = "done"]
        /\ answer' = [answer EXCEPT ![i] = "empty"] /\ UNCHANGED row
  /\ UNCHANGED <<link, key, overlap, pageVars>>

KeyDrop(i) ==
  /\ Drop /\ server[i] = "filed"
  /\ \/ key' = key \union {i} /\ server' = [server EXCEPT ![i] = "stored"]
        /\ UNCHANGED <<blob, row, answer>>
     \/ blob' = blob \ {i} /\ row' \in {row, row \ {i}} /\ UNCHANGED key
        /\ server' = [server EXCEPT ![i] = "done"] /\ answer' = [answer EXCEPT ![i] = "empty"]
  /\ UNCHANGED <<link, overlap, pageVars>>

\* Mutant: the count is also written when the row is made.
CountDropTwice(i) ==
  /\ Drop /\ server[i] = "stored" /\ server' = [server EXCEPT ![i] = "counted"]
  /\ link' = [link EXCEPT !.count = @ + 2]
  /\ UNCHANGED <<answer, blob, row, key, overlap, pageVars>>

\* IncrementTokenFileCount, whose failure is only logged.
CountDrop(i) ==
  /\ Drop /\ server[i] = "stored" /\ server' = [server EXCEPT ![i] = "counted"]
  /\ \/ link' = [link EXCEPT !.count = @ + 1] /\ UNCHANGED overlap
     \/ UNCHANGED link /\ overlap' = TRUE
  /\ UNCHANGED <<answer, blob, row, key, pageVars>>

\* seal_after_upload is read, the link expired, both errors ignored; the answer
\* is the receipt.
SealDrop(i) ==
  /\ Drop /\ server[i] = "counted"
  /\ server' = [server EXCEPT ![i] = "done"] /\ answer' = [answer EXCEPT ![i] = "receipt"]
  /\ \/ link' = [link EXCEPT !.open = @ /\ ~link.seal] /\ UNCHANGED overlap
     \/ link.seal /\ UNCHANGED link /\ overlap' = TRUE
  /\ UNCHANGED <<blob, row, key, pageVars>>

\* handlerFileRequestUpload reads the request and parses the form; refusals are
\* 403, 404 and 413 (a file over the maximum size), and 400 and 500 before any file.
AdmitRequest(i) ==
  /\ Request /\ server[i] = "sent"
  /\ \/ link.open /\ server' = [server EXCEPT ![i] = "admitted"] /\ UNCHANGED answer
     \/ server' = [server EXCEPT ![i] = "done"]
        /\ answer' \in {[answer EXCEPT ![i] = a] : a \in {"refused", "failed"}}
  /\ UNCHANGED <<link, blob, row, key, overlap, pageVars>>

SaveRequest(i) ==
  /\ Request /\ server[i] = "admitted"
  /\ \/ blob' = blob \union {i} /\ server' = [server EXCEPT ![i] = "saved"] /\ UNCHANGED answer
     \/ UNCHANGED blob /\ server' = [server EXCEPT ![i] = "done"]
        /\ answer' = [answer EXCEPT ![i] = "empty"]
  /\ UNCHANGED <<link, row, key, overlap, pageVars>>

FileRequest(i) ==
  /\ Request /\ server[i] = "saved"
  /\ \/ row' = row \union {i} /\ server' = [server EXCEPT ![i] = "filed"]
        /\ UNCHANGED <<blob, answer>>
     \/ blob' = blob \ {i} /\ UNCHANGED row /\ server' = [server EXCEPT ![i] = "done"]
        /\ answer' = [answer EXCEPT ![i] = "empty"]
  /\ UNCHANGED <<link, key, overlap, pageVars>>

\* The salt that opens the file is written with its error ignored, and the file
\* is in the receipt whatever came of it.
KeyRequest(i) ==
  /\ Request /\ server[i] = "filed"
  /\ key' \in {key, key \union {i}}
  /\ server' = [server EXCEPT ![i] = "done"] /\ answer' = [answer EXCEPT ![i] = "receipt"]
  /\ UNCHANGED <<link, blob, row, overlap, pageVars>>

\* The owner deactivates the drop link, or revokes the request.
Close ==
  /\ link.open /\ link' = [link EXCEPT !.open = FALSE]
  /\ UNCHANGED <<server, answer, blob, row, key, overlap, pageVars>>

-----------------------------------------------------------------------------
(* The pages.  Both run the same protocol over their own copy of it.       *)

\* Mutant: any 201 is taken as a receipt.
AcceptedByStatus(a) == a \in {"receipt", "empty"}

\* hasAcceptedReceipt: the answer lists the file that was sent.
Accepted(a) == a = "receipt"

\* classifyPublicUploadOutcome, of an answer that came.
Classified(a) ==
  IF Accepted(a) THEN "success"
  ELSE IF a \in {"empty", "failed"} THEN "unknown"
  ELSE IF a = "throttled" THEN "error" ELSE "rejected"

\* Mutant: an upload without an answer is offered for retry.
RetryableUnlessAccepted == {i \in queue \ waiting : outcome[i] \in {"error", "unknown"}}

\* getRetryableUploadIds, over the rows shown.
Retryable == {i \in queue \ waiting : outcome[i] = "error"}

Busy == {l \in Loops : loop[l].at \in {"next", "sent"}}
Shown == {i \in queue \ waiting : outcome[i] = "success"}  \* rows shown as accepted

\* The page is replaced by the receipt, or by its error.
Receipt == page.at = "form" /\ page.delivered /\ Shown # {}
FormShown == page.at = "form" /\ ~Receipt
Fresh(S) ==
  /\ S # {}
  /\ \A i \in S : /\ i \notin queue \union UNION gathering /\ server[i] = "none"
                 /\ \A l \in Busy : i \notin loop[l].todo \union {loop[l].item}

\* One run of handleUpload begins.
Begin(l, S) ==
  /\ loop[l].at = "unused"
  /\ loop' = [loop EXCEPT ![l] = [at |-> "next", todo |-> S, item |-> NoItem, won |-> FALSE]]
  /\ page' = [page EXCEPT !.uploading = TRUE, !.delivered = FALSE]
  /\ merged' = (merged \/ Busy # {})

\* A new batch takes the place of the queue and clears the outcomes.
NewBatch(l, S) ==
  /\ Begin(l, S)
  /\ queue' = S /\ waiting' = S
  /\ outcome' = [i \in Items |-> "none"]

\* handleFileChange and handleFolderChange, from inputs shown while nothing uploads.
Choose(l, S) ==
  /\ Drop /\ FormShown /\ ~page.uploading /\ Fresh(S) /\ NewBatch(l, S)
  /\ UNCHANGED <<serverVars, gathering>>

\* handleDrop reads the folders before it uploads, and looks at nothing again.
DropFolder(S) ==
  /\ Drop /\ FormShown /\ ~page.uploading /\ Fresh(S)
  /\ gathering' = gathering \union {S}
  /\ UNCHANGED <<serverVars, page, queue, outcome, waiting, loop, merged>>

Gathered(l, S) ==
  /\ S \in gathering /\ gathering' = gathering \ {S}
  /\ NewBatch(l, S) /\ UNCHANGED serverVars

\* The file request page selects files first; its button sends them all.
SendRequest(l, S) ==
  /\ Request /\ FormShown /\ ~page.uploading /\ Fresh(S) /\ NewBatch(l, S)
  /\ UNCHANGED <<serverVars, gathering>>

\* "Retry confirmed failures": the same ids, their outcomes left until replaced.
Retry(l) ==
  /\ FormShown /\ ~page.uploading /\ ~page.delivered /\ Retryable # {}
  /\ Begin(l, Retryable) /\ waiting' = waiting \union Retryable
  /\ UNCHANGED <<serverVars, gathering, queue, outcome>>

Finish(l, i, o) ==
  /\ outcome' = [outcome EXCEPT ![i] = o] /\ waiting' = waiting \ {i}
  /\ loop' = [loop EXCEPT ![l] = [at |-> "next", todo |-> @.todo \ {i}, item |-> NoItem,
                                  won |-> @.won \/ o = "success"]]

\* uploadFile: the next item is encrypted, which may fail or outlive the page,
\* and posted.
UploadFile(l) ==
  /\ loop[l].at = "next"
  /\ \E i \in loop[l].todo :
        \/ /\ page.at # "left"
           /\ loop' = [loop EXCEPT ![l].at = "sent", ![l].todo = @ \ {i}, ![l].item = i]
           /\ server' = [server EXCEPT ![i] = "sent"] /\ answer' = [answer EXCEPT ![i] = "none"]
           /\ UNCHANGED <<outcome, waiting>>
        \/ /\ Finish(l, i, IF page.at = "left" THEN "cancelled" ELSE "error")
           /\ UNCHANGED <<server, answer>>
  /\ UNCHANGED <<link, blob, row, key, overlap, page, gathering, queue, merged>>

\* Mutant: the request has neither timeout nor error handler.
SettleByAnswer(l) ==
  /\ loop[l].at = "sent" /\ server[loop[l].item] = "done"
  /\ Finish(l, loop[l].item, Classified(answer[loop[l].item]))
  /\ UNCHANGED <<serverVars, page, gathering, queue, merged>>

\* onload, or onerror and ontimeout whatever the server did or will do.
Settle(l) ==
  /\ loop[l].at = "sent"
  /\ \/ server[loop[l].item] = "done"
        /\ Finish(l, loop[l].item, Classified(answer[loop[l].item]))
     \/ Finish(l, loop[l].item, "unknown")
  /\ UNCHANGED <<serverVars, page, gathering, queue, merged>>

\* Mutant: every file has an outcome, whichever it is.
AllSettled == Cardinality({i \in Items : outcome[i] # "none"}) = Cardinality(queue)

AllAccepted ==
  LET landed == {i \in Items : outcome[i] # "none"}
  IN Cardinality(landed) = Cardinality(queue) /\ \A i \in landed : outcome[i] = "success"

\* The end of handleUpload.  The drop page then reads its link again.
EndBatch(l, checks) ==
  /\ loop[l].at = "next" /\ loop[l].todo = {}
  /\ loop' = [loop EXCEPT ![l].at = "ended"]
  /\ page' = IF page.at = "left" THEN page
             ELSE [page EXCEPT !.uploading = FALSE, !.delivered = @ \/ AllAccepted,
                               !.checking = @ \/ (checks /\ loop[l].won)]
  /\ UNCHANGED <<serverVars, gathering, queue, outcome, waiting, merged>>

\* The page is left: every request in flight is aborted.
Leave ==
  /\ page.at # "left" /\ page' = [page EXCEPT !.at = "left"]
  /\ LET cut == {loop[l].item : l \in {k \in Loops : loop[k].at = "sent"}}
     IN /\ outcome' = [i \in Items |-> IF i \in cut THEN "cancelled" ELSE outcome[i]]
        /\ waiting' = waiting \ cut
  /\ loop' = [l \in Loops |-> IF loop[l].at = "sent"
                              THEN [loop[l] EXCEPT !.at = "next", !.item = NoItem] ELSE loop[l]]
  /\ UNCHANGED <<serverVars, gathering, queue, merged>>

\* initializeDropLink, when the page opens and after a batch: any answer but a
\* valid link shows the error page, and nothing takes it away.
LoadDrop ==
  /\ Drop /\ page.checking
  /\ \/ link.open /\ ~AtLimit
        /\ page' = [page EXCEPT !.checking = FALSE, !.at = IF @ = "loading" THEN "form" ELSE @]
     \/ page' = [page EXCEPT !.checking = FALSE, !.at = IF @ = "left" THEN @ ELSE "error"]
  /\ UNCHANGED <<serverVars, gathering, queue, outcome, waiting, loop, merged>>

\* fetchInfo of the file request page, once.
LoadRequest ==
  /\ Request /\ page.at = "loading"
  /\ \E at \in {"form", "error"} :
        /\ at = "form" => link.open
        /\ page' = [page EXCEPT !.checking = FALSE, !.at = at]
  /\ UNCHANGED <<serverVars, gathering, queue, outcome, waiting, loop, merged>>

DropUploadFile(l) == Drop /\ UploadFile(l)
RequestUploadFile(l) == Request /\ UploadFile(l)
EndDropBatch(l) == Drop /\ EndBatch(l, TRUE)
EndRequestBatch(l) == Request /\ EndBatch(l, FALSE)
LeaveDrop == Drop /\ Leave
LeaveRequest == Request /\ Leave

ServerStep ==
  \/ \E i \in Items : \/ ThrottleDrop(i) \/ AdmitDrop(i) \/ RefuseDrop(i) \/ SaveDrop(i)
                      \/ FileDrop(i) \/ KeyDrop(i) \/ CountDrop(i) \/ SealDrop(i)
                      \/ AdmitRequest(i) \/ SaveRequest(i) \/ FileRequest(i) \/ KeyRequest(i)
  \/ Close
BatchStep(l) ==
  DropUploadFile(l) \/ RequestUploadFile(l) \/ Settle(l) \/ EndDropBatch(l) \/ EndRequestBatch(l)
PageStep ==
  \/ \E l \in Loops : \/ \E S \in SUBSET Items : \/ Choose(l, S) \/ Gathered(l, S)
                                                \/ SendRequest(l, S)
                      \/ Retry(l) \/ BatchStep(l)
  \/ \E S \in SUBSET Items : DropFolder(S)
  \/ LeaveDrop \/ LeaveRequest \/ LoadDrop \/ LoadRequest

Next == ServerStep \/ PageStep
\* The browser always ends a request (30 minutes at most) and an encryption;
\* nothing is assumed of the server.
Spec == Init /\ [][Next]_vars /\ \A l \in Loops : WF_vars(BatchStep(l))

-----------------------------------------------------------------------------
\* What the sender is told was accepted is stored: bytes, row and, on a Secure
\* Drop link, the key the owner opens it with; and no key is left without the row
\* and the bytes it opens, whichever step of the store failed.
AcceptedIsStored ==
  /\ \A i \in Items : outcome[i] = "success" => i \in blob \intersect row /\ (Drop => i \in key)
  /\ key \subseteq blob \intersect row

\* A file is posted again only when nothing of it was stored and no earlier POST
\* of it can store it any more: no retry makes a second copy.
SendsOnlyUnstored ==
  [][\A i \in Items : server[i] # "sent" /\ server'[i] = "sent"
        => server[i] \in {"none", "done"} /\ i \notin blob \union row]_vars

\* The page claims a delivery only when every file of the batch it shows is
\* stored, unless two batches of one page were at work at once.
DeliveredWhenAllStored ==
  page.delivered /\ ~merged => queue # {} /\ queue \subseteq blob \intersect row

\* Whatever the visitor is told, of one file or of all, is true of what is stored.
ClaimsAreTrue == AcceptedIsStored /\ DeliveredWhenAllStored

\* The limit of a link and its seal hold while its uploads come one after the
\* other and their counts are written.
TermsHoldInTurn ==
  ~overlap => /\ link.limit > 0 => Cardinality(key) <= link.limit
              /\ link.seal => Cardinality(key) <= 1

\* Every batch ends, whatever becomes of its requests.
BatchesSettle == \A l \in Loops : loop[l].at = "next" ~> loop[l].at = "ended"
=============================================================================
