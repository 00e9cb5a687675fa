------------------------- MODULE OfflineSync_proofs -------------------------
(***************************************************************************)
(* Proofs about OfflineSync for any sets of edits, files and tabs, any     *)
(* bounds, and browsers with and without locks between tabs.               *)
(***************************************************************************)
EXTENDS OfflineSync, TLAPS

Progress ==
  [state : {"unsent", "sent", "lost"}, todo : SUBSET Actions,
   doing : Actions \union {NoAction}, answers : Replies]

Stages == {"idle", "ready", "marked", "sent", "applying"}
Syncs == [at : Stages, ready : SUBSET Actions, chunk : SUBSET Actions, req : 0..MaxSends]

\* An edit has been sent at most as often as requests were.
SendsAreSent == \A a \in Actions : sends[a] <= sent

-----------------------------------------------------------------------------
\* One more result makes a reply of a reply.
LEMMA OneMoreReply ==
  ASSUME NEW f \in Replies, NEW a \in Actions, NEW code \in Codes
  PROVE  [b \in DOMAIN f \union {a} |-> IF b = a THEN code ELSE f[b]] \in Replies
<1> DEFINE g == [b \in DOMAIN f \union {a} |-> IF b = a THEN code ELSE f[b]]
<1>1. PICK S \in SUBSET Actions : f \in [S -> Codes]  BY DEF Replies
<1>2. DOMAIN f = S  BY <1>1
<1>3. S \union {a} \in SUBSET Actions  OBVIOUS
<1>4. g \in [S \union {a} -> Codes]  BY <1>1, <1>2
<1> QED  BY <1>3, <1>4 DEF Replies

\* The empty reply is one.
LEMMA NoReply == Unsent.answers \in Replies
<1>1. Unsent.answers \in [{} -> Codes]  BY DEF Unsent
<1> QED  BY <1>1 DEF Replies

\* A request not yet sent is well typed.
LEMMA UnsentType == Unsent \in Progress
BY NoReply DEF Unsent, Progress

-----------------------------------------------------------------------------
(* What each step of a tab makes of its run. *)

\* The run of t becomes the one with these fields, and no other changes.
RunIs(t, at, ready, chunk, req) ==
  /\ tab' \in [Tabs -> Syncs]
  /\ \A u \in Tabs \ {t} : tab'[u] = tab[u]
  /\ tab'[t].at = at /\ tab'[t].ready = ready /\ tab'[t].chunk = chunk /\ tab'[t].req = req

RunEnds(t) == RunIs(t, "idle", {}, {}, 0)

\* Every tab has a run.
LEMMA TabType == TypeOK => tab \in [Tabs -> Syncs]
BY DEF TypeOK, Syncs, Stages

\* A run that ends leaves nothing behind.
LEMMA RestEffect ==
  ASSUME TypeOK, NEW t \in Tabs, tab' = [tab EXCEPT ![t] = Resting]
  PROVE  RunEnds(t)
BY TabType, BoundsAssumption DEF Resting, RunEnds, RunIs, Syncs, Stages

\* A run that has only edits to send.
LEMMA ReadyEffect ==
  ASSUME TypeOK, NEW t \in Tabs, NEW ready \in SUBSET Actions,
         tab' = [tab EXCEPT ![t] = [Resting EXCEPT !.at = "ready", !.ready = ready]]
  PROVE  RunIs(t, "ready", ready, {}, 0)
<1> DEFINE new == [Resting EXCEPT !.at = "ready", !.ready = ready]
<1>1. /\ new \in Syncs /\ new.at = "ready" /\ new.ready = ready
      /\ new.chunk = {} /\ new.req = 0
  <2>1. Resting \in Syncs /\ Resting.chunk = {} /\ Resting.req = 0
    BY BoundsAssumption DEF Resting, Syncs, Stages
  <2> QED  BY <2>1 DEF Syncs, Stages
<1>2. tab' = [tab EXCEPT ![t] = new]  OBVIOUS
<1> HIDE DEF new
<1> QED  BY <1>1, <1>2, TabType DEF RunIs

\* A run starts with what is pending.
LEMMA StartEffect ==
  ASSUME TypeOK, NEW t \in Tabs, StartSync(t)
  PROVE  RunIs(t, "ready", {a \in Actions : queue[a] = "pending"}, {}, 0)
<1> DEFINE ready == {a \in Actions : queue[a] = "pending"}
<1>1. tab' = [tab EXCEPT ![t] = [Resting EXCEPT !.at = "ready", !.ready = ready]]
  BY DEF StartSync
<1>2. ready \in SUBSET Actions  OBVIOUS
<1> HIDE DEF ready
<1>3. RunIs(t, "ready", ready, {}, 0)
  BY <1>1, <1>2, ReadyEffect
<1> QED  BY <1>3 DEF ready

\* A tab marks some of what it has ready, and goes on only if all of it is still held.
LEMMA MarkEffect ==
  ASSUME TypeOK, NEW t \in Tabs, MarkChunk(t)
  PROVE  /\ tab[t].at = "ready"
         /\ \E S \in SUBSET tab[t].ready :
              /\ queue' = [a \in Actions |-> IF a \in S /\ queue[a] \in Held THEN "unknown" ELSE queue[a]]
              /\ \/ RunEnds(t)
                 \/ /\ \A a \in S : queue[a] \in Held
                    /\ RunIs(t, "marked", tab[t].ready, S, tab[t].req)
<1>1. PICK S \in Chunks(tab[t].ready) :
        /\ queue' = [a \in Actions |-> IF a \in {b \in S : queue[b] \in Held}
                                       THEN "unknown" ELSE queue[a]]
        /\ tab' = [tab EXCEPT ![t] = IF {b \in S : queue[b] \in Held} = S
                                     THEN [@ EXCEPT !.at = "marked", !.chunk = S]
                                     ELSE Resting]
  BY DEF MarkChunk, StatusMarked
<1>2. S \in SUBSET tab[t].ready  BY DEF Chunks
<1>3. S \in SUBSET Actions  BY <1>2, TabType DEF Syncs
<1>4. CASE {b \in S : queue[b] \in Held} = S
  <2>1. tab' = [tab EXCEPT ![t] = [@ EXCEPT !.at = "marked", !.chunk = S]]  BY <1>1, <1>4
  <2>2. RunIs(t, "marked", tab[t].ready, S, tab[t].req)
    BY <1>3, <2>1, TabType DEF RunIs, Syncs, Stages
  <2> QED  BY <1>1, <1>2, <1>4, <2>2 DEF MarkChunk
<1>5. CASE {b \in S : queue[b] \in Held} # S  BY <1>1, <1>2, <1>5, RestEffect DEF MarkChunk
<1> QED  BY <1>4, <1>5

\* A tab sends what it marked, as a request of its own.
LEMMA SendEffect ==
  ASSUME TypeOK, NEW t \in Tabs, SendChunk(t)
  PROVE  /\ RunIs(t, "sent", tab[t].ready, tab[t].chunk, sent + 1)
         /\ request' \in [Requests -> Progress]
         /\ \A r \in Requests \ {sent + 1} : request'[r] = request[r]
         /\ request'[sent + 1].todo = tab[t].chunk /\ request'[sent + 1].doing = NoAction
         /\ DOMAIN request'[sent + 1].answers = {}
         /\ sent + 1 \in Requests /\ sent + 1 \in 0..MaxSends
<1>1. tab' = [tab EXCEPT ![t].at = "sent", ![t].req = sent + 1]  BY DEF SendChunk
<1>2. sent + 1 \in Requests /\ sent + 1 \in 0..MaxSends
  BY BoundsAssumption DEF SendChunk, TypeOK, Requests
<1>3. RunIs(t, "sent", tab[t].ready, tab[t].chunk, sent + 1)
  BY <1>1, <1>2, TabType DEF RunIs, Syncs, Stages
<1> DEFINE new == [Unsent EXCEPT !.state = "sent", !.todo = tab[t].chunk]
<1>4. tab[t].chunk \in SUBSET Actions  BY TabType DEF Syncs
<1>5. /\ new \in Progress /\ new.todo = tab[t].chunk /\ new.doing = NoAction
      /\ DOMAIN new.answers = {}
  BY <1>4, UnsentType DEF Unsent, Progress
<1>6. request' = [request EXCEPT ![sent + 1] = new]  BY DEF SendChunk
<1>7. request \in [Requests -> Progress]  BY DEF TypeOK, Progress
<1> HIDE DEF new
<1> QED  BY <1>2, <1>3, <1>5, <1>6, <1>7

\* A response changes no more than the stage of the run.
LEMMA ReceiveEffect ==
  ASSUME TypeOK, NEW t \in Tabs, ReceiveResponse(t)
  PROVE  RunIs(t, "applying", tab[t].ready, tab[t].chunk, tab[t].req)
BY TabType DEF ReceiveResponse, RunIs, Syncs, Stages

\* A run given up leaves nothing behind.
LEMMA AbandonEffect ==
  ASSUME TypeOK, NEW t \in Tabs, AbandonSync(t) PROVE RunEnds(t)
BY RestEffect DEF AbandonSync

\* A result is stored in the queue, and the run ends, goes on or takes the next chunk.
LEMMA ApplyEffect ==
  ASSUME TypeOK, NEW t \in Tabs, NEW a \in Actions, ApplyOutcome(t, a)
  PROVE  /\ tab[t].at = "applying" /\ a \in tab[t].chunk
         /\ queue' = [queue EXCEPT ![a] =
                        IF queue[a] \in Held THEN Outcome(request[tab[t].req].answers[a]) ELSE queue[a]]
         /\ \/ RunEnds(t)
            \/ tab[t].chunk = {a} /\ RunIs(t, "ready", tab[t].ready \ {a}, {}, 0)
            \/ RunIs(t, "applying", tab[t].ready \ {a}, tab[t].chunk \ {a}, tab[t].req)
<1> DEFINE next == Outcome(request[tab[t].req].answers[a])
           left == tab[t].chunk \ {a}
           ready == tab[t].ready \ {a}
<1>1. tab' = [tab EXCEPT ![t] =
             IF ready = {} \/ (next # "confirmed" /\ queue[a] \notin Held) THEN Resting
             ELSE IF left = {} THEN [Resting EXCEPT !.at = "ready", !.ready = ready]
             ELSE [@ EXCEPT !.chunk = left, !.ready = ready]]
  BY DEF ApplyOutcome
<1>2. a \in tab[t].chunk /\ tab[t].at = "applying"  BY DEF ApplyOutcome
<1>3. queue' = [queue EXCEPT ![a] = IF queue[a] \in Held THEN next ELSE queue[a]]
  BY DEF ApplyOutcome
<1>4. left \in SUBSET Actions /\ ready \in SUBSET Actions  BY TabType DEF Syncs
<1>5. left = {} => tab[t].chunk = {a}  BY <1>2
<1> HIDE DEF next, left, ready
<1>6. CASE tab' = [tab EXCEPT ![t] = Resting]  BY <1>2, <1>3, <1>6, RestEffect DEF next
<1>7. CASE left = {} /\ tab' = [tab EXCEPT ![t] = [Resting EXCEPT !.at = "ready", !.ready = ready]]
  <2>1. RunIs(t, "ready", ready, {}, 0)
    BY <1>4, <1>7, ReadyEffect
  <2> QED  BY <1>2, <1>3, <1>5, <1>7, <2>1 DEF next, ready
<1>8. CASE tab' = [tab EXCEPT ![t] = [@ EXCEPT !.chunk = left, !.ready = ready]]
  <2>1. RunIs(t, "applying", ready, left, tab[t].req)
    BY <1>2, <1>4, <1>8, TabType DEF RunIs, Syncs, Stages
  <2> QED  BY <1>2, <1>3, <2>1 DEF next, ready, left
<1> QED  BY <1>1, <1>6, <1>7, <1>8

-----------------------------------------------------------------------------
(* What each step of the server makes of a request. *)

\* Every request has its progress.
LEMMA RequestType == TypeOK => request \in [Requests -> Progress]
BY DEF TypeOK, Progress

\* Edit a of request r gets its result.
Replied(r, a, code) ==
  /\ request' \in [Requests -> Progress]
  /\ \A s \in Requests \ {r} : request'[s] = request[s]
  /\ request'[r].todo = request[r].todo \ {a}
  /\ request'[r].doing = NoAction
  /\ DOMAIN request'[r].answers = DOMAIN request[r].answers \union {a}
  /\ \A b \in DOMAIN request'[r].answers :
        request'[r].answers[b] = IF b = a THEN code ELSE request[r].answers[b]

\* WithAnswer adds one result and ends the transaction.
LEMMA ReplyEffect ==
  ASSUME TypeOK, NEW r \in Requests, NEW a \in Actions, NEW code \in Codes,
         request' = WithAnswer(r, a, code)
  PROVE  Replied(r, a, code)
<1> DEFINE g == [b \in DOMAIN request[r].answers \union {a} |->
                   IF b = a THEN code ELSE request[r].answers[b]]
<1>1. request[r].answers \in Replies  BY RequestType DEF Progress
<1>2. g \in Replies  BY <1>1, OneMoreReply
<1>3. /\ DOMAIN g = DOMAIN request[r].answers \union {a}
      /\ \A b \in DOMAIN g : g[b] = IF b = a THEN code ELSE request[r].answers[b]
  OBVIOUS
<1>4. request' = [request EXCEPT ![r].todo = @ \ {a}, ![r].doing = NoAction, ![r].answers = g]
  BY DEF WithAnswer
<1> HIDE DEF g
<1> DEFINE new == [request[r] EXCEPT !.todo = @ \ {a}, !.doing = NoAction, !.answers = g]
<1>5. /\ new \in Progress /\ new.todo = request[r].todo \ {a}
      /\ new.doing = NoAction /\ new.answers = g
  BY <1>2, RequestType DEF Progress
<1>6. request' = [request EXCEPT ![r] = new]  BY <1>4, RequestType
<1> HIDE DEF new
<1> QED  BY <1>3, <1>5, <1>6, RequestType DEF Replied

\* Edit a of request r is under way.
Doing(r, a) ==
  /\ request' \in [Requests -> Progress]
  /\ \A s \in Requests \ {r} : request'[s] = request[s]
  /\ request'[r].doing = a /\ request'[r].todo = request[r].todo
  /\ request'[r].answers = request[r].answers

\* A transaction that begins finds its edit made, goes on alone, or fails.
LEMMA BeginEffect ==
  ASSUME TypeOK, NEW r \in Requests, NEW a \in Actions, BeginAction(r, a)
  PROVE  /\ a \in request[r].todo /\ LockFree(a)
         /\ UNCHANGED <<version, applied, intent, queue, tab, sent, sends, retries>>
         /\ \/ a \in applied /\ Replied(r, a, "success")
            \/ a \notin applied /\ Doing(r, a)
            \/ Replied(r, a, "unavailable")
<1>1. CASE a \in applied /\ request' = WithAnswer(r, a, "success")
  BY <1>1, ReplyEffect DEF BeginAction, Codes, server, counts
<1>2. CASE a \notin applied /\ request' = [request EXCEPT ![r].doing = a]
  <2>1. Doing(r, a)  BY <1>2, RequestType DEF Doing, Progress
  <2> QED  BY <1>2, <2>1 DEF BeginAction, server, counts
<1>3. CASE request' = WithAnswer(r, a, "unavailable")
  BY <1>3, ReplyEffect DEF BeginAction, Codes, server, counts
<1> QED  BY <1>1, <1>2, <1>3 DEF BeginAction

\* Edit a takes effect.
Stored(a) ==
  /\ version' = [version EXCEPT ![intent[a].file] =
                   IF intent[a].type = "rename" THEN a ELSE Gone]
  /\ applied' = applied \union {a}
  /\ VersionCurrent(a)

\* A transaction stores its edit or nothing, and tells of a refusal or a success truly.
LEMMA FinishEffect ==
  ASSUME TypeOK, NEW r \in Requests, FinishAction(r)
  PROVE  /\ request[r].doing \in Actions
         /\ UNCHANGED <<intent, queue, tab, sent, sends, retries>>
         /\ Stored(request[r].doing) \/ UNCHANGED <<version, applied>>
         /\ \E code \in Codes :
              /\ Replied(r, request[r].doing, code)
              /\ code \in Refusals => /\ UNCHANGED <<version, applied>>
                                      /\ \/ ~VersionCurrent(request[r].doing)
                                         \/ version[intent[request[r].doing].file] = Gone
              /\ code = "success" => Stored(request[r].doing)
<1> DEFINE a == request[r].doing
<1>1. a \in Actions  BY RequestType DEF FinishAction, Progress
<1>2. PICK code \in Codes :
        /\ request' = WithAnswer(r, a, code)
        /\ Stored(a) \/ UNCHANGED <<version, applied>>
        /\ code \in Refusals => UNCHANGED <<version, applied>>
                                /\ (~VersionCurrent(a) \/ version[intent[a].file] = Gone)
        /\ code = "success" => Stored(a)
  <2>1. CASE request' = WithAnswer(r, a, "not_found") /\ version[intent[a].file] = Gone /\ UNCHANGED server
    BY <2>1 DEF Codes, Refusals, server
  <2>2. CASE request' = WithAnswer(r, a, "version_conflict") /\ ~VersionCurrent(a) /\ UNCHANGED server
    BY <2>2 DEF Codes, Refusals, server
  <2>3. CASE request' = WithAnswer(r, a, "success") /\ Stored(a)
    BY <2>3 DEF Codes, Refusals
  <2>4. CASE request' = WithAnswer(r, a, "outcome_unknown") /\ (Stored(a) \/ UNCHANGED server)
    BY <2>4 DEF Codes, Refusals, server
  <2>5. CASE request' = WithAnswer(r, a, "unavailable") /\ UNCHANGED server
    BY <2>5 DEF Codes, Refusals, server
  <2> QED  BY <2>1, <2>2, <2>3, <2>4, <2>5 DEF FinishAction, Stored
<1> QED  BY <1>1, <1>2, ReplyEffect DEF FinishAction, counts, server

-----------------------------------------------------------------------------
(* Types. *)

\* Types hold at first.
LEMMA InitType == Init => TypeOK /\ SendsAreSent
<1> SUFFICES ASSUME Init PROVE TypeOK /\ SendsAreSent  OBVIOUS
<1>1. request \in [Requests -> Progress]  BY UnsentType DEF Init
<1> QED  BY <1>1, NamesAssumption, BoundsAssumption DEF Init, TypeOK, SendsAreSent, Resting, Progress

\* Every step keeps them.
LEMMA NextType == TypeOK /\ SendsAreSent /\ [Next]_vars => (TypeOK /\ SendsAreSent)'
<1> SUFFICES ASSUME TypeOK, SendsAreSent, [Next]_vars PROVE (TypeOK /\ SendsAreSent)'
  OBVIOUS
<1> USE DEF SendsAreSent, server, counts
<1> DEFINE Rest ==
      /\ version \in [Files -> Actions \union {Initial, Gone}]
      /\ applied \subseteq Actions
      /\ DOMAIN intent \subseteq Actions
      /\ \A a \in DOMAIN intent :
            intent[a] \in [file : Files, type : {"rename", "delete"}, base : Actions \union {Initial}]
      /\ queue \in [Actions -> Held \union {"new", "confirmed", "discarded"}]
      /\ sent \in 0..MaxSends
      /\ sends \in [Actions -> 0..MaxSends] /\ retries \in [Actions -> 0..MaxRetries]
<1>0. Rest /\ tab \in [Tabs -> Syncs] /\ request \in [Requests -> Progress]
  BY DEF TypeOK, Syncs, Stages, Progress
<1>t. ASSUME Rest', SendsAreSent', tab' \in [Tabs -> Syncs], request' \in [Requests -> Progress]
      PROVE  (TypeOK /\ SendsAreSent)'
  BY <1>t DEF TypeOK, Syncs, Stages, Progress
<1>1. ASSUME NEW a \in Actions, Retry(a) PROVE (TypeOK /\ SendsAreSent)'
  <2>1. Rest'  BY <1>0, <1>1, BoundsAssumption DEF Retry, Held
  <2> QED  BY <1>0, <1>1, <1>t, <2>1 DEF Retry
<1>2. ASSUME NEW a \in Actions, Discard(a) \/ Reconcile(a) PROVE (TypeOK /\ SendsAreSent)'
  <2>1. Rest'  BY <1>0, <1>2 DEF Discard, Reconcile, Held
  <2> QED  BY <1>0, <1>2, <1>t, <2>1 DEF Discard, Reconcile
<1>3. ASSUME NEW a \in Actions, NEW f \in Files, NEW type \in {"rename", "delete"},
             NEW base \in Actions \union {Initial}, Enqueue(a, f, type, base)
      PROVE  (TypeOK /\ SendsAreSent)'
  <2>1. Rest'  BY <1>0, <1>3 DEF Enqueue, Held
  <2> QED  BY <1>0, <1>3, <1>t, <2>1 DEF Enqueue
<1>4. ASSUME NEW f \in Files, DeleteOnline(f) PROVE (TypeOK /\ SendsAreSent)'
  BY <1>0, <1>4, <1>t DEF DeleteOnline
<1>5. ASSUME NEW t \in Tabs, StartSync(t) \/ ReceiveResponse(t) \/ AbandonSync(t)
      PROVE  (TypeOK /\ SendsAreSent)'
  <2>1. tab' \in [Tabs -> Syncs]
    BY <1>5, StartEffect, ReceiveEffect, AbandonEffect DEF RunIs, RunEnds
  <2> QED  BY <1>0, <1>5, <1>t, <2>1 DEF StartSync, ReceiveResponse, AbandonSync
<1>6. ASSUME NEW t \in Tabs, MarkChunk(t) PROVE (TypeOK /\ SendsAreSent)'
  <2>1. tab' \in [Tabs -> Syncs]  BY <1>6, MarkEffect DEF RunIs, RunEnds
  <2>2. queue' \in [Actions -> Held \union {"new", "confirmed", "discarded"}]
    BY <1>0, <1>6, MarkEffect DEF Held
  <2> QED  BY <1>0, <1>6, <1>t, <2>1, <2>2 DEF MarkChunk
<1>7. ASSUME NEW t \in Tabs, SendChunk(t) PROVE (TypeOK /\ SendsAreSent)'
  <2>1. /\ tab' \in [Tabs -> Syncs] /\ request' \in [Requests -> Progress]
        /\ sent' \in 0..MaxSends /\ sent' = sent + 1
    BY <1>7, SendEffect DEF RunIs, SendChunk
  <2>2. sends' \in [Actions -> 0..MaxSends] /\ \A a \in Actions : sends'[a] <= sent'
    BY <1>0, <1>7, <2>1, BoundsAssumption DEF SendChunk
  <2> QED  BY <1>0, <1>7, <1>t, <2>1, <2>2 DEF SendChunk
<1>9. ASSUME NEW t \in Tabs, NEW a \in Actions, ApplyOutcome(t, a) PROVE (TypeOK /\ SendsAreSent)'
  <2>1. tab' \in [Tabs -> Syncs]  BY <1>9, ApplyEffect DEF RunIs, RunEnds
  <2>2. queue' \in [Actions -> Held \union {"new", "confirmed", "discarded"}]
    <3> DEFINE next == Outcome(request[tab[t].req].answers[a])
    <3>1. next \in Held \union {"confirmed"}  BY DEF Held, Outcome
    <3>2. queue' = [queue EXCEPT ![a] = IF queue[a] \in Held THEN next ELSE queue[a]]
      BY <1>0, <1>9, ApplyEffect
    <3> HIDE DEF next
    <3> QED  BY <1>0, <3>1, <3>2 DEF Held
  <2> QED  BY <1>0, <1>9, <1>t, <2>1, <2>2 DEF ApplyOutcome
<1>10. ASSUME NEW r \in Requests, LoseRequest(r) PROVE (TypeOK /\ SendsAreSent)'
  <2>1. request' \in [Requests -> Progress]  BY <1>0, <1>10 DEF LoseRequest, Progress
  <2> QED  BY <1>0, <1>10, <1>t, <2>1 DEF LoseRequest
<1>11. ASSUME NEW r \in Requests, NEW a \in Actions, BeginAction(r, a)
       PROVE  (TypeOK /\ SendsAreSent)'
  <2>1. request' \in [Requests -> Progress]  BY <1>11, BeginEffect DEF Replied, Doing
  <2> QED  BY <1>0, <1>11, <1>t, <2>1 DEF BeginAction
<1>12. ASSUME NEW r \in Requests, FinishAction(r) PROVE (TypeOK /\ SendsAreSent)'
  <2>1. request' \in [Requests -> Progress]  BY <1>12, FinishEffect DEF Replied
  <2>2. version' \in [Files -> Actions \union {Initial, Gone}] /\ applied' \subseteq Actions
    BY <1>0, <1>12, FinishEffect DEF Stored
  <2> QED  BY <1>0, <1>12, <1>t, <2>1, <2>2, FinishEffect
<1>13. CASE UNCHANGED vars  BY <1>0, <1>13, <1>t DEF vars
<1> QED  BY <1>1, <1>2, <1>3, <1>4, <1>5, <1>6, <1>7, <1>9, <1>10, <1>11, <1>12, <1>13
         DEF Next, Owner, Tab, Server

-----------------------------------------------------------------------------
(***************************************************************************)
(* What the answers rest on.  Everything under way is about an edit the    *)
(* owner made, on a version its file had; at most one request makes an     *)
(* edit, and not one made already; a refused edit asks for a version that  *)
(* its file will never have again; and a tab that applies a response finds *)
(* a result for each edit it sent.                                         *)
(***************************************************************************)
EditsKnown ==
  /\ \A a \in Actions : queue[a] = "new" <=> a \notin DOMAIN intent
  /\ applied \subseteq DOMAIN intent
  /\ \A a \in DOMAIN intent : intent[a].base \in {Initial} \union applied

UnderWayKnown ==
  /\ \A t \in Tabs : tab[t].ready \subseteq DOMAIN intent /\ tab[t].chunk \subseteq DOMAIN intent
  /\ \A r \in Requests :
        /\ request[r].todo \subseteq DOMAIN intent
        /\ request[r].doing \in DOMAIN intent \union {NoAction}
        /\ DOMAIN request[r].answers \subseteq DOMAIN intent

MadeByOne ==
  /\ \A r, s \in Requests : request[r].doing \in Actions /\ request[s].doing = request[r].doing => r = s
  /\ \A r \in Requests : request[r].doing \notin applied

AnswersHold ==
  /\ \A f \in Files : version[f] \in Actions => version[f] \in applied
  /\ \A r \in Requests : \A a \in DOMAIN request[r].answers :
       /\ request[r].answers[a] = "success" => a \in applied
       /\ request[r].answers[a] \in Refusals => a \notin applied /\ ~VersionCurrent(a)

ResultsThere ==
  \A t \in Tabs : tab[t].at \in {"sent", "applying"} =>
     /\ tab[t].req \in 1..sent
     /\ tab[t].at = "sent" =>
          tab[t].chunk \subseteq request[tab[t].req].todo \union DOMAIN request[tab[t].req].answers
     /\ tab[t].at = "applying" => tab[t].chunk \subseteq DOMAIN request[tab[t].req].answers

IInv ==
  /\ TypeOK /\ SendsAreSent
  /\ EditsKnown /\ UnderWayKnown
  /\ MadeByOne
  /\ AnswersHold
  /\ ResultsThere
  /\ ConfirmedWasApplied

\* Nothing is under way at first.
LEMMA InitIInv == Init => IInv
<1> SUFFICES ASSUME Init PROVE IInv  OBVIOUS
<1>1. EditsKnown  BY DEF Init, EditsKnown
<1>2. UnderWayKnown  BY DEF Init, UnderWayKnown, Resting, Unsent
<1>3. MadeByOne  BY NamesAssumption DEF Init, MadeByOne, Unsent
<1>4. AnswersHold  BY NamesAssumption DEF Init, AnswersHold, Unsent
<1>5. ResultsThere  BY DEF Init, ResultsThere, Resting
<1>6. ConfirmedWasApplied  BY DEF Init, ConfirmedWasApplied
<1> QED  BY <1>1, <1>2, <1>3, <1>4, <1>5, <1>6, InitType DEF IInv

\* What is known of edits outlives every step.
LEMMA KnownStep ==
  TypeOK /\ EditsKnown /\ UnderWayKnown /\ [Next]_vars => (EditsKnown /\ UnderWayKnown)'
<1> SUFFICES ASSUME TypeOK, EditsKnown, UnderWayKnown, [Next]_vars
             PROVE  (EditsKnown /\ UnderWayKnown)'
  OBVIOUS
<1>0. /\ tab \in [Tabs -> Syncs] /\ request \in [Requests -> Progress]
      /\ queue \in [Actions -> Held \union {"new", "confirmed", "discarded"}]
      /\ \A r \in Requests : request[r].todo \subseteq Actions
  BY TabType, RequestType DEF TypeOK, Progress
<1>1. ASSUME NEW a \in Actions, Retry(a) \/ Discard(a) \/ Reconcile(a)
      PROVE  (EditsKnown /\ UnderWayKnown)'
  <2>1. EditsKnown'
    BY <1>0, <1>1 DEF Retry, Discard, Reconcile, EditsKnown, Held, server
  <2>2. UnderWayKnown'
    BY <1>1 DEF Retry, Discard, Reconcile, UnderWayKnown
  <2> QED  BY <2>1, <2>2
<1>2. ASSUME NEW a \in Actions, NEW f \in Files, NEW type \in {"rename", "delete"},
             NEW base \in Actions \union {Initial}, Enqueue(a, f, type, base)
      PROVE  (EditsKnown /\ UnderWayKnown)'
  <2>1. /\ DOMAIN intent' = DOMAIN intent \union {a}
        /\ \A b \in DOMAIN intent \ {a} : intent'[b] = intent[b]
        /\ intent'[a].base = base /\ base \in {Initial} \union applied
        /\ queue' = [queue EXCEPT ![a] = "pending"]
    BY <1>2 DEF Enqueue, SeenVersions
  <2>2. UNCHANGED <<applied, tab, request>>  BY <1>2 DEF Enqueue, server
  <2>3. EditsKnown'  BY <1>0, <2>1, <2>2 DEF EditsKnown
  <2>4. UnderWayKnown'  BY <2>1, <2>2 DEF UnderWayKnown
  <2> QED  BY <2>3, <2>4
<1>3. ASSUME NEW f \in Files, DeleteOnline(f) PROVE (EditsKnown /\ UnderWayKnown)'
  BY <1>3 DEF DeleteOnline, EditsKnown, UnderWayKnown
<1>4. ASSUME UNCHANGED <<applied, intent, request>>, EditsKnown', tab' \in [Tabs -> Syncs], NEW t \in Tabs,
             \A u \in Tabs \ {t} : tab'[u] = tab[u],
             tab'[t].ready \subseteq DOMAIN intent, tab'[t].chunk \subseteq DOMAIN intent
      PROVE  (EditsKnown /\ UnderWayKnown)'
  BY <1>4 DEF UnderWayKnown
<1>5. ASSUME NEW t \in Tabs, StartSync(t) PROVE (EditsKnown /\ UnderWayKnown)'
  <2>1. EditsKnown'  BY <1>5 DEF StartSync, EditsKnown, server
  <2>2. {a \in Actions : queue[a] = "pending"} \subseteq DOMAIN intent  BY DEF EditsKnown
  <2> QED  BY <1>4, <1>5, <2>1, <2>2, StartEffect DEF StartSync, RunIs, server
<1>6. ASSUME NEW t \in Tabs, MarkChunk(t) PROVE (EditsKnown /\ UnderWayKnown)'
  <2>1. EditsKnown'
    BY <1>0, <1>6, MarkEffect DEF MarkChunk, EditsKnown, Held, server
  <2>2. tab[t].ready \subseteq DOMAIN intent  BY DEF UnderWayKnown
  <2>3. UNCHANGED <<applied, intent, request>>  BY <1>6 DEF MarkChunk, server
  <2>4. /\ tab' \in [Tabs -> Syncs] /\ \A u \in Tabs \ {t} : tab'[u] = tab[u]
        /\ tab'[t].ready \subseteq DOMAIN intent /\ tab'[t].chunk \subseteq DOMAIN intent
    BY <1>6, <2>2, MarkEffect DEF RunIs, RunEnds
  <2> QED  BY <1>4, <2>1, <2>3, <2>4
<1>7. ASSUME NEW t \in Tabs, SendChunk(t) PROVE (EditsKnown /\ UnderWayKnown)'
  <2>1. EditsKnown'  BY <1>7 DEF SendChunk, EditsKnown, server
  <2>2. UNCHANGED intent  BY <1>7 DEF SendChunk
  <2>3. tab[t].ready \subseteq DOMAIN intent /\ tab[t].chunk \subseteq DOMAIN intent
    BY DEF UnderWayKnown
  <2>4. \A u \in Tabs : tab'[u].ready = tab[u].ready /\ tab'[u].chunk = tab[u].chunk
    BY <1>7, SendEffect DEF RunIs
  <2>5. UnderWayKnown'  BY <1>7, <2>2, <2>3, <2>4, SendEffect DEF UnderWayKnown
  <2> QED  BY <2>1, <2>5
<1>8. ASSUME NEW t \in Tabs, ReceiveResponse(t) \/ AbandonSync(t) PROVE (EditsKnown /\ UnderWayKnown)'
  <2>1. EditsKnown'  BY <1>8 DEF ReceiveResponse, AbandonSync, EditsKnown, server
  <2>2. tab[t].ready \subseteq DOMAIN intent /\ tab[t].chunk \subseteq DOMAIN intent
    BY DEF UnderWayKnown
  <2> QED  BY <1>4, <1>8, <2>1, <2>2, ReceiveEffect, AbandonEffect
           DEF ReceiveResponse, AbandonSync, RunIs, RunEnds, server
<1>9. ASSUME NEW t \in Tabs, NEW a \in Actions, ApplyOutcome(t, a) PROVE (EditsKnown /\ UnderWayKnown)'
  <2>1. EditsKnown'
    BY <1>0, <1>9, ApplyEffect DEF ApplyOutcome, EditsKnown, Held, Outcome, server
  <2>2. tab[t].ready \subseteq DOMAIN intent /\ tab[t].chunk \subseteq DOMAIN intent
    BY DEF UnderWayKnown
  <2> QED  BY <1>4, <1>9, <2>1, <2>2, ApplyEffect DEF ApplyOutcome, RunIs, RunEnds, server
<1>10. ASSUME NEW r \in Requests, LoseRequest(r) PROVE (EditsKnown /\ UnderWayKnown)'
  <2>1. EditsKnown'  BY <1>10 DEF LoseRequest, EditsKnown, server
  <2>2. \A s \in Requests : /\ request'[s].todo = request[s].todo /\ request'[s].doing = request[s].doing
                            /\ request'[s].answers = request[s].answers
    BY <1>0, <1>10 DEF LoseRequest, Progress
  <2>3. UnderWayKnown'  BY <1>10, <2>2 DEF LoseRequest, UnderWayKnown
  <2> QED  BY <2>1, <2>3
<1>11. ASSUME NEW r \in Requests, NEW a \in Actions, BeginAction(r, a)
       PROVE  (EditsKnown /\ UnderWayKnown)'
  <2>1. EditsKnown'  BY <1>11, BeginEffect DEF EditsKnown
  <2>2. a \in DOMAIN intent  BY <1>11, BeginEffect DEF UnderWayKnown
  <2>3. UnderWayKnown'
    BY <1>11, <2>2, BeginEffect DEF UnderWayKnown, Replied, Doing
  <2> QED  BY <2>1, <2>3
<1>12. ASSUME NEW r \in Requests, FinishAction(r) PROVE (EditsKnown /\ UnderWayKnown)'
  <2> DEFINE a == request[r].doing
  <2>1. a \in DOMAIN intent  BY <1>12, FinishEffect, NamesAssumption DEF UnderWayKnown
  <2>2. EditsKnown'  BY <1>12, <2>1, FinishEffect DEF EditsKnown, Stored
  <2>3. UnderWayKnown'
    <3>1. PICK code \in Codes : Replied(r, a, code)  BY <1>12, FinishEffect
    <3>2. UNCHANGED <<intent, tab>>  BY <1>12, FinishEffect
    <3> QED  BY <2>1, <3>1, <3>2 DEF UnderWayKnown, Replied
  <2> QED  BY <2>2, <2>3
<1>13. CASE UNCHANGED vars  BY <1>13 DEF vars, EditsKnown, UnderWayKnown
<1> QED  BY <1>1, <1>2, <1>3, <1>5, <1>6, <1>7, <1>8, <1>9, <1>10, <1>11, <1>12, <1>13
         DEF Next, Owner, Tab, Server

\* No two requests make the same edit, and none makes one made already.
LEMMA MadeStep ==
  TypeOK /\ EditsKnown /\ UnderWayKnown /\ MadeByOne /\ [Next]_vars => MadeByOne'
<1> SUFFICES ASSUME TypeOK, EditsKnown, UnderWayKnown, MadeByOne, [Next]_vars PROVE MadeByOne'
  OBVIOUS
<1>0. request \in [Requests -> Progress]  BY RequestType
<1>1. ASSUME UNCHANGED applied, \A r \in Requests : request'[r].doing = request[r].doing
      PROVE  MadeByOne'
  BY <1>1 DEF MadeByOne
<1>2. ASSUME NEW r \in Requests, \A s \in Requests \ {r} : request'[s] = request[s],
             request'[r].doing = NoAction, UNCHANGED applied
      PROVE  MadeByOne'
  BY <1>2, NamesAssumption DEF MadeByOne, TypeOK
<1>3. ASSUME NEW t \in Tabs, SendChunk(t) PROVE MadeByOne'
  BY <1>2, <1>3, SendEffect DEF SendChunk, server
<1>4. ASSUME NEW r \in Requests, LoseRequest(r) PROVE MadeByOne'
  <2>1. \A s \in Requests : request'[s].doing = request[s].doing
    BY <1>0, <1>4 DEF LoseRequest, Progress
  <2> QED  BY <1>1, <1>4, <2>1 DEF LoseRequest, server
<1>5. ASSUME NEW r \in Requests, NEW a \in Actions, BeginAction(r, a) PROVE MadeByOne'
  <2>1. CASE Doing(r, a) /\ a \notin applied
    BY <1>5, <2>1, BeginEffect DEF Doing, LockFree, MadeByOne
  <2>2. CASE \E code \in Codes : Replied(r, a, code)
    BY <1>2, <1>5, <2>2, BeginEffect DEF Replied
  <2> QED  BY <1>5, <2>1, <2>2, BeginEffect DEF Codes
<1>6. ASSUME NEW r \in Requests, FinishAction(r) PROVE MadeByOne'
  <2> DEFINE a == request[r].doing
  <2>1. PICK code \in Codes : Replied(r, a, code)  BY <1>6, FinishEffect
  <2>2. a \in Actions /\ (applied' = applied \union {a} \/ applied' = applied)
    BY <1>6, FinishEffect DEF Stored
  <2>3. \A s \in Requests \ {r} : request'[s].doing = request[s].doing /\ request[s].doing # a
    BY <2>1, <2>2 DEF MadeByOne, Replied
  <2>4. request'[r].doing = NoAction /\ NoAction \notin applied'
    BY <2>1, <2>2, NamesAssumption DEF Replied, TypeOK
  <2> QED  BY <2>2, <2>3, <2>4, NamesAssumption DEF MadeByOne
<1>7. ASSUME UNCHANGED <<applied, request>> PROVE MadeByOne'  BY <1>1, <1>7
<1> QED  BY <1>3, <1>4, <1>5, <1>6, <1>7 DEF Next, Owner, Tab, Server, Retry, Discard, Reconcile,
            Enqueue, DeleteOnline, StartSync, MarkChunk, ReceiveResponse, AbandonSync, ApplyOutcome,
            vars, server

\* A version once given up never returns: every version made is new.
LEMMA VersionsMove ==
  ASSUME TypeOK, EditsKnown, UnderWayKnown, MadeByOne, AnswersHold, [Next]_vars
  PROVE  /\ applied \subseteq applied'
         /\ \A f \in Files : version'[f] \in Actions => version'[f] \in applied'
         /\ \A a \in DOMAIN intent :
              /\ a \in DOMAIN intent' /\ intent'[a] = intent[a]
              /\ ~VersionCurrent(a) => ~VersionCurrent(a)'
<1>0. /\ \A a \in DOMAIN intent : intent[a].file \in Files /\ intent[a].base \in {Initial} \union applied
      /\ version \in [Files -> Actions \union {Initial, Gone}] /\ applied \subseteq Actions
  BY DEF TypeOK, EditsKnown
<1> DEFINE Goal == /\ applied \subseteq applied'
                   /\ \A f \in Files : version'[f] \in Actions => version'[f] \in applied'
                   /\ \A a \in DOMAIN intent :
                        /\ a \in DOMAIN intent' /\ intent'[a] = intent[a]
                        /\ ~VersionCurrent(a) => ~VersionCurrent(a)'
<1>1. ASSUME UNCHANGED <<version, applied, intent>> PROVE Goal
  BY <1>1 DEF AnswersHold, VersionCurrent
<1>2. ASSUME NEW a \in Actions, NEW f \in Files, NEW type \in {"rename", "delete"},
             NEW base \in Actions \union {Initial}, Enqueue(a, f, type, base)
      PROVE  Goal
  <2>1. a \notin DOMAIN intent  BY <1>2 DEF Enqueue, EditsKnown
  <2>2. /\ DOMAIN intent' = DOMAIN intent \union {a}
        /\ \A b \in DOMAIN intent : intent'[b] = intent[b]
        /\ UNCHANGED <<version, applied>>
    BY <1>2, <2>1 DEF Enqueue, server
  <2> QED  BY <2>2 DEF AnswersHold, VersionCurrent
<1>3. ASSUME NEW f \in Files, DeleteOnline(f) PROVE Goal
  <2>1. /\ version' = [version EXCEPT ![f] = Gone]
        /\ UNCHANGED <<applied, intent>>
    BY <1>3 DEF DeleteOnline
  <2>2. Gone \notin Actions /\ Gone # Initial  BY NamesAssumption
  <2> QED  BY <1>0, <2>1, <2>2 DEF AnswersHold, VersionCurrent
<1>4. ASSUME NEW r \in Requests, FinishAction(r) PROVE Goal
  <2> DEFINE d == request[r].doing
  <2>1. CASE UNCHANGED <<version, applied>>  BY <1>1, <1>4, <2>1, FinishEffect
  <2>2. CASE Stored(d)
    <3>1. d \in Actions /\ d \notin applied /\ UNCHANGED intent
      BY <1>4, FinishEffect DEF MadeByOne
    <3>2. d \in DOMAIN intent  BY <3>1, NamesAssumption DEF UnderWayKnown
    <3> DEFINE f == intent[d].file
               v == IF intent[d].type = "rename" THEN d ELSE Gone
    <3>3. version' = [version EXCEPT ![f] = v] /\ applied' = applied \union {d} /\ f \in Files
      BY <1>0, <2>2, <3>2 DEF Stored
    <3>4. v \notin {Initial} \union applied /\ (v \in Actions => v \in applied')
      BY <1>0, <3>1, <3>3, NamesAssumption
    <3> HIDE DEF v, f
    <3> QED  BY <1>0, <3>1, <3>3, <3>4 DEF AnswersHold, VersionCurrent
  <2> QED  BY <1>4, <2>1, <2>2, FinishEffect
<1> QED  BY <1>1, <1>2, <1>3, <1>4, BeginEffect DEF Next, Owner, Tab, Server, Retry, Discard, Reconcile,
            StartSync, MarkChunk, SendChunk, ReceiveResponse, AbandonSync, ApplyOutcome, LoseRequest,
            vars, server

\* What a response says of an edit stays true.
LEMMA AnswersStep ==
  TypeOK /\ EditsKnown /\ UnderWayKnown /\ MadeByOne /\ AnswersHold /\ [Next]_vars => AnswersHold'
<1> SUFFICES ASSUME TypeOK, EditsKnown, UnderWayKnown, MadeByOne, AnswersHold, [Next]_vars
             PROVE  AnswersHold'
  OBVIOUS
<1>0. /\ applied \subseteq applied'
      /\ \A f \in Files : version'[f] \in Actions => version'[f] \in applied'
      /\ \A a \in DOMAIN intent : ~VersionCurrent(a) => ~VersionCurrent(a)'
      /\ request \in [Requests -> Progress]
  BY VersionsMove, RequestType
<1> DEFINE Holds(r, a) == /\ request'[r].answers[a] = "success" => a \in applied'
                          /\ request'[r].answers[a] \in Refusals => a \notin applied' /\ ~VersionCurrent(a)'
<1>1. SUFFICES ASSUME NEW r \in Requests, NEW a \in DOMAIN request'[r].answers PROVE Holds(r, a)
  BY <1>0, <1>1 DEF AnswersHold
<1>2. ASSUME a \in DOMAIN request[r].answers, request'[r].answers[a] = request[r].answers[a],
             applied' = applied
      PROVE  Holds(r, a)
  BY <1>0, <1>2 DEF AnswersHold, UnderWayKnown
<1>3. ASSUME NEW t \in Tabs, SendChunk(t) PROVE Holds(r, a)
  <2>1. r # sent + 1  BY <1>3, SendEffect
  <2>2. request'[r] = request[r]  BY <1>3, <2>1, SendEffect
  <2> QED  BY <1>2, <1>3, <2>2 DEF SendChunk, server
<1>4. ASSUME NEW s \in Requests, LoseRequest(s) PROVE Holds(r, a)
  <2>1. request'[r].answers = request[r].answers  BY <1>0, <1>4 DEF LoseRequest, Progress
  <2> QED  BY <1>2, <1>4, <2>1 DEF LoseRequest, server
<1>5. ASSUME NEW s \in Requests, NEW b \in Actions, BeginAction(s, b) PROVE Holds(r, a)
  <2>1. applied' = applied  BY <1>5, BeginEffect
  <2>2. CASE r # s \/ Doing(s, b)
    BY <1>2, <1>5, <2>1, <2>2, BeginEffect DEF Doing, Replied
  <2>3. CASE r = s /\ b \in applied /\ Replied(s, b, "success")
    BY <1>2, <2>1, <2>3 DEF Replied, Refusals
  <2>4. CASE r = s /\ Replied(s, b, "unavailable")
    BY <1>2, <2>1, <2>4 DEF Replied, Refusals
  <2> QED  BY <1>5, <2>2, <2>3, <2>4, BeginEffect
<1>6. ASSUME NEW s \in Requests, FinishAction(s) PROVE Holds(r, a)
  <2> DEFINE d == request[s].doing
  <2>1. PICK code \in Codes :
          /\ Replied(s, d, code)
          /\ code \in Refusals => /\ UNCHANGED <<version, applied>>
                                  /\ ~VersionCurrent(d) \/ version[intent[d].file] = Gone
          /\ code = "success" => Stored(d)
    BY <1>6, FinishEffect
  <2>2. d \in Actions /\ d \in DOMAIN intent /\ d \notin applied
    BY <1>6, FinishEffect, NamesAssumption DEF UnderWayKnown, MadeByOne
  <2>3. Stored(d) \/ UNCHANGED applied  BY <1>6, FinishEffect
  <2>4. CASE r = s /\ a = d
    <3>1. request'[r].answers[a] = code  BY <2>1, <2>4 DEF Replied
    <3>2. code = "success" => a \in applied'  BY <2>1, <2>4 DEF Stored
    <3>3. code \in Refusals => ~VersionCurrent(d)
      BY <2>1, <2>2, NamesAssumption DEF VersionCurrent, TypeOK
    <3>4. code \in Refusals => a \notin applied' /\ ~VersionCurrent(a)'
      BY <1>0, <2>1, <2>2, <2>4, <3>3
    <3> QED  BY <3>1, <3>2, <3>4
  <2>5. CASE ~(r = s /\ a = d)
    <3>1. a \in DOMAIN request[r].answers /\ request'[r].answers[a] = request[r].answers[a]
      BY <2>1, <2>5 DEF Replied
    <3>2. CASE UNCHANGED applied  BY <1>2, <3>1, <3>2
    <3>3. CASE Stored(d)
      <4>1. request[r].answers[a] \in Refusals => a # d
        BY <3>1, <3>3 DEF Stored, AnswersHold
      <4>2. applied' = applied \union {d}  BY <3>3 DEF Stored
      <4>3. a \in DOMAIN intent  BY <3>1 DEF UnderWayKnown
      <4> QED  BY <1>0, <3>1, <4>1, <4>2, <4>3 DEF AnswersHold
    <3> QED  BY <2>3, <3>2, <3>3
  <2> QED  BY <2>4, <2>5
<1>7. ASSUME UNCHANGED <<applied, request>> PROVE Holds(r, a)  BY <1>2, <1>7
<1> QED  BY <1>3, <1>4, <1>5, <1>6, <1>7 DEF Next, Owner, Tab, Server, Retry, Discard, Reconcile,
            Enqueue, DeleteOnline, StartSync, MarkChunk, ReceiveResponse, AbandonSync, ApplyOutcome,
            vars, server

\* A tab finds in the response of its request a result for each edit it sent.
LEMMA ResultsStep == TypeOK /\ ResultsThere /\ [Next]_vars => ResultsThere'
<1> SUFFICES ASSUME TypeOK, ResultsThere, [Next]_vars PROVE ResultsThere'
  OBVIOUS
<1>0. /\ tab \in [Tabs -> Syncs] /\ request \in [Requests -> Progress] /\ sent \in Nat
      /\ \A t \in Tabs : tab[t].req \in 1..sent => tab[t].req \in Requests
  BY TabType, RequestType, BoundsAssumption DEF TypeOK, Requests
<1> DEFINE Sound(t) == tab'[t].at \in {"sent", "applying"} =>
             /\ tab'[t].req \in 1..sent'
             /\ tab'[t].at = "sent" =>
                  tab'[t].chunk \subseteq request'[tab'[t].req].todo
                                          \union DOMAIN request'[tab'[t].req].answers
             /\ tab'[t].at = "applying" => tab'[t].chunk \subseteq DOMAIN request'[tab'[t].req].answers
<1>1. ASSUME NEW t \in Tabs, UNCHANGED <<request, sent>>, \A u \in Tabs \ {t} : tab'[u] = tab[u],
             Sound(t)
      PROVE  ResultsThere'
  BY <1>1 DEF ResultsThere
<1>2. ASSUME UNCHANGED <<tab, sent>>,
             \A r \in Requests : request[r].todo \union DOMAIN request[r].answers \subseteq
                                   request'[r].todo \union DOMAIN request'[r].answers
                                 /\ DOMAIN request[r].answers \subseteq DOMAIN request'[r].answers
      PROVE  ResultsThere'
  BY <1>0, <1>2 DEF ResultsThere
<1>3. ASSUME NEW t \in Tabs, StartSync(t) PROVE ResultsThere'
  BY <1>1, <1>3, StartEffect DEF StartSync, RunIs, counts
<1>4. ASSUME NEW t \in Tabs, MarkChunk(t) PROVE ResultsThere'
  <2>1. UNCHANGED <<request, sent>>  BY <1>4 DEF MarkChunk, counts
  <2>2. /\ \A u \in Tabs \ {t} : tab'[u] = tab[u]
        /\ tab'[t].at \in {"marked", "idle"}
    BY <1>4, MarkEffect DEF RunIs, RunEnds
  <2> QED  BY <1>1, <2>1, <2>2
<1>5. ASSUME NEW t \in Tabs, SendChunk(t) PROVE ResultsThere'
  <2>1. sent' = sent + 1  BY <1>5 DEF SendChunk
  <2>2. \A u \in Tabs \ {t} : tab'[u] = tab[u]  BY <1>5, SendEffect DEF RunIs
  <2>3. \A u \in Tabs \ {t} : Sound(u)
    BY <1>0, <1>5, <2>1, <2>2, SendEffect DEF ResultsThere
  <2>4. Sound(t)
    <3>1. /\ tab'[t].at = "sent" /\ tab'[t].req = sent + 1 /\ tab'[t].chunk = tab[t].chunk
          /\ request'[sent + 1].todo = tab[t].chunk
      BY <1>5, SendEffect DEF RunIs
    <3> QED  BY <1>0, <2>1, <3>1
  <2> QED  BY <2>3, <2>4 DEF ResultsThere
<1>6. ASSUME NEW t \in Tabs, ReceiveResponse(t) PROVE ResultsThere'
  <2>1. /\ tab'[t].at = "applying" /\ tab'[t].req = tab[t].req /\ tab'[t].chunk = tab[t].chunk
        /\ \A u \in Tabs \ {t} : tab'[u] = tab[u]
    BY <1>6, ReceiveEffect DEF RunIs
  <2>2. tab[t].at = "sent" /\ request[tab[t].req].todo = {} /\ UNCHANGED <<request, sent>>
    BY <1>6 DEF ReceiveResponse, Answered, counts
  <2> QED  BY <1>1, <2>1, <2>2 DEF ResultsThere
<1>7. ASSUME NEW t \in Tabs, AbandonSync(t) PROVE ResultsThere'
  BY <1>1, <1>7, AbandonEffect DEF AbandonSync, RunEnds, RunIs, counts
<1>8. ASSUME NEW t \in Tabs, NEW a \in Actions, ApplyOutcome(t, a) PROVE ResultsThere'
  <2>1. /\ tab[t].at = "applying" /\ UNCHANGED <<request, sent>>
    BY <1>8 DEF ApplyOutcome, counts
  <2>2. /\ \A u \in Tabs \ {t} : tab'[u] = tab[u]
        /\ \/ tab'[t].at \in {"idle", "ready"}
           \/ /\ tab'[t].at = "applying" /\ tab'[t].req = tab[t].req
              /\ tab'[t].chunk \subseteq tab[t].chunk
    BY <1>8, ApplyEffect DEF RunIs, RunEnds
  <2> QED  BY <1>1, <2>1, <2>2 DEF ResultsThere
<1>9. ASSUME NEW r \in Requests, LoseRequest(r) PROVE ResultsThere'
  <2>1. \A s \in Requests : request'[s].todo = request[s].todo /\ request'[s].answers = request[s].answers
    BY <1>0, <1>9 DEF LoseRequest, Progress
  <2> QED  BY <1>2, <1>9, <2>1 DEF LoseRequest, counts
<1>10. ASSUME NEW r \in Requests, NEW a \in Actions, NEW code \in Codes, Replied(r, a, code),
              UNCHANGED <<tab, sent>>
       PROVE  ResultsThere'
  BY <1>2, <1>10 DEF Replied
<1>11. ASSUME NEW r \in Requests, NEW a \in Actions, BeginAction(r, a) PROVE ResultsThere'
  <2>1. CASE Doing(r, a)  BY <1>2, <1>11, <2>1, BeginEffect DEF Doing
  <2> QED  BY <1>10, <1>11, <2>1, BeginEffect DEF Codes
<1>12. ASSUME NEW r \in Requests, FinishAction(r) PROVE ResultsThere'
  BY <1>10, <1>12, FinishEffect
<1>13. ASSUME UNCHANGED <<tab, request, sent>> PROVE ResultsThere'
  BY <1>13 DEF ResultsThere
<1> QED  BY <1>3, <1>4, <1>5, <1>6, <1>7, <1>8, <1>9, <1>11, <1>12, <1>13
         DEF Next, Owner, Tab, Server, Retry, Discard, Reconcile, Enqueue, DeleteOnline, counts, vars

\* An entry is confirmed by a response that says so, or by a file that has the version.
LEMMA ConfirmedStep == IInv /\ [Next]_vars => ConfirmedWasApplied'
<1> SUFFICES ASSUME IInv, [Next]_vars, NEW b \in Actions, queue'[b] = "confirmed" PROVE b \in applied'
  BY DEF ConfirmedWasApplied
<1>0. /\ applied \subseteq applied'
      /\ queue \in [Actions -> Held \union {"new", "confirmed", "discarded"}]
      /\ queue[b] = "confirmed" => b \in applied
  BY VersionsMove DEF IInv, TypeOK, ConfirmedWasApplied
<1>1. ASSUME NEW a \in Actions, Reconcile(a) PROVE b \in applied'
  <2>1. CASE queue[b] = "confirmed"  BY <1>0, <2>1
  <2>2. CASE queue[b] # "confirmed"
    <3>1. b = a /\ version[intent[a].file] = a  BY <1>0, <1>1, <2>2 DEF Reconcile
    <3>2. a \in DOMAIN intent
      BY <1>0, <1>1, <2>2 DEF Reconcile, IInv, EditsKnown, Held
    <3> QED  BY <1>0, <3>1, <3>2 DEF IInv, AnswersHold, TypeOK
  <2> QED  BY <2>1, <2>2
<1>2. ASSUME NEW t \in Tabs, NEW a \in Actions, ApplyOutcome(t, a) PROVE b \in applied'
  <2>1. CASE queue[b] = "confirmed"  BY <1>0, <2>1
  <2>2. CASE queue[b] # "confirmed"
    <3>1. /\ b = a /\ Outcome(request[tab[t].req].answers[a]) = "confirmed"
          /\ tab[t].at = "applying" /\ a \in tab[t].chunk
      <4>1. /\ tab[t].at = "applying" /\ a \in tab[t].chunk
            /\ queue' = [queue EXCEPT ![a] =
                 IF queue[a] \in Held THEN Outcome(request[tab[t].req].answers[a]) ELSE queue[a]]
        BY <1>2, ApplyEffect DEF IInv
      <4>2. b = a  BY <1>0, <2>2, <4>1
      <4> QED  BY <1>0, <2>2, <4>1, <4>2
    <3>2. request[tab[t].req].answers[a] = "success"  BY <3>1 DEF Outcome
    <3>3. tab[t].req \in Requests /\ a \in DOMAIN request[tab[t].req].answers
      BY <3>1, BoundsAssumption DEF IInv, ResultsThere, TypeOK, Requests
    <3> QED  BY <1>0, <3>1, <3>2, <3>3 DEF IInv, AnswersHold
  <2> QED  BY <2>1, <2>2
<1>3. ASSUME queue[b] = "confirmed" PROVE b \in applied'  BY <1>0, <1>3
<1>4. ASSUME NEW t \in Tabs, MarkChunk(t) PROVE b \in applied'
  BY <1>0, <1>3, <1>4, MarkEffect DEF IInv
<1> QED  BY <1>0, <1>1, <1>2, <1>3, <1>4, BeginEffect, FinishEffect DEF IInv, Next, Owner, Tab, Server,
            Retry, Discard, Enqueue, DeleteOnline, StartSync, SendChunk, ReceiveResponse, AbandonSync,
            LoseRequest, vars

\* Every step keeps the inductive invariant.
LEMMA NextIInv == IInv /\ [Next]_vars => IInv'
<1> SUFFICES ASSUME IInv, [Next]_vars PROVE IInv'  OBVIOUS
<1>1. (TypeOK /\ SendsAreSent)'  BY NextType DEF IInv
<1>2. (EditsKnown /\ UnderWayKnown)'  BY KnownStep DEF IInv
<1>3. MadeByOne'  BY MadeStep DEF IInv
<1>4. AnswersHold'  BY AnswersStep DEF IInv
<1>5. ResultsThere'  BY ResultsStep DEF IInv
<1>6. ConfirmedWasApplied'  BY ConfirmedStep
<1> QED  BY <1>1, <1>2, <1>3, <1>4, <1>5, <1>6 DEF IInv

\* The inductive invariant holds in every behaviour.
THEOREM Invariant == Spec => []IInv
BY InitIInv, NextIInv, PTL DEF Spec

\* Every variable keeps its type.
THEOREM TypeCorrect == Spec => []TypeOK
<1>1. IInv => TypeOK  BY DEF IInv
<1> QED  BY <1>1, Invariant, PTL

\* An edit is confirmed only if the server made it, and refused only while no
\* request of it has made it, whatever is lost, repeated, retried or shared
\* between tabs.
THEOREM AnswersTrue == Spec => []AnswersAreTrue
<1>1. IInv => AnswersAreTrue
  BY DEF IInv, AnswersHold, AnswersAreTrue, RefusedWasNotApplied
<1> QED  BY <1>1, Invariant, PTL

-----------------------------------------------------------------------------
\* Each edit of the queue is one of VersionedEdits.
THEOREM EditsImplement == Spec => ImplementsEdits
<1>1. Init => Edits!Init  BY DEF Init, Edits!Init
<1>2. IInv /\ [Next]_vars => [Edits!Next]_(Edits!vars)
  <2> SUFFICES ASSUME IInv, [Next]_vars PROVE Edits!Next \/ UNCHANGED Edits!vars
    OBVIOUS
  <2>1. ASSUME NEW a \in Actions, NEW f \in Files, NEW type \in {"rename", "delete"},
               NEW base \in Actions \union {Initial}, Enqueue(a, f, type, base)
        PROVE  Edits!Next
    <3>1. a \notin DOMAIN intent  BY <2>1 DEF Enqueue, IInv, EditsKnown
    <3>2. Edits!Make(a, f, type, base)
      BY <2>1, <3>1 DEF Enqueue, Edits!Make, SeenVersions, server
    <3> QED  BY <3>2 DEF Edits!Next
  <2>2. ASSUME NEW f \in Files, DeleteOnline(f) PROVE Edits!Next
    <3>1. Edits!Vanish(f)  BY <2>2 DEF DeleteOnline, Edits!Vanish
    <3> QED  BY <3>1 DEF Edits!Next
  <2>3. ASSUME NEW r \in Requests, FinishAction(r) PROVE Edits!Next \/ UNCHANGED Edits!vars
    <3> DEFINE d == request[r].doing
    <3>1. d \in Actions /\ UNCHANGED intent /\ (Stored(d) \/ UNCHANGED <<version, applied>>)
      BY <2>3, FinishEffect DEF IInv
    <3>2. d \in DOMAIN intent \ applied
      BY <3>1, NamesAssumption DEF IInv, UnderWayKnown, MadeByOne
    <3>3. ASSUME Stored(d) PROVE Edits!Next
      <4>1. Edits!TakeEffect(d)
        BY <3>1, <3>2, <3>3 DEF Stored, VersionCurrent, Edits!TakeEffect
      <4> QED  BY <3>1, <4>1 DEF Edits!Next
    <3> QED  BY <3>1, <3>3 DEF Edits!vars
  <2>4. ASSUME UNCHANGED <<version, intent, applied>> PROVE UNCHANGED Edits!vars
    BY <2>4 DEF Edits!vars
  <2> QED  BY <2>1, <2>2, <2>3, <2>4 DEF Next, Owner, Tab, Server, Retry, Discard, Reconcile, StartSync,
              MarkChunk, SendChunk, ReceiveResponse, AbandonSync, ApplyOutcome, LoseRequest, BeginAction,
              vars, server
<1> QED  BY <1>1, <1>2, Invariant, PTL DEF Spec, ImplementsEdits, Edits!Spec

-----------------------------------------------------------------------------
(***************************************************************************)
(* No lost update: a version that an edit replaced is never current again, *)
(* so no second edit of it takes effect.                                   *)
(***************************************************************************)
NoLostUpdate ==
  \A a, b \in applied :
     intent[a].file = intent[b].file /\ intent[a].base = intent[b].base => a = b

ReplacedForGood ==
  /\ \A a \in applied : version[intent[a].file] # intent[a].base
  /\ NoLostUpdate

\* Only an edit that takes effect or a deletion changes a version, and each makes one
\* that no edit can have seen.
LEMMA NextReplaced == IInv /\ ReplacedForGood /\ [Next]_vars => ReplacedForGood'
<1> SUFFICES ASSUME IInv, ReplacedForGood, [Next]_vars PROVE ReplacedForGood'
  OBVIOUS
<1>0. /\ applied \subseteq DOMAIN intent
      /\ \A a \in DOMAIN intent : intent[a].base \in {Initial} \union applied /\ intent[a].file \in Files
      /\ version \in [Files -> Actions \union {Initial, Gone}]
  BY DEF IInv, TypeOK, EditsKnown
<1>g. \A a \in applied : intent[a].base # Gone
  BY <1>0, NamesAssumption DEF IInv, TypeOK
<1>1. ASSUME NEW a \in Actions, NEW f \in Files, NEW type \in {"rename", "delete"},
             NEW base \in Actions \union {Initial}, Enqueue(a, f, type, base)
      PROVE  ReplacedForGood'
  <2>1. a \notin DOMAIN intent  BY <1>1 DEF Enqueue, IInv, EditsKnown
  <2>2. \A b \in applied : intent'[b] = intent[b]  BY <1>0, <1>1, <2>1 DEF Enqueue
  <2>3. UNCHANGED <<version, applied>>  BY <1>1 DEF Enqueue, server
  <2> QED  BY <2>2, <2>3 DEF ReplacedForGood, NoLostUpdate
<1>2. ASSUME NEW f \in Files, DeleteOnline(f) PROVE ReplacedForGood'
  <2>1. /\ version' = [version EXCEPT ![f] = Gone]
        /\ UNCHANGED <<intent, applied>>
    BY <1>2 DEF DeleteOnline
  <2>2. \A a \in applied : version'[intent[a].file] # intent[a].base
    BY <1>0, <1>g, <2>1 DEF ReplacedForGood
  <2> QED  BY <2>1, <2>2 DEF ReplacedForGood, NoLostUpdate
<1>3. ASSUME NEW r \in Requests, FinishAction(r) PROVE ReplacedForGood'
  <2> DEFINE d == request[r].doing
  <2>1. d \in Actions /\ UNCHANGED intent /\ (Stored(d) \/ UNCHANGED <<version, applied>>)
    BY <1>3, FinishEffect DEF IInv
  <2>2. d \in DOMAIN intent \ applied
    BY <2>1, NamesAssumption DEF IInv, UnderWayKnown, MadeByOne
  <2> HIDE DEF d
  <2>3. ASSUME Stored(d) PROVE ReplacedForGood'
    <3>1. /\ version[intent[d].file] = intent[d].base
          /\ applied' = applied \union {d}
          /\ version'[intent[d].file] \in {d, Gone}
          /\ \A f \in Files \ {intent[d].file} : version'[f] = version[f]
      BY <1>0, <2>2, <2>3 DEF Stored, VersionCurrent
    <3>2. \A a \in applied \union {d} : intent[a].base \notin {d, Gone}
      BY <1>0, <2>1, <2>2, NamesAssumption DEF IInv, TypeOK
    <3>3. \A a \in applied' : version'[intent[a].file] # intent[a].base
      BY <1>0, <2>2, <3>1, <3>2 DEF ReplacedForGood
    <3>4. \A a \in applied : intent[a].file = intent[d].file => intent[a].base # intent[d].base
      BY <3>1 DEF ReplacedForGood
    <3> QED  BY <2>1, <3>1, <3>3, <3>4 DEF ReplacedForGood, NoLostUpdate
  <2> QED  BY <2>1, <2>3 DEF ReplacedForGood, NoLostUpdate
<1>4. ASSUME UNCHANGED <<version, intent, applied>> PROVE ReplacedForGood'
  BY <1>4 DEF ReplacedForGood, NoLostUpdate
<1> QED  BY <1>1, <1>2, <1>3, <1>4 DEF Next, Owner, Tab, Server, Retry, Discard, Reconcile, StartSync,
            MarkChunk, SendChunk, ReceiveResponse, AbandonSync, ApplyOutcome, LoseRequest, BeginAction,
            vars, server

\* Of all edits made on the same version of a file, by any tabs, one takes effect.
THEOREM EditsNeverOverwrite == Spec => []NoLostUpdate
<1>1. Init => ReplacedForGood  BY DEF Init, ReplacedForGood, NoLostUpdate
<1>2. ReplacedForGood => NoLostUpdate  BY DEF ReplacedForGood
<1> QED  BY <1>1, <1>2, NextReplaced, Invariant, PTL DEF Spec

-----------------------------------------------------------------------------
(***************************************************************************)
(* With locks between tabs one tab runs at a time, what it has yet to send *)
(* is pending unless the owner discarded it, and an edit's sendings and    *)
(* the one it waits for are at most one more than the owner's retries.     *)
(***************************************************************************)
OneRuns ==
  /\ \A t, u \in Tabs : tab[t].at # "idle" /\ tab[u].at # "idle" => t = u
  /\ \A t \in Tabs : tab[t].at = "idle" => tab[t].ready = {} /\ tab[t].chunk = {}
  /\ \A t \in Tabs : tab[t].at = "ready" => tab[t].chunk = {}
  /\ \A t \in Tabs : \A a \in tab[t].ready \ tab[t].chunk : queue[a] \in {"pending", "discarded"}

Waiting(a) == queue[a] \in {"new", "pending"}
Marked(a) == \E t \in Tabs : tab[t].at = "marked" /\ a \in tab[t].chunk

SendsAreAsked ==
  \A a \in Actions :
     /\ sends[a] <= 1 + retries[a]
     /\ Waiting(a) \/ Marked(a) => sends[a] <= retries[a]
     /\ Waiting(a) /\ Marked(a) => sends[a] + 1 <= retries[a]

Asked == TypeOK /\ (WebLocks => OneRuns /\ SendsAreAsked)

\* Nothing is sent at first.
LEMMA InitAsked == Init => Asked
<1> SUFFICES ASSUME Init PROVE Asked  OBVIOUS
<1>1. TypeOK  BY InitType
<1>2. OneRuns  BY DEF Init, OneRuns, Resting
<1>3. SendsAreAsked  BY DEF Init, SendsAreAsked, Marked, Resting
<1> QED  BY <1>1, <1>2, <1>3 DEF Asked

\* A step of the run of one tab, which marks nothing and sends nothing.
LEMMA AskedStep ==
  ASSUME TypeOK, OneRuns, SendsAreAsked, NEW t \in Tabs, tab[t].at # "idle",
         tab' \in [Tabs -> Syncs], \A u \in Tabs \ {t} : tab'[u] = tab[u],
         tab'[t].at # "marked", UNCHANGED <<sends, retries>>,
         tab'[t].at = "idle" => tab'[t].ready = {} /\ tab'[t].chunk = {},
         tab'[t].at = "ready" => tab'[t].chunk = {},
         \A a \in tab'[t].ready \ tab'[t].chunk : queue'[a] \in {"pending", "discarded"},
         \A a \in Actions : queue'[a] \in {"new", "pending"} => queue[a] \in {"new", "pending"}
  PROVE  (OneRuns /\ SendsAreAsked)'
<1>1. \A u \in Tabs \ {t} : tab[u].at = "idle"  BY DEF OneRuns
<1>2. OneRuns'  BY <1>1 DEF OneRuns
<1>3. \A a \in Actions : ~Marked(a)'  BY <1>1 DEF Marked
<1>4. SendsAreAsked'  BY <1>3 DEF SendsAreAsked, Waiting, TypeOK
<1> QED  BY <1>2, <1>4

\* Every step keeps the balance of sendings and retries.
LEMMA NextAsked == Asked /\ SendsAreSent /\ [Next]_vars => Asked'
<1> SUFFICES ASSUME Asked, SendsAreSent, [Next]_vars PROVE Asked'  OBVIOUS
<1>1. TypeOK /\ TypeOK'  BY NextType DEF Asked
<1> SUFFICES ASSUME WebLocks PROVE (OneRuns /\ SendsAreAsked)'  BY <1>1 DEF Asked
<1>2. OneRuns /\ SendsAreAsked  BY DEF Asked
<1>0. /\ tab \in [Tabs -> Syncs]
      /\ queue \in [Actions -> Held \union {"new", "confirmed", "discarded"}]
      /\ \A a \in Actions : sends[a] \in Nat /\ retries[a] \in Nat
  BY <1>1, TabType DEF TypeOK
<1>3. ASSUME UNCHANGED <<tab, sends, retries>>, NEW a \in Actions, \A b \in Actions \ {a} : queue'[b] = queue[b],
             queue'[a] \in {"new", "pending"} => queue[a] \in {"new", "pending"},
             queue[a] \in {"pending", "discarded"} => queue'[a] \in {"pending", "discarded"}
      PROVE  (OneRuns /\ SendsAreAsked)'
  <2>1. OneRuns'  BY <1>0, <1>2, <1>3 DEF OneRuns, Syncs
  <2>2. SendsAreAsked'  BY <1>2, <1>3 DEF SendsAreAsked, Waiting, Marked
  <2> QED  BY <2>1, <2>2
<1>4. ASSUME NEW a \in Actions, Retry(a) PROVE (OneRuns /\ SendsAreAsked)'
  <2>1. /\ queue[a] \in Held \ {"pending"} /\ queue' = [queue EXCEPT ![a] = "pending"]
        /\ retries' = [retries EXCEPT ![a] = @ + 1] /\ UNCHANGED <<tab, sends>>
    BY <1>4 DEF Retry
  <2>2. OneRuns'  BY <1>0, <1>2, <2>1 DEF OneRuns, Syncs
  <2>3. SendsAreAsked'
    <3> SUFFICES ASSUME NEW b \in Actions
                 PROVE  /\ sends'[b] <= 1 + retries'[b]
                        /\ Waiting(b)' \/ Marked(b)' => sends'[b] <= retries'[b]
                        /\ Waiting(b)' /\ Marked(b)' => sends'[b] + 1 <= retries'[b]
      BY DEF SendsAreAsked
    <3>1. Marked(b)' = Marked(b)  BY <2>1 DEF Marked
    <3>2. CASE b = a
      <4>1. retries'[b] = retries[b] + 1 /\ sends'[b] = sends[b]
        BY <1>1, <2>1, <3>2 DEF TypeOK
      <4>2. sends[b] <= 1 + retries[b] /\ (Marked(b) => sends[b] <= retries[b])
        BY <1>2 DEF SendsAreAsked
      <4> QED  BY <1>0, <3>1, <4>1, <4>2
    <3>3. CASE b # a
      <4>1. retries'[b] = retries[b] /\ sends'[b] = sends[b] /\ queue'[b] = queue[b]
        BY <1>1, <2>1, <3>3 DEF TypeOK
      <4> QED  BY <1>2, <3>1, <4>1 DEF SendsAreAsked, Waiting
    <3> QED  BY <3>2, <3>3
  <2> QED  BY <2>2, <2>3
<1>5. ASSUME NEW a \in Actions, Discard(a) \/ Reconcile(a) PROVE (OneRuns /\ SendsAreAsked)'
  BY <1>0, <1>3, <1>5 DEF Discard, Reconcile, counts, Held
<1>6. ASSUME NEW a \in Actions, NEW f \in Files, NEW type \in {"rename", "delete"},
             NEW base \in Actions \union {Initial}, Enqueue(a, f, type, base)
      PROVE  (OneRuns /\ SendsAreAsked)'
  BY <1>0, <1>3, <1>6 DEF Enqueue, counts
<1>7. ASSUME NEW t \in Tabs, StartSync(t) PROVE (OneRuns /\ SendsAreAsked)'
  <2>1. /\ RunIs(t, "ready", {a \in Actions : queue[a] = "pending"}, {}, 0)
        /\ \A u \in Tabs : tab[u].at = "idle" /\ UNCHANGED <<queue, sends, retries>>
    BY <1>1, <1>7, StartEffect DEF StartSync, counts
  <2>2. OneRuns'  BY <1>2, <2>1 DEF OneRuns, RunIs
  <2>3. \A a \in Actions : ~Marked(a)'  BY <2>1 DEF Marked, RunIs
  <2>4. SendsAreAsked'  BY <1>2, <2>1, <2>3 DEF SendsAreAsked, Waiting
  <2> QED  BY <2>2, <2>4
<1>8. ASSUME NEW t \in Tabs, MarkChunk(t) PROVE (OneRuns /\ SendsAreAsked)'
  <2>1. PICK S \in SUBSET tab[t].ready :
          /\ queue' = [a \in Actions |-> IF a \in S /\ queue[a] \in Held THEN "unknown" ELSE queue[a]]
          /\ \/ RunEnds(t)
             \/ /\ \A a \in S : queue[a] \in Held
                /\ RunIs(t, "marked", tab[t].ready, S, tab[t].req)
    BY <1>1, <1>8, MarkEffect
  <2>2. tab[t].at = "ready" /\ UNCHANGED <<sends, retries>>  BY <1>8 DEF MarkChunk, counts
  <2>3. CASE RunEnds(t)
    <3>1. \A a \in Actions : queue'[a] \in {"new", "pending"} => queue[a] \in {"new", "pending"}
      BY <2>1 DEF Held
    <3> QED  BY <1>1, <1>2, <2>2, <2>3, <3>1, AskedStep DEF RunEnds, RunIs
  <2>4. CASE (\A a \in S : queue[a] \in Held) /\ RunIs(t, "marked", tab[t].ready, S, tab[t].req)
    <3>1. \A u \in Tabs \ {t} : tab[u].at = "idle" /\ tab'[u] = tab[u]
      BY <1>2, <2>2, <2>4 DEF OneRuns, RunIs
    <3>2. S \subseteq Actions /\ tab[t].ready \subseteq Actions  BY <1>0, <2>1 DEF Syncs
    <3>3. \A a \in S : queue[a] = "pending" /\ queue'[a] = "unknown"
      BY <1>2, <2>1, <2>2, <2>4, <3>2 DEF OneRuns, Held
    <3>4. \A a \in Actions \ S : queue'[a] = queue[a]  BY <2>1
    <3>5. OneRuns'  BY <1>2, <2>2, <2>4, <3>1, <3>2, <3>4 DEF OneRuns, RunIs
    <3>6. \A a \in Actions : Marked(a)' => a \in S
      BY <2>4, <3>1 DEF Marked, RunIs
    <3>7. SendsAreAsked'
      BY <1>0, <1>2, <2>2, <3>3, <3>4, <3>6 DEF SendsAreAsked, Waiting
    <3> QED  BY <3>5, <3>7
  <2> QED  BY <2>1, <2>3, <2>4
<1>9. ASSUME NEW t \in Tabs, SendChunk(t) PROVE (OneRuns /\ SendsAreAsked)'
  <2>1. /\ tab[t].at = "marked" /\ UNCHANGED <<queue, retries>>
        /\ sends' = [a \in Actions |-> IF a \in tab[t].chunk THEN sends[a] + 1 ELSE sends[a]]
        /\ RunIs(t, "sent", tab[t].ready, tab[t].chunk, sent + 1)
    BY <1>1, <1>9, SendEffect DEF SendChunk
  <2>2. \A u \in Tabs \ {t} : tab[u].at = "idle" /\ tab'[u] = tab[u]
    BY <1>2, <2>1 DEF OneRuns, RunIs
  <2>3. OneRuns'  BY <1>2, <2>1, <2>2 DEF OneRuns, RunIs
  <2>4. \A a \in Actions : ~Marked(a)' /\ (a \in tab[t].chunk => Marked(a))
    BY <2>1, <2>2 DEF Marked, RunIs
  <2>5. SendsAreAsked'
    BY <1>0, <1>2, <2>1, <2>4 DEF SendsAreAsked, Waiting
  <2> QED  BY <2>3, <2>5
<1>10. ASSUME NEW t \in Tabs, ReceiveResponse(t) \/ AbandonSync(t) PROVE (OneRuns /\ SendsAreAsked)'
  <2>1. UNCHANGED <<queue, sends, retries>> /\ tab[t].at # "idle"
    BY <1>10 DEF ReceiveResponse, AbandonSync, counts
  <2>2. CASE RunEnds(t)  BY <1>1, <1>2, <2>1, <2>2, AskedStep DEF RunEnds, RunIs
  <2>3. CASE RunIs(t, "applying", tab[t].ready, tab[t].chunk, tab[t].req)
    <3>1. \A a \in tab[t].ready \ tab[t].chunk : queue[a] \in {"pending", "discarded"}
      BY <1>2 DEF OneRuns
    <3> QED  BY <1>1, <1>2, <2>1, <2>3, <3>1, AskedStep DEF RunIs
  <2> QED  BY <1>1, <1>10, <2>2, <2>3, ReceiveEffect, AbandonEffect
<1>11. ASSUME NEW t \in Tabs, NEW a \in Actions, ApplyOutcome(t, a) PROVE (OneRuns /\ SendsAreAsked)'
  <2>1. /\ tab[t].at = "applying" /\ a \in tab[t].chunk
        /\ queue' = [queue EXCEPT ![a] =
             IF queue[a] \in Held THEN Outcome(request[tab[t].req].answers[a]) ELSE queue[a]]
        /\ \/ RunEnds(t)
           \/ tab[t].chunk = {a} /\ RunIs(t, "ready", tab[t].ready \ {a}, {}, 0)
           \/ RunIs(t, "applying", tab[t].ready \ {a}, tab[t].chunk \ {a}, tab[t].req)
    BY <1>1, <1>11, ApplyEffect
  <2>2. UNCHANGED <<sends, retries>>  BY <1>11 DEF ApplyOutcome, counts
  <2>3. /\ \A b \in Actions \ {a} : queue'[b] = queue[b]
        /\ queue'[a] \in {"new", "pending"} => queue[a] \in {"new", "pending"}
    BY <1>0, <2>1 DEF Outcome
  <2>4. \A b \in tab[t].ready \ tab[t].chunk : b \in Actions /\ b # a /\ queue[b] \in {"pending", "discarded"}
    BY <1>0, <1>2, <2>1 DEF OneRuns, Syncs
  <2>5. CASE RunEnds(t)  BY <1>1, <1>2, <2>1, <2>2, <2>3, <2>5, AskedStep DEF RunEnds, RunIs
  <2>6. CASE tab[t].chunk = {a} /\ RunIs(t, "ready", tab[t].ready \ {a}, {}, 0)
    BY <1>1, <1>2, <2>1, <2>2, <2>3, <2>4, <2>6, AskedStep DEF RunIs
  <2>7. CASE RunIs(t, "applying", tab[t].ready \ {a}, tab[t].chunk \ {a}, tab[t].req)
    BY <1>1, <1>2, <2>1, <2>2, <2>3, <2>4, <2>7, AskedStep DEF RunIs
  <2> QED  BY <2>1, <2>5, <2>6, <2>7
<1>12. ASSUME UNCHANGED <<tab, queue, sends, retries>> PROVE (OneRuns /\ SendsAreAsked)'
  BY <1>2, <1>12 DEF OneRuns, SendsAreAsked, Waiting, Marked
<1> QED  BY <1>1, <1>4, <1>5, <1>6, <1>7, <1>8, <1>9, <1>10, <1>11, <1>12, BeginEffect, FinishEffect
         DEF Next, Owner, Tab, Server, DeleteOnline, LoseRequest, counts, vars

\* With locks between tabs, an edit is sent again only when the owner asks.
THEOREM SentAsAsked == Spec => []SentOnlyWhenAsked
<1>1. Asked /\ SendsAreSent => SentOnlyWhenAsked  BY DEF Asked, SendsAreAsked, SentOnlyWhenAsked
<1>2. Init => Asked /\ SendsAreSent  BY InitAsked, InitType
<1>3. Asked /\ SendsAreSent /\ [Next]_vars => (Asked /\ SendsAreSent)'
  BY NextAsked, NextType DEF Asked
<1> QED  BY <1>1, <1>2, <1>3, PTL DEF Spec
=============================================================================
