----------------------- MODULE ExternalAccess_proofs -----------------------
(***************************************************************************)
(* Proofs about ExternalAccess for any finite sets of recipients, links    *)
(* and requests and any limits.                                            *)
(***************************************************************************)
EXTENDS ExternalAccess, FiniteSetTheorems, TLAPS

(***************************************************************************)
(* What the invariants rest on: a fetch past its look-up knows its link; a *)
(* token without a row has no use; a link is within its limit, and an open *)
(* one below it; no row is newer than the last grant; and a revocation of  *)
(* everything holds, from each of its statements on, every row that was    *)
(* there when it was received and still is.                                *)
(***************************************************************************)
FetchKnowsLink ==
  \A q \in Requests : req[q].at \in {"found", "opened", "streaming"} => req[q].link \in Links

LinksWithinLimit ==
  \A l \in Links :
     /\ link[l].state = "none" => link[l].count = 0
     /\ link[l].max > 0 => link[l].count <= link[l].max
     /\ link[l].state = "open" /\ link[l].max > 0 => link[l].count < link[l].max

Streaming(l) == {q \in Requests : req[q].at = "streaming" /\ req[q].link = l}
ServedIsCounted == \A l \in Links : Cardinality(Streaming(l)) <= link[l].count

KeysAreGranted ==
  /\ \A r \in Recipients : keys[r] <= grants[r]
  /\ \A q \in Requests : \A k \in req[q].hadKeys : k[2] <= grants[k[1]]

RowsExist ==
  \A q \in Requests : \A l \in req[q].hadLinks \union req[q].links : link[l].state # "none"

KeysHeld ==
  \A q \in Requests : req[q].at \in {"holding", "closing"} =>
     \A k \in req[q].hadKeys : keys[k[1]] = k[2] => k[1] \in req[q].keys

LinksHeld ==
  \A q \in Requests : req[q].at = "closing" => req[q].hadLinks \intersect OpenLinks \subseteq req[q].links

IInv ==
  /\ TypeOK
  /\ FetchKnowsLink
  /\ LinksWithinLimit
  /\ ServedIsCounted
  /\ KeysAreGranted
  /\ RowsExist
  /\ KeysHeld
  /\ LinksHeld
  /\ RevokeAllCloses

-----------------------------------------------------------------------------
\* Nothing is shared and nothing asked at first.
LEMMA InitIInv == Init => IInv
<1> SUFFICES ASSUME Init PROVE IInv  OBVIOUS
<1>1. TypeOK
  BY LimitsAssumption DEF Init, TypeOK, NoRow, Rows, Clocks, Idle, Steps, Records, Progress
<1>2. ServedIsCounted
  <2> SUFFICES ASSUME NEW l \in Links PROVE Cardinality(Streaming(l)) <= link[l].count
    BY DEF ServedIsCounted
  <2>1. Streaming(l) = {}  BY DEF Init, Idle, Streaming
  <2>2. Cardinality(Streaming(l)) = 0  BY <2>1, FS_EmptySet
  <2> QED  BY <2>2 DEF Init, NoRow
<1>3. FetchKnowsLink /\ LinksWithinLimit /\ KeysHeld /\ LinksHeld /\ RevokeAllCloses
  BY LimitsAssumption DEF Init, FetchKnowsLink, LinksWithinLimit, NoRow, Idle, KeysHeld,
     LinksHeld, RevokeAllCloses
<1>4. KeysAreGranted /\ RowsExist  BY DEF Init, KeysAreGranted, RowsExist, Idle
<1> QED  BY <1>1, <1>2, <1>3, <1>4 DEF IInv

\* The answer of a request is well typed.
LEMMA EndedType ==
  ASSUME TypeOK, NEW q \in Requests, NEW at \in Steps
  PROVE  Ended(q, at) \in [Requests -> Progress]
<1>1. req[q] \in Progress  BY DEF TypeOK
<1>2. [Idle EXCEPT !.at = at] \in Progress  BY DEF Idle, Progress
<1>3. [req[q] EXCEPT !.at = at, !.keys = {}, !.links = {}] \in Progress
  BY <1>1 DEF Progress
<1>4. PICK row \in Progress : Ended(q, at) = [req EXCEPT ![q] = row]
  BY <1>2, <1>3 DEF Ended
<1> QED  BY <1>4 DEF TypeOK

\* Closing links keeps their rows well typed.
LEMMA ClosedType == ASSUME TypeOK, NEW S PROVE Closed(S) \in [Links -> Rows]
BY DEF TypeOK, Closed, Rows

\* The row of a link that is used once more is well typed.
LEMMA UsedType == ASSUME NEW row \in Rows PROVE Used(row) \in Rows
<1>1. row.count + 1 \in Nat  BY DEF Rows
<1> QED  BY <1>1 DEF Rows, Used

\* The recipients, links and requests are finitely many.
LEMMA Finite == IsFiniteSet(Recipients) /\ IsFiniteSet(Links) /\ IsFiniteSet(Requests)
BY FinitenessAssumption

\* Every operation keeps the types.
LEMMA NextType == TypeOK /\ [Next]_vars => TypeOK'
<1> SUFFICES ASSUME TypeOK, [Next]_vars PROVE TypeOK'  OBVIOUS
<1> USE LimitsAssumption
<1>1. ASSUME NEW r \in Recipients, ShareFile(r) PROVE TypeOK'
  BY <1>1 DEF TypeOK, ShareFile
<1>2. ASSUME NEW r \in Recipients, RevokeKey(r) PROVE TypeOK'
  BY <1>2 DEF TypeOK, RevokeKey
<1>3. ASSUME NEW l \in Links, CloseLink(l) PROVE TypeOK'
  <2>1. record' \in Records  BY <1>3 DEF TypeOK, CloseLink, Records
  <2> QED  BY <1>3, <2>1, ClosedType DEF TypeOK, CloseLink
<1>4. ASSUME NEW l \in Links, Elapse(l) PROVE TypeOK'
  BY <1>4 DEF TypeOK, Elapse, Rows, Clocks
<1>5. ASSUME NEW l \in Links, NEW max \in 0..MaxDownloads, NEW clock \in Clocks, CreateLink(l, max, clock)
      PROVE  TypeOK'
  BY <1>5 DEF TypeOK, CreateLink, Rows
<1>6. ASSUME NEW q \in Requests, NEW l \in Links, LookUp(q, l) PROVE TypeOK'
  <2>1. [req[q] EXCEPT !.at = "found", !.link = l] \in Progress  BY DEF TypeOK, Steps, Progress
  <2>2. req' = [req EXCEPT ![q] = [req[q] EXCEPT !.at = "found", !.link = l]]
    BY <1>6 DEF LookUp, TypeOK
  <2> QED  BY <1>6, <2>1, <2>2 DEF TypeOK, LookUp
<1>7. ASSUME NEW q \in Requests, OpenStored(q) PROVE TypeOK'
  <2>1. req' \in [Requests -> Progress]
    <3>1. CASE file = "stored"
      <4>1. [req[q] EXCEPT !.at = "opened"] \in Progress  BY DEF TypeOK, Steps, Progress
      <4> QED  BY <1>7, <3>1, <4>1 DEF TypeOK, OpenStored
    <3>2. CASE file # "stored"  BY <1>7, <3>2, EndedType DEF OpenStored, Steps
    <3> QED  BY <3>1, <3>2
  <2> QED  BY <1>7, <2>1 DEF TypeOK, OpenStored
<1>8. ASSUME NEW q \in Requests, Claim(q) PROVE TypeOK'
  <2>1. link' \in [Links -> Rows]  BY <1>8, UsedType DEF TypeOK, Claim
  <2>2. PICK at \in Steps : req' = Ended(q, at)  BY <1>8 DEF Claim, Steps
  <2> QED  BY <1>8, <2>1, <2>2, EndedType DEF TypeOK, Claim
<1>9. ASSUME NEW q \in Requests, BeginRevokeAll(q) PROVE TypeOK'
  <2> DEFINE had == {k \in Recipients \X (1..MaxGrants) : keys[k[1]] = k[2]}
  <2>1. had \in SUBSET (Recipients \X (1..MaxGrants)) /\ OpenLinks \in SUBSET Links
    BY DEF OpenLinks
  <2>2. req' = [req EXCEPT ![q] = [req[q] EXCEPT !.at = "begun", !.hadLinks = OpenLinks, !.hadKeys = had]]
    BY <1>9 DEF BeginRevokeAll, TypeOK
  <2> HIDE DEF had
  <2>3. [req[q] EXCEPT !.at = "begun", !.hadLinks = OpenLinks, !.hadKeys = had] \in Progress
    <3>1. req[q] \in Progress /\ "begun" \in Steps  BY DEF TypeOK, Steps
    <3> QED  BY <2>1, <3>1 DEF Progress
  <2>4. req' \in [Requests -> Progress]  BY <2>2, <2>3 DEF TypeOK
  <2> QED  BY <1>9, <2>4 DEF TypeOK, BeginRevokeAll
<1>10. ASSUME NEW q \in Requests, DeleteKeys(q) PROVE TypeOK'
  <2>1. PICK rows \in SUBSET Recipients :
           req' = [req EXCEPT ![q] = [req[q] EXCEPT !.at = "holding", !.keys = rows]]
    BY <1>10 DEF DeleteKeys, TypeOK
  <2>2. [req[q] EXCEPT !.at = "holding", !.keys = rows] \in Progress  BY DEF TypeOK, Steps, Progress
  <2> QED  BY <1>10, <2>1, <2>2 DEF TypeOK, DeleteKeys
<1>11. ASSUME NEW q \in Requests, CloseLinks(q) PROVE TypeOK'
  <2>1. [req[q] EXCEPT !.at = "closing", !.links = LinksToClose] \in Progress
    BY DEF TypeOK, Steps, Progress, LinksToClose, OpenLinks
  <2>2. req' = [req EXCEPT ![q] = [req[q] EXCEPT !.at = "closing", !.links = LinksToClose]]
    BY <1>11 DEF CloseLinks, TypeOK
  <2> QED  BY <1>11, <2>1, <2>2 DEF TypeOK, CloseLinks
<1>12. ASSUME NEW q \in Requests, CommitRevokeAll(q) PROVE TypeOK'
  <2>1. req[q].keys \subseteq Recipients /\ req[q].links \subseteq Links  BY DEF TypeOK, Progress
  <2>2. Cardinality(req[q].keys) \in Nat /\ Cardinality(req[q].links) \in Nat
    BY <2>1, Finite, FS_Subset, FS_CardinalityType
  <2>3. record' \in Records
    <3>1. /\ record.links + Cardinality(req[q].links) \in Nat
          /\ record.keys + Cardinality(req[q].keys) \in Nat
      BY <2>2 DEF TypeOK, Records
    <3> QED  BY <1>12, <3>1 DEF TypeOK, CommitRevokeAll, Records
  <2>4. PICK at \in Steps : req' = Ended(q, at)  BY <1>12 DEF CommitRevokeAll, Steps
  <2>5. keys' \in [Recipients -> 0..MaxGrants]  BY <1>12 DEF TypeOK, CommitRevokeAll
  <2> QED  BY <1>12, <2>3, <2>4, <2>5, EndedType, ClosedType DEF TypeOK, CommitRevokeAll
<1>13. ASSUME NEW q \in Requests, RollBackRevokeAll(q) PROVE TypeOK'
  BY <1>13, EndedType DEF TypeOK, RollBackRevokeAll, Steps
<1>14. CASE RemoveStored  BY <1>14 DEF TypeOK, RemoveStored
<1>15. CASE DeleteRow  BY <1>15, ClosedType DEF TypeOK, DeleteRow
<1>16. CASE UNCHANGED vars  BY <1>16 DEF TypeOK, vars
<1> QED  BY <1>1, <1>2, <1>3, <1>4, <1>5, <1>6, <1>7, <1>8, <1>9, <1>10, <1>11, <1>12, <1>13, <1>14,
            <1>15, <1>16 DEF Next, Fetch, RevokeAll

\* Every reachable state of the file's access is well typed.
THEOREM TypeCorrect == Spec => []TypeOK
<1>1. Init => TypeOK  BY InitIInv DEF IInv
<1> QED  BY <1>1, NextType, PTL DEF Spec

-----------------------------------------------------------------------------
(***************************************************************************)
(* How rows move in a step: no link comes back, no key row comes back, and *)
(* a request either stays as it is or is not one that holds rows.          *)
(***************************************************************************)
LinksMove ==
  \A l \in Links : link[l].state # "none" =>
     link'[l].state # "none" /\ (link'[l].state = "open" => link[l].state = "open")

KeysMove ==
  \A r \in Recipients :
     /\ grants[r] <= grants'[r] /\ keys'[r] <= grants'[r]
     /\ keys'[r] = keys[r] \/ keys'[r] = 0 \/ keys'[r] > grants[r]

RequestMoves(p) ==
  \/ req'[p] = req[p]
  \/ /\ req'[p].at \notin {"holding", "closing", "done"}
     /\ req'[p].hadKeys \subseteq req[p].hadKeys
     /\ req'[p].hadLinks \subseteq req[p].hadLinks
     /\ req'[p].links \subseteq req[p].links

\* What a revocation of everything is after survives such steps.
LEMMA MovesKeep ==
  ASSUME IInv, TypeOK', LinksMove, KeysMove, \A p \in Requests : RequestMoves(p)
  PROVE  KeysAreGranted' /\ RowsExist' /\ KeysHeld' /\ LinksHeld' /\ RevokeAllCloses'
<1> USE LimitsAssumption
<1>1. KeysAreGranted'
  <2>1. ASSUME NEW q \in Requests, NEW k \in req'[q].hadKeys PROVE k[2] <= grants'[k[1]]
    <3>1. k \in req[q].hadKeys  BY <2>1 DEF RequestMoves
    <3>2. k[1] \in Recipients /\ k[2] \in Nat /\ k[2] <= grants[k[1]]
      BY <3>1 DEF IInv, KeysAreGranted, TypeOK, Progress
    <3> QED  BY <3>2 DEF KeysMove, IInv, TypeOK
  <2> QED  BY <2>1 DEF KeysAreGranted, KeysMove
<1>2. RowsExist'
  BY DEF IInv, RowsExist, LinksMove, RequestMoves, TypeOK, Progress
<1>3. ASSUME NEW q \in Requests, req'[q] = req[q], NEW k \in req[q].hadKeys, keys'[k[1]] = k[2]
      PROVE  keys[k[1]] = k[2]
  <2>1. k[1] \in Recipients /\ k[2] \in 1..MaxGrants  BY DEF IInv, TypeOK, Progress
  <2>2. k[2] <= grants[k[1]] /\ grants[k[1]] \in Nat  BY <2>1 DEF IInv, KeysAreGranted, TypeOK
  <2> QED  BY <1>3, <2>1, <2>2 DEF KeysMove
<1>4. KeysHeld'  BY <1>3 DEF IInv, KeysHeld, RequestMoves
<1>5. ASSUME NEW q \in Requests, req'[q] = req[q], NEW l \in req[q].hadLinks, l \in OpenLinks'
      PROVE  l \in OpenLinks
  BY <1>5 DEF IInv, RowsExist, LinksMove, OpenLinks
<1>6. LinksHeld'  BY <1>5 DEF IInv, LinksHeld, RequestMoves
<1>7. RevokeAllCloses'  BY <1>3, <1>5 DEF IInv, RevokeAllCloses, RequestMoves
<1> QED  BY <1>1, <1>2, <1>4, <1>6, <1>7

\* No use is taken back and none is served without being counted.
LEMMA ServedKept ==
  ASSUME IInv, TypeOK', \A l \in Links : Streaming(l)' \subseteq Streaming(l) /\ link[l].count <= link'[l].count
  PROVE  ServedIsCounted'
<1> SUFFICES ASSUME NEW l \in Links PROVE Cardinality(Streaming(l)') <= link'[l].count
  BY DEF ServedIsCounted
<1>1. IsFiniteSet(Streaming(l))  BY Finite, FS_Subset DEF Streaming
<1>2. /\ Cardinality(Streaming(l)') <= Cardinality(Streaming(l))
      /\ Cardinality(Streaming(l)') \in Nat /\ Cardinality(Streaming(l)) \in Nat
  BY <1>1, FS_Subset, FS_CardinalityType
<1>3. link[l].count \in Nat /\ link'[l].count \in Nat  BY DEF IInv, TypeOK, Rows
<1> QED  BY <1>2, <1>3 DEF IInv, ServedIsCounted

\* Closing links changes nothing else of them.
LEMMA ClosedFacts ==
  ASSUME TypeOK, NEW S, link' = Closed(S), NEW l \in Links
  PROVE  /\ link'[l].count = link[l].count /\ link'[l].max = link[l].max
         /\ link'[l].state = IF l \in S THEN "closed" ELSE link[l].state
BY DEF TypeOK, Closed, Rows

\* What is left of a request that is answered.
LEMMA EndedFacts ==
  ASSUME TypeOK, NEW q \in Requests, NEW at \in Steps, req' = Ended(q, at)
  PROVE  /\ \A p \in Requests \ {q} : req'[p] = req[p]
         /\ req'[q].at = at
         /\ req'[q].hadKeys \subseteq req[q].hadKeys
         /\ req'[q].hadLinks \subseteq req[q].hadLinks
         /\ req'[q].links = {}
         /\ at # "failed" => req'[q].link = req[q].link
BY DEF TypeOK, Ended, Idle, Progress

\* A step that leaves the requests alone, loses no use and moves rows as above
\* keeps the invariant.
LEMMA RowStep ==
  ASSUME IInv, TypeOK', UNCHANGED req, LinksMove, KeysMove, LinksWithinLimit',
         \A l \in Links : link[l].count <= link'[l].count
  PROVE  IInv'
<1>1. \A p \in Requests : RequestMoves(p)  BY DEF RequestMoves
<1>2. FetchKnowsLink'  BY DEF IInv, FetchKnowsLink
<1>3. ServedIsCounted'  BY ServedKept DEF Streaming
<1> QED  BY <1>1, <1>2, <1>3, MovesKeep DEF IInv

\* So does a step that closes links and may delete keys.
LEMMA ClosingStep ==
  ASSUME IInv, TypeOK', UNCHANGED <<req, grants>>, NEW S \in SUBSET OpenLinks, link' = Closed(S),
         \A r \in Recipients : keys'[r] \in {keys[r], 0}
  PROVE  IInv'
<1>1. \A l \in Links : /\ link'[l].count = link[l].count /\ link'[l].max = link[l].max
                       /\ link'[l].state = IF l \in S THEN "closed" ELSE link[l].state
  BY ClosedFacts DEF IInv
<1>2. LinksMove  BY <1>1 DEF LinksMove
<1>3. KeysMove  BY DEF KeysMove, IInv, TypeOK, KeysAreGranted
<1>4. LinksWithinLimit'  BY <1>1 DEF IInv, LinksWithinLimit, OpenLinks
<1>5. \A l \in Links : link[l].count <= link'[l].count  BY <1>1 DEF IInv, TypeOK, Rows
<1> QED  BY <1>2, <1>3, <1>4, <1>5, RowStep

\* A step of one fetch that leaves the tables alone keeps the invariant.
LEMMA FetchStep ==
  ASSUME IInv, TypeOK', UNCHANGED <<keys, grants, link>>, NEW q \in Requests, RequestMoves(q),
         \A p \in Requests \ {q} : req'[p] = req[p],
         req'[q].at # "streaming",
         req'[q].at \in {"found", "opened"} => req'[q].link \in Links
  PROVE  IInv'
<1>1. \A p \in Requests : RequestMoves(p)  BY DEF RequestMoves
<1>2. LinksMove /\ KeysMove  BY DEF LinksMove, KeysMove, IInv, TypeOK, KeysAreGranted
<1>3. FetchKnowsLink'  BY DEF IInv, FetchKnowsLink
<1>4. \A l \in Links : Streaming(l)' \subseteq Streaming(l) /\ link[l].count <= link'[l].count
  BY DEF Streaming, IInv, TypeOK, Rows
<1>5. ServedIsCounted'  BY <1>4, ServedKept
<1>6. LinksWithinLimit'  BY DEF IInv, LinksWithinLimit
<1> QED  BY <1>1, <1>2, <1>3, <1>5, <1>6, MovesKeep DEF IInv

\* Every operation keeps the invariant.
LEMMA NextIInv == IInv /\ [Next]_vars => IInv'
<1> SUFFICES ASSUME IInv, [Next]_vars PROVE IInv'  OBVIOUS
<1> USE LimitsAssumption
<1>0. TypeOK /\ TypeOK'  BY NextType DEF IInv
<1>1. ASSUME NEW r \in Recipients, ShareFile(r) PROVE IInv'
  <2>1. grants'[r] = grants[r] + 1 /\ keys'[r] = grants[r] + 1  BY <1>0, <1>1 DEF ShareFile, TypeOK
  <2>2. \A s \in Recipients \ {r} : grants'[s] = grants[s] /\ keys'[s] = keys[s]
    BY <1>0, <1>1 DEF ShareFile, TypeOK
  <2>3. KeysMove  BY <1>0, <2>1, <2>2 DEF KeysMove, IInv, KeysAreGranted, TypeOK
  <2>4. LinksMove /\ LinksWithinLimit' /\ \A l \in Links : link[l].count <= link'[l].count
    BY <1>0, <1>1 DEF ShareFile, LinksMove, IInv, LinksWithinLimit, TypeOK, Rows
  <2> QED  BY <1>0, <1>1, <2>3, <2>4, RowStep DEF ShareFile
<1>2. ASSUME NEW r \in Recipients, RevokeKey(r) PROVE IInv'
  <2>1. LinksMove /\ LinksWithinLimit' /\ \A l \in Links : link[l].count <= link'[l].count
    BY <1>0, <1>2 DEF RevokeKey, LinksMove, IInv, LinksWithinLimit, TypeOK, Rows
  <2>2. KeysMove  BY <1>0, <1>2 DEF RevokeKey, KeysMove, IInv, KeysAreGranted, TypeOK
  <2> QED  BY <1>0, <1>2, <2>1, <2>2, RowStep DEF RevokeKey
<1>3. ASSUME NEW l \in Links, CloseLink(l) PROVE IInv'
  <2>1. {l} \in SUBSET OpenLinks  BY <1>3 DEF CloseLink, OpenLinks
  <2> QED  BY <1>0, <1>3, <2>1, ClosingStep DEF CloseLink, TypeOK
<1>4. ASSUME NEW l \in Links, Elapse(l) PROVE IInv'
  <2>1. \A m \in Links : /\ link'[m].state = link[m].state
                         /\ link'[m].count = link[m].count /\ link'[m].max = link[m].max
    BY <1>0, <1>4 DEF Elapse, TypeOK, Rows
  <2>2. LinksMove /\ LinksWithinLimit' /\ \A m \in Links : link[m].count <= link'[m].count
    BY <1>0, <2>1 DEF LinksMove, IInv, LinksWithinLimit, TypeOK, Rows
  <2>3. KeysMove  BY <1>0, <1>4 DEF Elapse, KeysMove, IInv, KeysAreGranted, TypeOK
  <2> QED  BY <1>0, <1>4, <2>2, <2>3, RowStep DEF Elapse
<1>5. ASSUME NEW l \in Links, NEW max \in 0..MaxDownloads, NEW clock \in Clocks, CreateLink(l, max, clock)
      PROVE  IInv'
  <2>1. link'[l] = [state |-> "open", max |-> max, count |-> 0, clock |-> clock]
    BY <1>0, <1>5 DEF CreateLink, TypeOK
  <2>2. \A m \in Links \ {l} : link'[m] = link[m]  BY <1>0, <1>5 DEF CreateLink, TypeOK
  <2>3. link[l].state = "none" /\ link[l].count = 0  BY <1>5 DEF CreateLink, IInv, LinksWithinLimit
  <2>4. LinksMove  BY <2>1, <2>2, <2>3 DEF LinksMove
  <2>5. LinksWithinLimit'  BY <2>1, <2>2 DEF IInv, LinksWithinLimit
  <2>6. \A m \in Links : link[m].count <= link'[m].count
    BY <1>0, <2>1, <2>2, <2>3 DEF TypeOK, Rows
  <2>7. KeysMove  BY <1>0, <1>5 DEF CreateLink, KeysMove, IInv, KeysAreGranted, TypeOK
  <2> QED  BY <1>0, <1>5, <2>4, <2>5, <2>6, <2>7, RowStep DEF CreateLink
<1>6. ASSUME NEW q \in Requests, NEW l \in Links, LookUp(q, l) PROVE IInv'
  <2>1. req' = [req EXCEPT ![q] = [req[q] EXCEPT !.at = "found", !.link = l]]
    BY <1>0, <1>6 DEF LookUp, TypeOK
  <2>2. /\ req'[q].at = "found" /\ req'[q].link = l
        /\ req'[q].hadKeys = req[q].hadKeys /\ req'[q].hadLinks = req[q].hadLinks
        /\ req'[q].links = req[q].links
        /\ \A p \in Requests \ {q} : req'[p] = req[p]
    BY <1>0, <2>1 DEF TypeOK, Progress
  <2>3. RequestMoves(q)  BY <2>2 DEF RequestMoves
  <2> QED  BY <1>0, <1>6, <2>2, <2>3, FetchStep DEF LookUp
<1>7. ASSUME NEW q \in Requests, OpenStored(q) PROVE IInv'
  <2>1. CASE file = "stored"
    <3>1. /\ req'[q].at = "opened" /\ req'[q].link = req[q].link
          /\ req'[q].hadKeys = req[q].hadKeys /\ req'[q].hadLinks = req[q].hadLinks
          /\ req'[q].links = req[q].links
          /\ \A p \in Requests \ {q} : req'[p] = req[p]
      BY <1>0, <1>7, <2>1 DEF OpenStored, TypeOK, Progress
    <3>2. RequestMoves(q)  BY <3>1 DEF RequestMoves
    <3>3. req[q].link \in Links  BY <1>7 DEF OpenStored, IInv, FetchKnowsLink
    <3> QED  BY <1>0, <1>7, <3>1, <3>2, <3>3, FetchStep DEF OpenStored
  <2>2. CASE file # "stored"
    <3>1. req' = Ended(q, "failed") /\ "failed" \in Steps  BY <1>7, <2>2 DEF OpenStored, Steps
    <3>2. /\ req'[q].at = "failed" /\ RequestMoves(q)
          /\ \A p \in Requests \ {q} : req'[p] = req[p]
      BY <1>0, <3>1, EndedFacts DEF RequestMoves
    <3> QED  BY <1>0, <1>7, <3>2, FetchStep DEF OpenStored
  <2> QED  BY <2>1, <2>2
<1>8. ASSUME NEW q \in Requests, Claim(q) PROVE IInv'
  <2> DEFINE l == req[q].link
  <2>1. l \in Links  BY <1>8 DEF Claim, IInv, FetchKnowsLink
  <2>2. CASE req' = Ended(q, "failed") /\ UNCHANGED link
    <3>1. "failed" \in Steps  BY DEF Steps
    <3>2. /\ req'[q].at = "failed" /\ RequestMoves(q)
          /\ \A p \in Requests \ {q} : req'[p] = req[p]
      BY <1>0, <2>2, <3>1, EndedFacts DEF RequestMoves
    <3> QED  BY <1>0, <1>8, <2>2, <3>2, FetchStep DEF Claim
  <2>3. ASSUME Claimable(l), link' = [link EXCEPT ![l] = Used(@)], NEW at \in {"streaming", "failed"},
               req' = Ended(q, at)
        PROVE  IInv'
    <3>1. link'[l] = Used(link[l]) /\ \A m \in Links \ {l} : link'[m] = link[m]
      BY <1>0, <2>1, <2>3 DEF TypeOK
    <3>2. link[l].count \in Nat /\ link[l].max \in Nat  BY <1>0, <2>1 DEF TypeOK, Rows
    <3>3. /\ link'[l].count = link[l].count + 1 /\ link'[l].max = link[l].max
          /\ link'[l].state = IF link[l].max > 0 /\ link[l].count + 1 >= link[l].max
                              THEN "closed" ELSE "open"
      BY <1>0, <2>1, <2>3, <3>1 DEF Used, TypeOK, Rows, Claimable
    <3>4. LinksMove  BY <2>3, <3>1, <3>3 DEF LinksMove, Claimable
    <3>5. LinksWithinLimit'
      BY <2>3, <3>1, <3>2, <3>3 DEF LinksWithinLimit, IInv, Claimable
    <3>6. KeysMove  BY <1>0, <1>8 DEF Claim, KeysMove, IInv, KeysAreGranted, TypeOK
    <3>7. at \in Steps  BY DEF Steps
    <3>8. /\ req'[q].at = at /\ RequestMoves(q) /\ req'[q].link \in {l, NoLink}
          /\ at = "streaming" => req'[q].link = l
          /\ \A p \in Requests \ {q} : req'[p] = req[p]
      <4>1. req'[q].link \in {l, NoLink}  BY <1>0, <2>3 DEF Ended, Idle, TypeOK, Progress
      <4> QED  BY <1>0, <2>3, <3>7, <4>1, EndedFacts DEF RequestMoves
    <3>9. \A p \in Requests : RequestMoves(p)  BY <3>8 DEF RequestMoves
    <3>10. FetchKnowsLink'  BY <2>1, <3>8 DEF IInv, FetchKnowsLink
    <3>11. ServedIsCounted'
      <4> SUFFICES ASSUME NEW m \in Links PROVE Cardinality(Streaming(m)') <= link'[m].count
        BY DEF ServedIsCounted
      <4>1. IsFiniteSet(Streaming(m))  BY Finite, FS_Subset DEF Streaming
      <4>2. Cardinality(Streaming(m)) \in Nat /\ Cardinality(Streaming(m)) <= link[m].count
        BY <4>1, FS_CardinalityType DEF IInv, ServedIsCounted
      <4>3. CASE m = l
        <5>1. q \notin Streaming(m)  BY <1>8 DEF Streaming, Claim
        <5>2. Streaming(m)' \subseteq Streaming(m) \union {q}  BY <3>8 DEF Streaming
        <5>3. IsFiniteSet(Streaming(m) \union {q})
              /\ Cardinality(Streaming(m) \union {q}) = Cardinality(Streaming(m)) + 1
          BY <4>1, <5>1, FS_AddElement
        <5>4. Cardinality(Streaming(m)') <= Cardinality(Streaming(m)) + 1
          BY <5>2, <5>3, FS_Subset
        <5>5. Cardinality(Streaming(m)') \in Nat  BY <5>2, <5>3, FS_Subset, FS_CardinalityType
        <5> QED  BY <3>2, <3>3, <4>2, <4>3, <5>4, <5>5
      <4>4. CASE m # l
        <5>1. Streaming(m)' = Streaming(m)  BY <1>8, <3>8, <4>4, <2>1, NamesAssumption DEF Streaming, Claim
        <5> QED  BY <3>1, <4>2, <4>4, <5>1
      <4> QED  BY <4>3, <4>4
    <3> QED  BY <1>0, <3>4, <3>5, <3>6, <3>9, <3>10, <3>11, MovesKeep DEF IInv
  <2> QED  BY <1>8, <2>2, <2>3 DEF Claim
<1>9. ASSUME NEW q \in Requests, BeginRevokeAll(q) PROVE IInv'
  <2> DEFINE had == {k \in Recipients \X (1..MaxGrants) : keys[k[1]] = k[2]}
  <2>1. req' = [req EXCEPT ![q] = [req[q] EXCEPT !.at = "begun", !.hadLinks = OpenLinks, !.hadKeys = had]]
    BY <1>0, <1>9 DEF BeginRevokeAll, TypeOK
  <2>2. /\ req'[q].at = "begun" /\ req'[q].hadLinks = OpenLinks /\ req'[q].links = req[q].links
        /\ req'[q].hadKeys = had
        /\ \A p \in Requests \ {q} : req'[p] = req[p]
    BY <1>0, <2>1 DEF TypeOK, Progress
  <2>3. UNCHANGED <<keys, grants, link>>  BY <1>9 DEF BeginRevokeAll
  <2>4. KeysAreGranted'
    <3>1. \A k \in req'[q].hadKeys : k[2] <= grants[k[1]]
      BY <1>0, <2>2 DEF IInv, KeysAreGranted, TypeOK
    <3> QED  BY <2>2, <2>3, <3>1 DEF IInv, KeysAreGranted
  <2>5. RowsExist'  BY <2>2, <2>3 DEF IInv, RowsExist, OpenLinks
  <2>6. KeysHeld' /\ LinksHeld' /\ RevokeAllCloses' /\ FetchKnowsLink'
    BY <2>2, <2>3 DEF IInv, KeysHeld, LinksHeld, RevokeAllCloses, FetchKnowsLink, OpenLinks
  <2>7. \A l \in Links : Streaming(l)' \subseteq Streaming(l) /\ link[l].count <= link'[l].count
    BY <1>0, <2>2, <2>3 DEF Streaming, TypeOK, Rows
  <2>8. ServedIsCounted'  BY <1>0, <2>7, ServedKept
  <2>9. LinksWithinLimit'  BY <2>3 DEF IInv, LinksWithinLimit
  <2> QED  BY <1>0, <2>4, <2>5, <2>6, <2>8, <2>9 DEF IInv
<1>10. ASSUME NEW q \in Requests, DeleteKeys(q) PROVE IInv'
  <2> DEFINE rows == {r \in Recipients : keys[r] # 0}
  <2>1. req' = [req EXCEPT ![q] = [req[q] EXCEPT !.at = "holding", !.keys = rows]]
    BY <1>0, <1>10 DEF DeleteKeys, TypeOK
  <2>2. /\ req'[q].at = "holding" /\ req'[q].keys = rows
        /\ req'[q].hadKeys = req[q].hadKeys /\ req'[q].hadLinks = req[q].hadLinks
        /\ req'[q].links = req[q].links
        /\ \A p \in Requests \ {q} : req'[p] = req[p]
    BY <1>0, <2>1 DEF TypeOK, Progress
  <2>3. UNCHANGED <<keys, grants, link>>  BY <1>10 DEF DeleteKeys
  <2>4. KeysAreGranted' /\ RowsExist'
    BY <2>2, <2>3 DEF IInv, KeysAreGranted, RowsExist
  <2>5. KeysHeld'
    <3>1. ASSUME NEW k \in req[q].hadKeys, keys[k[1]] = k[2] PROVE k[1] \in rows
      BY <1>0, <3>1 DEF TypeOK, Progress
    <3> QED  BY <2>2, <2>3, <3>1 DEF IInv, KeysHeld
  <2>6. LinksHeld' /\ RevokeAllCloses' /\ FetchKnowsLink'
    BY <2>2, <2>3 DEF IInv, LinksHeld, RevokeAllCloses, FetchKnowsLink, OpenLinks
  <2>7. \A l \in Links : Streaming(l)' \subseteq Streaming(l) /\ link[l].count <= link'[l].count
    BY <1>0, <2>2, <2>3 DEF Streaming, TypeOK, Rows
  <2>8. ServedIsCounted'  BY <1>0, <2>7, ServedKept
  <2>9. LinksWithinLimit'  BY <2>3 DEF IInv, LinksWithinLimit
  <2> QED  BY <1>0, <2>4, <2>5, <2>6, <2>8, <2>9 DEF IInv
<1>11. ASSUME NEW q \in Requests, CloseLinks(q) PROVE IInv'
  <2>1. req' = [req EXCEPT ![q] = [req[q] EXCEPT !.at = "closing", !.links = OpenLinks]]
    BY <1>0, <1>11 DEF CloseLinks, LinksToClose, TypeOK
  <2>2. /\ req'[q].at = "closing" /\ req'[q].links = OpenLinks /\ req'[q].keys = req[q].keys
        /\ req'[q].hadKeys = req[q].hadKeys /\ req'[q].hadLinks = req[q].hadLinks
        /\ \A p \in Requests \ {q} : req'[p] = req[p]
    BY <1>0, <2>1 DEF TypeOK, Progress
  <2>3. UNCHANGED <<keys, grants, link>> /\ req[q].at = "holding"  BY <1>11 DEF CloseLinks
  <2>4. KeysAreGranted' /\ RowsExist' /\ KeysHeld'
    BY <2>2, <2>3 DEF IInv, KeysAreGranted, RowsExist, KeysHeld, OpenLinks
  <2>5. LinksHeld' /\ RevokeAllCloses' /\ FetchKnowsLink'
    BY <2>2, <2>3 DEF IInv, LinksHeld, RevokeAllCloses, FetchKnowsLink, OpenLinks
  <2>6. \A l \in Links : Streaming(l)' \subseteq Streaming(l) /\ link[l].count <= link'[l].count
    BY <1>0, <2>2, <2>3 DEF Streaming, TypeOK, Rows
  <2>7. ServedIsCounted'  BY <1>0, <2>6, ServedKept
  <2>8. LinksWithinLimit'  BY <2>3 DEF IInv, LinksWithinLimit
  <2> QED  BY <1>0, <2>4, <2>5, <2>7, <2>8 DEF IInv
<1>12. ASSUME NEW q \in Requests, CommitRevokeAll(q) PROVE IInv'
  <2>1. PICK at \in {"done", "failed"} : req' = Ended(q, at)  BY <1>12 DEF CommitRevokeAll
  <2>2. at \in Steps  BY DEF Steps
  <2>3. /\ req'[q].at = at /\ req'[q].links = {}
        /\ req'[q].hadKeys \subseteq req[q].hadKeys /\ req'[q].hadLinks \subseteq req[q].hadLinks
        /\ \A p \in Requests \ {q} : req'[p] = req[p]
    BY <1>0, <2>1, <2>2, EndedFacts
  <2>4. req[q].at = "closing" /\ grants' = grants /\ link' = Closed(req[q].links)
    BY <1>12 DEF CommitRevokeAll
  <2>5. \A l \in Links : /\ link'[l].count = link[l].count /\ link'[l].max = link[l].max
                         /\ link'[l].state = IF l \in req[q].links THEN "closed" ELSE link[l].state
    BY <1>0, <2>4, ClosedFacts
  <2>6. \A r \in Recipients : keys'[r] = IF r \in req[q].keys THEN 0 ELSE keys[r]
    BY <1>12 DEF CommitRevokeAll
  <2>7. KeysAreGranted'
    <3>1. \A r \in Recipients : keys'[r] <= grants'[r]
      BY <1>0, <2>4, <2>6 DEF IInv, KeysAreGranted, TypeOK
    <3> QED  BY <2>3, <2>4, <3>1 DEF IInv, KeysAreGranted
  <2>8. RowsExist'  BY <1>0, <2>3, <2>5 DEF IInv, RowsExist, TypeOK, Progress
  <2>9. ASSUME NEW p \in Requests, NEW k \in req[p].hadKeys, keys'[k[1]] = k[2]
        PROVE  keys[k[1]] = k[2] /\ k[1] \notin req[q].keys
    <3>1. k[1] \in Recipients /\ k[2] \in 1..MaxGrants  BY <1>0 DEF TypeOK, Progress
    <3> QED  BY <2>6, <2>9, <3>1
  <2>10. \A l \in OpenLinks' : l \in OpenLinks /\ l \notin req[q].links
    BY <2>5 DEF OpenLinks
  <2>11. KeysHeld' /\ LinksHeld'
    BY <2>3, <2>9, <2>10 DEF IInv, KeysHeld, LinksHeld
  <2>12. RevokeAllCloses'
    <3>1. ASSUME req'[q].at = "done"
          PROVE  /\ req'[q].hadLinks \intersect OpenLinks' = {}
                 /\ \A k \in req'[q].hadKeys : keys'[k[1]] # k[2]
      <4>1. req'[q].hadLinks \intersect OpenLinks' = {}
        BY <2>3, <2>4, <2>10 DEF IInv, LinksHeld
      <4>2. \A k \in req'[q].hadKeys : keys'[k[1]] # k[2]
        BY <2>3, <2>4, <2>9 DEF IInv, KeysHeld
      <4> QED  BY <4>1, <4>2
    <3>2. ASSUME NEW p \in Requests \ {q}, req[p].at = "done"
          PROVE  /\ req[p].hadLinks \intersect OpenLinks' = {}
                 /\ \A k \in req[p].hadKeys : keys'[k[1]] # k[2]
      BY <2>9, <2>10, <3>2 DEF IInv, RevokeAllCloses
    <3> QED  BY <2>3, <3>1, <3>2 DEF RevokeAllCloses
  <2>13. FetchKnowsLink'  BY <2>3 DEF IInv, FetchKnowsLink
  <2>14. \A l \in Links : Streaming(l)' \subseteq Streaming(l) /\ link[l].count <= link'[l].count
    BY <1>0, <2>3, <2>5 DEF Streaming, TypeOK, Rows
  <2>15. ServedIsCounted'  BY <1>0, <2>14, ServedKept
  <2>16. LinksWithinLimit'  BY <2>5 DEF IInv, LinksWithinLimit
  <2> QED  BY <1>0, <2>7, <2>8, <2>11, <2>12, <2>13, <2>15, <2>16 DEF IInv
<1>13. ASSUME NEW q \in Requests, RollBackRevokeAll(q) PROVE IInv'
  <2>1. req' = Ended(q, "failed") /\ "failed" \in Steps  BY <1>13 DEF RollBackRevokeAll, Steps
  <2>2. /\ req'[q].at = "failed" /\ RequestMoves(q)
        /\ \A p \in Requests \ {q} : req'[p] = req[p]
    BY <1>0, <2>1, EndedFacts DEF RequestMoves
  <2> QED  BY <1>0, <1>13, <2>2, FetchStep DEF RollBackRevokeAll
<1>14. CASE RemoveStored
  <2>1. LinksMove /\ LinksWithinLimit' /\ \A l \in Links : link[l].count <= link'[l].count
    BY <1>0, <1>14 DEF RemoveStored, LinksMove, IInv, LinksWithinLimit, TypeOK, Rows
  <2>2. KeysMove  BY <1>0, <1>14 DEF RemoveStored, KeysMove, IInv, KeysAreGranted, TypeOK
  <2> QED  BY <1>0, <1>14, <2>1, <2>2, RowStep DEF RemoveStored
<1>15. CASE DeleteRow  BY <1>0, <1>15, ClosingStep DEF DeleteRow
<1>16. CASE UNCHANGED vars
  <2>1. LinksMove /\ LinksWithinLimit' /\ \A l \in Links : link[l].count <= link'[l].count
    BY <1>0, <1>16 DEF vars, LinksMove, IInv, LinksWithinLimit, TypeOK, Rows
  <2>2. KeysMove  BY <1>0, <1>16 DEF vars, KeysMove, IInv, KeysAreGranted, TypeOK
  <2> QED  BY <1>0, <1>16, <2>1, <2>2, RowStep DEF vars
<1> QED  BY <1>1, <1>2, <1>3, <1>4, <1>5, <1>6, <1>7, <1>8, <1>9, <1>10, <1>11, <1>12, <1>13, <1>14,
            <1>15, <1>16 DEF Next, Fetch, RevokeAll

\* The invariant that the others follow from.
THEOREM Invariant == Spec => []IInv
BY InitIInv, NextIInv, PTL DEF Spec

\* However many fetches overlap, a link is used within its limit and every
\* fetch that is served was counted.
THEOREM AllowanceKept == Spec => []WithinAllowance
<1>1. IInv => WithinAllowance
  BY DEF IInv, WithinAllowance, LinksWithinLimit, ServedIsCounted, Streaming
<1> QED  BY <1>1, Invariant, PTL

\* Whatever was shared when the owner asked to revoke everything is closed when
\* the answer is success.
THEOREM RevocationCloses == Spec => []RevokeAllCloses
<1>1. IInv => RevokeAllCloses  BY DEF IInv
<1> QED  BY <1>1, Invariant, PTL

\* A fetch is served by a step that finds its link open, unlocked and not expired;
\* any other step leaves every fetch unserved that was.
LEMMA ServedByClaim ==
  ASSUME IInv, Next, NEW q \in Requests, req[q].at # "streaming", req'[q].at = "streaming"
  PROVE  req[q].at = "opened" /\ Claimable(req[q].link)
<1>0. TypeOK  BY DEF IInv
<1>1. ASSUME NEW p \in Requests, NEW at \in Steps, req' = Ended(p, at), at # "streaming" PROVE FALSE
  BY <1>0, <1>1, EndedFacts
<1>2. ASSUME NEW p \in Requests, Claim(p)
      PROVE  req[q].at = "opened" /\ Claimable(req[q].link)
  <2>1. CASE Claimable(req[p].link) /\ req' = Ended(p, "streaming")
    <3>1. p = q  BY <1>0, <2>1, EndedFacts DEF Steps
    <3> QED  BY <1>2, <2>1, <3>1 DEF Claim
  <2>2. CASE req' = Ended(p, "failed")  BY <1>1, <2>2 DEF Steps
  <2> QED  BY <1>2, <2>1, <2>2 DEF Claim
<1>3. ASSUME NEW p \in Requests, OpenStored(p) PROVE FALSE
  <2>1. CASE file = "stored"  BY <1>0, <1>3, <2>1 DEF OpenStored, TypeOK, Progress
  <2>2. CASE file # "stored"  BY <1>1, <1>3, <2>2 DEF OpenStored, Steps
  <2> QED  BY <2>1, <2>2
<1>4. ASSUME NEW p \in Requests, NEW l \in Links, LookUp(p, l) PROVE FALSE
  <2>1. req' = [req EXCEPT ![p] = [req[p] EXCEPT !.at = "found", !.link = l]]
    BY <1>0, <1>4 DEF LookUp, TypeOK
  <2>2. req'[p].at = "found" /\ \A r \in Requests \ {p} : req'[r] = req[r]
    BY <1>0, <2>1 DEF TypeOK, Progress
  <2> QED  BY <2>2
<1>5. ASSUME NEW p \in Requests, RevokeAll(p) PROVE FALSE
  <2>1. CASE BeginRevokeAll(p)
    <3> DEFINE had == {k \in Recipients \X (1..MaxGrants) : keys[k[1]] = k[2]}
    <3>1. req' = [req EXCEPT ![p] = [req[p] EXCEPT !.at = "begun", !.hadLinks = OpenLinks, !.hadKeys = had]]
      BY <1>0, <2>1 DEF BeginRevokeAll, TypeOK
    <3>2. req'[p].at = "begun" /\ \A r \in Requests \ {p} : req'[r] = req[r]
      BY <1>0, <3>1 DEF TypeOK, Progress
    <3> QED  BY <3>2
  <2>2. CASE DeleteKeys(p)
    <3>1. PICK rows : req' = [req EXCEPT ![p] = [req[p] EXCEPT !.at = "holding", !.keys = rows]]
      BY <1>0, <2>2 DEF DeleteKeys, TypeOK
    <3>2. req'[p].at = "holding" /\ \A r \in Requests \ {p} : req'[r] = req[r]
      BY <1>0, <3>1 DEF TypeOK, Progress
    <3> QED  BY <3>2
  <2>3. CASE CloseLinks(p)
    <3>1. req' = [req EXCEPT ![p] = [req[p] EXCEPT !.at = "closing", !.links = LinksToClose]]
      BY <1>0, <2>3 DEF CloseLinks, TypeOK
    <3>2. req'[p].at = "closing" /\ \A r \in Requests \ {p} : req'[r] = req[r]
      BY <1>0, <3>1 DEF TypeOK, Progress
    <3> QED  BY <3>2
  <2>4. CASE CommitRevokeAll(p)
    BY <1>1, <2>4 DEF CommitRevokeAll, Steps
  <2>5. CASE RollBackRevokeAll(p)  BY <1>1, <2>5 DEF RollBackRevokeAll, Steps
  <2> QED  BY <1>5, <2>1, <2>2, <2>3, <2>4, <2>5 DEF RevokeAll
<1>6. ~UNCHANGED req  OBVIOUS
<1> QED  BY <1>2, <1>3, <1>4, <1>5, <1>6 DEF Next, Fetch, ShareFile, RevokeKey, CloseLink, Elapse,
            CreateLink, RemoveStored, DeleteRow

\* A fetch is served only on a link that is open, unlocked and not expired when its use is
\* counted.
THEOREM ServedOnTerms == Spec => ServedWithinTerms
<1>1. IInv /\ [Next]_vars =>
        [\A q \in Requests : req[q].at # "streaming" /\ req'[q].at = "streaming" =>
           LET row == link[req[q].link] IN row.state = "open" /\ row.clock = "current"]_vars
  BY ServedByClaim DEF Claimable
<1> QED  BY <1>1, Invariant, PTL DEF Spec, ServedWithinTerms

-----------------------------------------------------------------------------
(***************************************************************************)
(* The history of closures.  A revocation of everything adds to it what it *)
(* has locked, so the counts are right because a locked key row is there   *)
(* until the commit, a locked link is open until then, and no row is       *)
(* locked by two revocations.                                              *)
(***************************************************************************)
Keyed == {r \in Recipients : keys[r] # 0}
EndedByOwner == {l \in Links : link[l].state = "closed" /\ ~Spent(l)}
HoldsKeys(q) == IF req[q].at \in {"holding", "closing"} THEN req[q].keys ELSE {}
HoldsLinks(q) == IF req[q].at = "closing" THEN req[q].links ELSE {}

LocksStand == \A q \in Requests : HoldsKeys(q) \subseteq Keyed /\ HoldsLinks(q) \subseteq OpenLinks
LocksApart ==
  \A p, q \in Requests : p # q =>
     HoldsKeys(p) \intersect HoldsKeys(q) = {} /\ HoldsLinks(p) \intersect HoldsLinks(q) = {}

Ledger == LocksStand /\ LocksApart /\ ClosuresRecorded

\* What is locked is what the requests hold.
LEMMA LocksAreHeld ==
  /\ LockedKeys = UNION {HoldsKeys(q) : q \in Requests}
  /\ LockedLinks = UNION {HoldsLinks(q) : q \in Requests}
BY DEF LockedKeys, LockedLinks, HoldsKeys, HoldsLinks

\* The counted sets are finite.
LEMMA LedgerFinite ==
  /\ IsFiniteSet(Keyed) /\ Cardinality(Keyed) \in Nat
  /\ IsFiniteSet(EndedByOwner) /\ Cardinality(EndedByOwner) \in Nat
  /\ IsFiniteSet(Given) /\ Cardinality(Given) \in Nat
<1>1. IsFiniteSet(1..MaxGrants)  BY LimitsAssumption, FS_Interval
<1>2. IsFiniteSet(Recipients \X (1..MaxGrants))  BY <1>1, Finite, FS_Product
<1>3. IsFiniteSet(Given)  BY <1>2, FS_Subset DEF Given
<1>4. IsFiniteSet(Keyed)  BY Finite, FS_Subset DEF Keyed
<1>5. IsFiniteSet(EndedByOwner)  BY Finite, FS_Subset DEF EndedByOwner
<1> QED  BY <1>3, <1>4, <1>5, FS_CardinalityType

\* A set that another is added to, or taken from, counts both.
LEMMA CountUnion ==
  ASSUME NEW S, NEW T, IsFiniteSet(S), IsFiniteSet(T), S \intersect T = {}
  PROVE  Cardinality(S \union T) = Cardinality(S) + Cardinality(T)
<1>1. Cardinality(S \intersect T) = 0  BY FS_EmptySet
<1>2. Cardinality(S) \in Nat /\ Cardinality(T) \in Nat  BY FS_CardinalityType
<1>3. Cardinality(S \union T) = Cardinality(S) + Cardinality(T) - Cardinality(S \intersect T)
  BY FS_Union
<1> QED  BY <1>1, <1>2, <1>3

\* A step that locks nothing more, and leaves what is locked where it is, keeps
\* the locks apart.
LEMMA LocksKept ==
  ASSUME Ledger,
         \A q \in Requests : /\ HoldsKeys(q)' \subseteq HoldsKeys(q) \intersect Keyed'
                             /\ HoldsLinks(q)' \subseteq HoldsLinks(q) \intersect OpenLinks'
  PROVE  LocksStand' /\ LocksApart'
<1>1. LocksStand'  BY DEF LocksStand
<1>2. LocksApart'  BY DEF Ledger, LocksApart
<1> QED  BY <1>1, <1>2

\* A step that records nothing, closes no link by the owner's hand and adds no
\* key but by a grant keeps the history.
LEMMA HistoryKept ==
  ASSUME TypeOK, Ledger, UNCHANGED record, file' # "deleted" => file # "deleted",
         file' # "deleted" => EndedByOwner' = EndedByOwner, Keyed' \subseteq Keyed, UNCHANGED grants
  PROVE  ClosuresRecorded'
<1>1. Cardinality(Keyed') <= Cardinality(Keyed) /\ Cardinality(Keyed') \in Nat
  BY LedgerFinite, FS_Subset, FS_CardinalityType
<1>2. Given' = Given  BY DEF Given
<1>3. record.keys + Cardinality(Keyed) <= Cardinality(Given) /\ record.keys \in Nat
  BY DEF Ledger, ClosuresRecorded, Keyed, TypeOK, Records
<1>4. record'.keys + Cardinality(Keyed') <= Cardinality(Given')
  BY <1>1, <1>2, <1>3, LedgerFinite
<1>5. file' # "deleted" => Cardinality(EndedByOwner') = record'.one + record'.links
  BY DEF Ledger, ClosuresRecorded, EndedByOwner
<1> QED  BY <1>4, <1>5 DEF ClosuresRecorded, Keyed, EndedByOwner

\* A step of one request that leaves the tables alone and locks nothing more.
LEMMA RequestKeepsLedger ==
  ASSUME TypeOK, Ledger, UNCHANGED <<file, keys, grants, link, record>>,
         \A q \in Requests : HoldsKeys(q)' \subseteq HoldsKeys(q) /\ HoldsLinks(q)' \subseteq HoldsLinks(q)
  PROVE  Ledger'
<1>1. Keyed' = Keyed /\ OpenLinks' = OpenLinks /\ EndedByOwner' = EndedByOwner
  BY DEF Keyed, OpenLinks, EndedByOwner, Spent
<1>2. LocksStand' /\ LocksApart'  BY <1>1, LocksKept DEF Ledger, LocksStand
<1>3. ClosuresRecorded'  BY <1>1, HistoryKept
<1> QED  BY <1>2, <1>3 DEF Ledger

\* A request that is answered holds nothing, and the others what they held.
LEMMA EndedHoldsNothing ==
  ASSUME TypeOK, NEW q \in Requests, NEW at \in Steps \ {"holding", "closing"}, req' = Ended(q, at)
  PROVE  /\ HoldsKeys(q)' = {} /\ HoldsLinks(q)' = {}
         /\ \A p \in Requests \ {q} : HoldsKeys(p)' = HoldsKeys(p) /\ HoldsLinks(p)' = HoldsLinks(p)
BY EndedFacts DEF HoldsKeys, HoldsLinks

\* A key that is given, or taken back, alone.
LEMMA KeyKeepsLedger ==
  ASSUME IInv, Ledger, NEW r \in Recipients, ShareFile(r) \/ RevokeKey(r)
  PROVE  Ledger'
<1>0. TypeOK  BY DEF IInv
<1>1. CASE ShareFile(r)
  <2>1. /\ UNCHANGED <<file, link, record, req>> /\ grants[r] < MaxGrants /\ r \notin Keyed
        /\ grants'[r] = grants[r] + 1 /\ keys'[r] = grants[r] + 1 /\ grants[r] \in Nat
        /\ \A s \in Recipients \ {r} : grants'[s] = grants[s] /\ keys'[s] = keys[s]
    BY <1>0, <1>1 DEF ShareFile, TypeOK, Keyed
  <2>2. Keyed' = Keyed \union {r}  BY <2>1 DEF Keyed
  <2>3. OpenLinks' = OpenLinks /\ EndedByOwner' = EndedByOwner
    BY <2>1 DEF OpenLinks, EndedByOwner, Spent
  <2>4. \A q \in Requests : HoldsKeys(q)' = HoldsKeys(q) /\ HoldsLinks(q)' = HoldsLinks(q)
    BY <2>1 DEF HoldsKeys, HoldsLinks
  <2>5. LocksStand' /\ LocksApart'  BY <2>2, <2>3, <2>4, LocksKept DEF Ledger, LocksStand
  <2> DEFINE g == <<r, grants[r] + 1>>
  <2>6. g \in Recipients \X (1..MaxGrants) /\ g \notin Given
    BY <2>1, LimitsAssumption DEF Given
  <2>7. Given \union {g} \subseteq Given'
    <3>1. g \in Given'  BY <2>1, <2>6 DEF Given
    <3>2. ASSUME NEW h \in Given PROVE h \in Given'
      <4>1. h[1] \in Recipients /\ h[2] \in Nat /\ h[2] <= grants[h[1]]  BY DEF Given
      <4>2. h[2] <= grants'[h[1]]  BY <2>1, <4>1
      <4> QED  BY <4>2 DEF Given
    <3> QED  BY <3>1, <3>2
  <2>8. Cardinality(Given) + 1 <= Cardinality(Given') /\ Cardinality(Given') \in Nat
    <3>1. IsFiniteSet(Given')
      <4>1. IsFiniteSet(1..MaxGrants)  BY LimitsAssumption, FS_Interval
      <4>2. IsFiniteSet(Recipients \X (1..MaxGrants))  BY <4>1, Finite, FS_Product
      <4> QED  BY <4>2, FS_Subset DEF Given
    <3>2. Cardinality(Given \union {g}) = Cardinality(Given) + 1
      BY <2>6, LedgerFinite, FS_AddElement
    <3> QED  BY <2>7, <3>1, <3>2, FS_Subset, FS_CardinalityType
  <2>9. Cardinality(Keyed') = Cardinality(Keyed) + 1
    BY <2>1, <2>2, LedgerFinite, FS_AddElement
  <2>10. record.keys + Cardinality(Keyed) <= Cardinality(Given) /\ record.keys \in Nat
    BY <1>0 DEF Ledger, ClosuresRecorded, Keyed, TypeOK, Records
  <2>11. record'.keys + Cardinality(Keyed') <= Cardinality(Given')
    BY <2>1, <2>8, <2>9, <2>10, LedgerFinite
  <2>12. file' # "deleted" => Cardinality(EndedByOwner') = record'.one + record'.links
    BY <2>1, <2>3 DEF Ledger, ClosuresRecorded, EndedByOwner
  <2>13. ClosuresRecorded'  BY <2>11, <2>12 DEF ClosuresRecorded, Keyed, EndedByOwner
  <2> QED  BY <2>5, <2>13 DEF Ledger
<1>2. CASE RevokeKey(r)
  <2>1. UNCHANGED <<file, grants, link, record, req>> /\ r \notin LockedKeys
    BY <1>2 DEF RevokeKey
  <2>2. Keyed' = Keyed \ {r}  BY <1>0, <1>2 DEF RevokeKey, TypeOK, Keyed
  <2>3. OpenLinks' = OpenLinks /\ EndedByOwner' = EndedByOwner
    BY <2>1 DEF OpenLinks, EndedByOwner, Spent
  <2>4. \A q \in Requests : /\ HoldsKeys(q)' = HoldsKeys(q) /\ HoldsLinks(q)' = HoldsLinks(q)
                            /\ r \notin HoldsKeys(q)
    BY <2>1, LocksAreHeld DEF HoldsKeys, HoldsLinks
  <2>5. LocksStand' /\ LocksApart'  BY <2>2, <2>3, <2>4, LocksKept DEF Ledger, LocksStand
  <2>6. ClosuresRecorded'  BY <1>0, <2>1, <2>2, <2>3, HistoryKept
  <2> QED  BY <2>5, <2>6 DEF Ledger
<1> QED  BY <1>1, <1>2

\* Links that their owner closes, none of them spent, join those closed before.
LEMMA OwnerCloses ==
  ASSUME IInv, NEW S \in SUBSET OpenLinks, link' = Closed(S)
  PROVE  /\ OpenLinks' = OpenLinks \ S
         /\ IsFiniteSet(S)
         /\ Cardinality(EndedByOwner') = Cardinality(EndedByOwner) + Cardinality(S)
<1>1. \A l \in Links : /\ link'[l].count = link[l].count /\ link'[l].max = link[l].max
                       /\ link'[l].state = IF l \in S THEN "closed" ELSE link[l].state
  BY ClosedFacts DEF IInv
<1>2. OpenLinks' = OpenLinks \ S  BY <1>1 DEF OpenLinks
<1>3. \A l \in S : l \in Links /\ link[l].state = "open" /\ ~Spent(l)
  <2> SUFFICES ASSUME NEW l \in S PROVE l \in Links /\ link[l].state = "open" /\ ~Spent(l)
    OBVIOUS
  <2>1. l \in Links /\ link[l].state = "open"  BY DEF OpenLinks
  <2>2. link[l].count \in Nat /\ link[l].max \in Nat /\ (link[l].max > 0 => link[l].count < link[l].max)
    BY <2>1 DEF IInv, LinksWithinLimit, TypeOK, Rows
  <2> QED  BY <2>1, <2>2 DEF Spent
<1>4. EndedByOwner' = EndedByOwner \union S
  <2>1. \A l \in Links : Spent(l)' = Spent(l)  BY <1>1 DEF Spent
  <2> QED  BY <1>1, <1>3, <2>1 DEF EndedByOwner
<1>5. EndedByOwner \intersect S = {}  BY <1>3 DEF EndedByOwner
<1>6. IsFiniteSet(S)  BY <1>3, Finite, FS_Subset
<1> QED  BY <1>2, <1>4, <1>5, <1>6, LedgerFinite, CountUnion

\* A link closed alone is recorded once.
LEMMA CloseLinkKeepsLedger ==
  ASSUME IInv, Ledger, NEW l \in Links, CloseLink(l) PROVE Ledger'
<1>0. TypeOK  BY DEF IInv
<1>1. /\ link' = Closed({l}) /\ {l} \in SUBSET OpenLinks /\ l \notin LockedLinks
      /\ record' = [record EXCEPT !.one = @ + 1] /\ UNCHANGED <<file, keys, grants, req>>
  BY DEF CloseLink, OpenLinks
<1>2. OpenLinks' = OpenLinks \ {l} /\ Cardinality(EndedByOwner') = Cardinality(EndedByOwner) + 1
  BY <1>1, OwnerCloses, FS_Singleton
<1>3. Keyed' = Keyed /\ Given' = Given  BY <1>1 DEF Keyed, Given
<1>4. \A q \in Requests : /\ HoldsKeys(q)' = HoldsKeys(q) /\ HoldsLinks(q)' = HoldsLinks(q)
                          /\ l \notin HoldsLinks(q)
  BY <1>1, LocksAreHeld DEF HoldsKeys, HoldsLinks
<1>5. LocksStand' /\ LocksApart'  BY <1>2, <1>3, <1>4, LocksKept DEF Ledger, LocksStand
<1>6. record'.one = record.one + 1 /\ record'.links = record.links /\ record'.keys = record.keys
      /\ record.one \in Nat /\ record.links \in Nat
  BY <1>0, <1>1 DEF TypeOK, Records
<1>7. file # "deleted" => Cardinality(EndedByOwner) = record.one + record.links
  BY DEF Ledger, ClosuresRecorded, EndedByOwner
<1>8. file' # "deleted" => Cardinality(EndedByOwner') = record'.one + record'.links
  BY <1>1, <1>2, <1>6, <1>7
<1>9. record'.keys + Cardinality(Keyed') <= Cardinality(Given')
  BY <1>3, <1>6 DEF Ledger, ClosuresRecorded, Keyed
<1>10. ClosuresRecorded'  BY <1>8, <1>9 DEF ClosuresRecorded, Keyed, EndedByOwner
<1> QED  BY <1>5, <1>10 DEF Ledger

\* A revocation of everything records the rows it has locked, all of them still
\* there, and no other's.
LEMMA CommitKeepsLedger ==
  ASSUME IInv, Ledger, NEW q \in Requests, CommitRevokeAll(q) PROVE Ledger'
<1>0. TypeOK  BY DEF IInv
<1> DEFINE K == req[q].keys
           L == req[q].links
<1>1. /\ HoldsKeys(q) = K /\ HoldsLinks(q) = L /\ UNCHANGED <<file, grants>> /\ link' = Closed(L)
      /\ keys' = [r \in Recipients |-> IF r \in K THEN 0 ELSE keys[r]]
      /\ record' = [record EXCEPT !.links = @ + Cardinality(L), !.keys = @ + Cardinality(K)]
  BY DEF CommitRevokeAll, HoldsKeys, HoldsLinks
<1>2. K \subseteq Keyed /\ L \in SUBSET OpenLinks  BY <1>1 DEF Ledger, LocksStand
<1>3. PICK at \in Steps \ {"holding", "closing"} : req' = Ended(q, at)
  BY DEF CommitRevokeAll, Steps
<1>4. /\ HoldsKeys(q)' = {} /\ HoldsLinks(q)' = {}
      /\ \A p \in Requests \ {q} : HoldsKeys(p)' = HoldsKeys(p) /\ HoldsLinks(p)' = HoldsLinks(p)
  BY <1>0, <1>3, EndedHoldsNothing
<1>5. Keyed' = Keyed \ K  BY <1>1 DEF Keyed
<1> HIDE DEF K, L
<1>6. /\ OpenLinks' = OpenLinks \ L /\ IsFiniteSet(L)
      /\ Cardinality(EndedByOwner') = Cardinality(EndedByOwner) + Cardinality(L)
  BY <1>1, <1>2, OwnerCloses
<1>7. LocksStand' /\ LocksApart'
  <2>1. \A p \in Requests \ {q} :
          HoldsKeys(p) \intersect K = {} /\ HoldsLinks(p) \intersect L = {}
    BY <1>1 DEF Ledger, LocksApart
  <2> QED  BY <1>4, <1>5, <1>6, <2>1, LocksKept DEF Ledger, LocksStand
<1>8. Cardinality(Keyed) = Cardinality(Keyed') + Cardinality(K)
      /\ Cardinality(K) \in Nat /\ Cardinality(Keyed') \in Nat
  <2>1. IsFiniteSet(K) /\ IsFiniteSet(Keyed')  BY <1>2, <1>5, LedgerFinite, FS_Subset
  <2>2. Keyed = Keyed' \union K /\ Keyed' \intersect K = {}  BY <1>2, <1>5
  <2>3. Cardinality(Keyed' \union K) = Cardinality(Keyed') + Cardinality(K)
    BY <2>1, <2>2, CountUnion
  <2> QED  BY <2>1, <2>2, <2>3, FS_CardinalityType
<1>9. Cardinality(L) \in Nat  BY <1>6, FS_CardinalityType
<1>10. /\ record'.one = record.one /\ record'.links = record.links + Cardinality(L)
       /\ record'.keys = record.keys + Cardinality(K)
       /\ record.one \in Nat /\ record.links \in Nat /\ record.keys \in Nat
  BY <1>0, <1>1 DEF TypeOK, Records
<1>11. /\ file # "deleted" => Cardinality(EndedByOwner) = record.one + record.links
       /\ record.keys + Cardinality(Keyed) <= Cardinality(Given)
  BY DEF Ledger, ClosuresRecorded, EndedByOwner, Keyed
<1>12. file' # "deleted" => Cardinality(EndedByOwner') = record'.one + record'.links
  BY <1>1, <1>6, <1>9, <1>10, <1>11
<1>13. Given' = Given  BY <1>1 DEF Given
<1>14. record'.keys + Cardinality(Keyed') <= Cardinality(Given')
  BY <1>8, <1>10, <1>11, <1>13, LedgerFinite
<1>15. ClosuresRecorded'  BY <1>12, <1>14 DEF ClosuresRecorded, Keyed, EndedByOwner
<1> QED  BY <1>7, <1>15 DEF Ledger

\* A link that is created, or whose times pass, is no closure.
LEMMA LinkRowKeepsLedger ==
  ASSUME TypeOK, Ledger, UNCHANGED <<file, keys, grants, record, req>>,
         \A l \in Links : /\ link[l].state = "open" => link'[l].state = "open"
                          /\ link[l].state = "closed" => /\ link'[l].state = "closed"
                                                         /\ Spent(l)' = Spent(l)
                          /\ link[l].state = "none" => link'[l].state \in {"none", "open"}
  PROVE  Ledger'
<1>1. Keyed' = Keyed  BY DEF Keyed
<1>2. OpenLinks \subseteq OpenLinks'  BY DEF OpenLinks
<1>3. EndedByOwner' = EndedByOwner  BY DEF EndedByOwner, TypeOK, Rows
<1>4. \A q \in Requests : HoldsKeys(q)' = HoldsKeys(q) /\ HoldsLinks(q)' = HoldsLinks(q)
  BY DEF HoldsKeys, HoldsLinks
<1>5. LocksStand' /\ LocksApart'  BY <1>1, <1>2, <1>4, LocksKept DEF Ledger, LocksStand
<1>6. ClosuresRecorded'  BY <1>1, <1>3, HistoryKept
<1> QED  BY <1>5, <1>6 DEF Ledger

\* A use counts no closure: the last one makes the link spent.
LEMMA ClaimKeepsLedger ==
  ASSUME IInv, Ledger, NEW q \in Requests, Claim(q) PROVE Ledger'
<1>0. TypeOK  BY DEF IInv
<1> req[q].link \in Links  BY DEF Claim, IInv, FetchKnowsLink
<1> PICK l \in Links : l = req[q].link  OBVIOUS
<1>1. l \notin LockedLinks /\ UNCHANGED <<file, keys, grants, record>>  BY DEF Claim
<1>2. PICK at \in Steps \ {"holding", "closing"} : req' = Ended(q, at)  BY DEF Claim, Steps
<1>3. \A p \in Requests : HoldsKeys(p)' \subseteq HoldsKeys(p) /\ HoldsLinks(p)' \subseteq HoldsLinks(p)
  BY <1>0, <1>2, EndedHoldsNothing
<1>4. CASE UNCHANGED link  BY <1>0, <1>1, <1>3, <1>4, RequestKeepsLedger
<1>5. CASE Claimable(l) /\ link' = [link EXCEPT ![l] = Used(@)]
  <2>1. link'[l] = Used(link[l]) /\ \A m \in Links \ {l} : link'[m] = link[m]
    BY <1>0, <1>1, <1>5 DEF TypeOK
  <2>2. /\ link[l].state = "open" /\ link[l].count \in Nat /\ link[l].max \in Nat
        /\ link'[l].count = link[l].count + 1 /\ link'[l].max = link[l].max
        /\ link'[l].state = IF link[l].max > 0 /\ link[l].count + 1 >= link[l].max
                            THEN "closed" ELSE "open"
    BY <1>0, <1>1, <1>5, <2>1 DEF Used, TypeOK, Rows, Claimable
  <2>3. link'[l].state = "closed" => Spent(l)'  BY <2>2 DEF Spent
  <2>4. \A m \in Links \ {l} : Spent(m)' = Spent(m)  BY <2>1 DEF Spent
  <2>5. EndedByOwner' = EndedByOwner  BY <2>1, <2>2, <2>3, <2>4 DEF EndedByOwner
  <2>6. Keyed' = Keyed  BY <1>1 DEF Keyed
  <2>7. \A p \in Requests : HoldsLinks(p) \subseteq OpenLinks \ {l}
    BY <1>1, LocksAreHeld DEF Ledger, LocksStand
  <2>8. OpenLinks \ {l} \subseteq OpenLinks'  BY <2>1 DEF OpenLinks
  <2>9. LocksStand' /\ LocksApart'
    BY <1>3, <2>6, <2>7, <2>8, LocksKept DEF Ledger, LocksStand
  <2>10. ClosuresRecorded'  BY <1>0, <1>1, <2>5, <2>6, HistoryKept
  <2> QED  BY <2>9, <2>10 DEF Ledger
<1> QED  BY <1>4, <1>5 DEF Claim

\* A statement of a revocation locks rows that are there and that no other
\* transaction has locked.
LEMMA LockingKeepsLedger ==
  ASSUME TypeOK, Ledger, NEW q \in Requests, DeleteKeys(q) \/ CloseLinks(q) PROVE Ledger'
<1> DEFINE rows == {r \in Recipients : keys[r] # 0}
<1>1. CASE DeleteKeys(q)
  <2>1. req' = [req EXCEPT ![q] = [req[q] EXCEPT !.at = "holding", !.keys = rows]]
        /\ rows \intersect LockedKeys = {} /\ UNCHANGED <<file, keys, grants, link, record>>
    BY <1>1 DEF DeleteKeys, TypeOK
  <2>2. /\ req'[q].at = "holding" /\ req'[q].keys = rows
        /\ \A p \in Requests \ {q} : req'[p] = req[p]
    BY <2>1 DEF TypeOK, Progress
  <2>3. HoldsKeys(q)' = Keyed /\ HoldsLinks(q)' = {}  BY <2>2 DEF HoldsKeys, HoldsLinks, Keyed
  <2>4. \A p \in Requests \ {q} : /\ HoldsKeys(p)' = HoldsKeys(p) /\ HoldsLinks(p)' = HoldsLinks(p)
                                  /\ HoldsKeys(p) \intersect Keyed = {}
    <3>1. Keyed \intersect LockedKeys = {}  BY <2>1 DEF Keyed
    <3> QED  BY <2>2, <3>1, LocksAreHeld DEF HoldsKeys, HoldsLinks
  <2>5. Keyed' = Keyed /\ OpenLinks' = OpenLinks /\ EndedByOwner' = EndedByOwner
    BY <2>1 DEF Keyed, OpenLinks, EndedByOwner, Spent
  <2>6. LocksStand'  BY <2>3, <2>4, <2>5 DEF Ledger, LocksStand
  <2>7. LocksApart'  BY <2>3, <2>4 DEF Ledger, LocksApart
  <2>8. ClosuresRecorded'  BY <2>1, <2>5, HistoryKept
  <2> QED  BY <2>6, <2>7, <2>8 DEF Ledger
<1>2. CASE CloseLinks(q)
  <2>1. req' = [req EXCEPT ![q] = [req[q] EXCEPT !.at = "closing", !.links = OpenLinks]]
        /\ OpenLinks \intersect LockedLinks = {} /\ UNCHANGED <<file, keys, grants, link, record>>
        /\ req[q].at = "holding"
    BY <1>2 DEF CloseLinks, LinksToClose, TypeOK
  <2>2. /\ req'[q].at = "closing" /\ req'[q].keys = req[q].keys /\ req'[q].links = OpenLinks
        /\ \A p \in Requests \ {q} : req'[p] = req[p]
    BY <2>1 DEF TypeOK, Progress
  <2>3. HoldsKeys(q)' = HoldsKeys(q) /\ HoldsLinks(q)' = OpenLinks
    BY <2>1, <2>2 DEF HoldsKeys, HoldsLinks
  <2>4. \A p \in Requests \ {q} : /\ HoldsKeys(p)' = HoldsKeys(p) /\ HoldsLinks(p)' = HoldsLinks(p)
                                  /\ HoldsLinks(p) \intersect OpenLinks = {}
    BY <2>1, <2>2, LocksAreHeld DEF HoldsKeys, HoldsLinks
  <2>5. Keyed' = Keyed /\ OpenLinks' = OpenLinks /\ EndedByOwner' = EndedByOwner
    BY <2>1 DEF Keyed, OpenLinks, EndedByOwner, Spent
  <2>6. LocksStand'  BY <2>3, <2>4, <2>5 DEF Ledger, LocksStand
  <2>7. LocksApart'  BY <2>3, <2>4 DEF Ledger, LocksApart
  <2>8. ClosuresRecorded'  BY <2>1, <2>5, HistoryKept
  <2> QED  BY <2>6, <2>7, <2>8 DEF Ledger
<1> QED  BY <1>1, <1>2

\* A request that looks up a link, opens the file, is received or fails locks
\* nothing more.
LEMMA WaitingKeepsLedger ==
  ASSUME TypeOK, Ledger, NEW q \in Requests,
         \/ \E l \in Links : LookUp(q, l)
         \/ OpenStored(q) \/ BeginRevokeAll(q) \/ RollBackRevokeAll(q)
  PROVE  Ledger'
<1>1. UNCHANGED <<file, keys, grants, link, record>>
  BY DEF LookUp, OpenStored, BeginRevokeAll, RollBackRevokeAll
<1> DEFINE Waits == /\ req'[q].at \in {"found", "opened", "begun"}
                    /\ \A p \in Requests \ {q} : req'[p] = req[p]
<1>2. Waits \/ req' = Ended(q, "failed")
  <2>1. ASSUME NEW l \in Links, LookUp(q, l) PROVE Waits
    BY <2>1 DEF LookUp, TypeOK, Progress
  <2>2. CASE OpenStored(q)  BY <2>2 DEF OpenStored, TypeOK, Progress
  <2>3. CASE BeginRevokeAll(q)
    <3> DEFINE had == {k \in Recipients \X (1..MaxGrants) : keys[k[1]] = k[2]}
    <3>1. req' = [req EXCEPT ![q] = [req[q] EXCEPT !.at = "begun", !.hadLinks = OpenLinks, !.hadKeys = had]]
      BY <2>3 DEF BeginRevokeAll, TypeOK
    <3> HIDE DEF had
    <3> QED  BY <3>1 DEF TypeOK, Progress
  <2>4. CASE RollBackRevokeAll(q)  BY <2>4 DEF RollBackRevokeAll
  <2> QED  BY <2>1, <2>2, <2>3, <2>4
<1>3. \A p \in Requests : HoldsKeys(p)' \subseteq HoldsKeys(p) /\ HoldsLinks(p)' \subseteq HoldsLinks(p)
  <2>1. CASE req' = Ended(q, "failed")  BY <2>1, EndedHoldsNothing DEF Steps
  <2>2. CASE Waits  BY <2>2 DEF HoldsKeys, HoldsLinks
  <2> QED  BY <1>2, <2>1, <2>2
<1> QED  BY <1>1, <1>3, RequestKeepsLedger

\* Every operation keeps the history right.
LEMMA NextLedger == IInv /\ Ledger /\ [Next]_vars => Ledger'
<1> SUFFICES ASSUME IInv, Ledger, [Next]_vars PROVE Ledger'  OBVIOUS
<1>0. TypeOK  BY DEF IInv
<1>1. ASSUME NEW l \in Links, Elapse(l) PROVE Ledger'
  <2>1. \A m \in Links : /\ link'[m].state = link[m].state
                         /\ link'[m].count = link[m].count /\ link'[m].max = link[m].max
    BY <1>0, <1>1 DEF Elapse, TypeOK, Rows
  <2>2. \A m \in Links : Spent(m)' = Spent(m)  BY <2>1 DEF Spent
  <2> QED  BY <1>0, <1>1, <2>1, <2>2, LinkRowKeepsLedger DEF Elapse
<1>2. ASSUME NEW l \in Links, NEW max \in 0..MaxDownloads, NEW clock \in Clocks, CreateLink(l, max, clock)
      PROVE  Ledger'
  <2>1. link[l].state = "none" /\ link'[l].state = "open" /\ \A m \in Links \ {l} : link'[m] = link[m]
    BY <1>0, <1>2 DEF CreateLink, TypeOK
  <2>2. \A m \in Links \ {l} : Spent(m)' = Spent(m)  BY <2>1 DEF Spent
  <2>3. \A m \in Links : /\ link[m].state = "open" => link'[m].state = "open"
                         /\ link[m].state = "closed" => /\ link'[m].state = "closed"
                                                        /\ Spent(m)' = Spent(m)
                         /\ link[m].state = "none" => link'[m].state \in {"none", "open"}
    BY <2>1, <2>2
  <2> QED  BY <1>0, <1>2, <2>3, LinkRowKeepsLedger DEF CreateLink
<1>3. CASE DeleteRow
  <2>1. /\ file' = "deleted" /\ UNCHANGED <<grants, record, req>>
        /\ keys' = [r \in Recipients |-> 0] /\ LockedKeys = {} /\ LockedLinks = {}
    BY <1>3 DEF DeleteRow
  <2>2. \A q \in Requests : HoldsKeys(q) = {} /\ HoldsLinks(q) = {}  BY <2>1, LocksAreHeld
  <2>3. \A q \in Requests : HoldsKeys(q)' = HoldsKeys(q) /\ HoldsLinks(q)' = HoldsLinks(q)
    BY <2>1 DEF HoldsKeys, HoldsLinks
  <2>4. LocksStand' /\ LocksApart'  BY <2>2, <2>3, LocksKept
  <2>5. Keyed' = {}  BY <2>1 DEF Keyed
  <2>6. ClosuresRecorded'  BY <1>0, <2>1, <2>5, HistoryKept
  <2> QED  BY <2>4, <2>6 DEF Ledger
<1>4. CASE RemoveStored \/ UNCHANGED vars
  <2>1. /\ UNCHANGED <<keys, grants, link, record, req>>
        /\ file' # "deleted" => file # "deleted"
    BY <1>4 DEF RemoveStored, vars
  <2>2. Keyed' = Keyed /\ OpenLinks' = OpenLinks /\ EndedByOwner' = EndedByOwner
    BY <2>1 DEF Keyed, OpenLinks, EndedByOwner, Spent
  <2>3. \A q \in Requests : HoldsKeys(q)' = HoldsKeys(q) /\ HoldsLinks(q)' = HoldsLinks(q)
    BY <2>1 DEF HoldsKeys, HoldsLinks
  <2>4. LocksStand' /\ LocksApart'  BY <2>2, <2>3, LocksKept DEF Ledger, LocksStand
  <2>5. ClosuresRecorded'  BY <1>0, <2>1, <2>2, HistoryKept
  <2> QED  BY <2>4, <2>5 DEF Ledger
<1>5. ASSUME NEW q \in Requests, Fetch(q) \/ RevokeAll(q) PROVE Ledger'
  BY <1>0, <1>5, WaitingKeepsLedger, LockingKeepsLedger, ClaimKeepsLedger, CommitKeepsLedger
     DEF Fetch, RevokeAll
<1> QED  BY <1>1, <1>2, <1>3, <1>4, <1>5, KeyKeepsLedger, CloseLinkKeepsLedger DEF Next

\* At first nothing is closed, and nothing recorded.
LEMMA InitLedger == Init => Ledger
<1> SUFFICES ASSUME Init PROVE Ledger  OBVIOUS
<1>1. \A q \in Requests : HoldsKeys(q) = {} /\ HoldsLinks(q) = {}
  BY DEF Init, Idle, HoldsKeys, HoldsLinks
<1>2. Keyed = {} /\ EndedByOwner = {}  BY DEF Init, NoRow, Keyed, EndedByOwner
<1>3. Cardinality(Keyed) = 0 /\ Cardinality(EndedByOwner) = 0  BY <1>2, FS_EmptySet
<1>4. record.one = 0 /\ record.links = 0 /\ record.keys = 0  BY DEF Init
<1>5. ClosuresRecorded
  BY <1>3, <1>4, LedgerFinite DEF ClosuresRecorded, Keyed, EndedByOwner
<1> QED  BY <1>1, <1>5 DEF Ledger, LocksStand, LocksApart

\* The history has each closing of a link by its owner exactly once, and no key
\* twice, however revocations of one and of all, uses and the deletion overlap.
THEOREM HistoryComplete == Spec => []ClosuresRecorded
<1>1. Spec => []Ledger  BY InitLedger, NextLedger, Invariant, PTL DEF Spec
<1>2. Ledger => ClosuresRecorded  BY DEF Ledger
<1> QED  BY <1>1, <1>2, PTL

-----------------------------------------------------------------------------
(***************************************************************************)
(* What is closed serves nothing: the deletion of a file leaves no access  *)
(* to it, and no fetch is served later, not even one that had found its    *)
(* link and opened the stored file.                                        *)
(***************************************************************************)
GoneWithRow == file = "deleted" => OpenLinks = {} /\ Keyed = {}

ClosedServesNothing ==
  [][\A p \in Requests : req[p].at # "streaming" /\ req'[p].at = "streaming" =>
        /\ file # "deleted"
        /\ \A q \in Requests : req[q].at = "done" => req[p].link \notin req[q].hadLinks]_vars

\* Nothing is given of a deleted file, and no closed link opens.
LEMMA NextGone == IInv /\ GoneWithRow /\ [Next]_vars => GoneWithRow'
<1> SUFFICES ASSUME IInv, GoneWithRow, [Next]_vars, file' = "deleted"
             PROVE  OpenLinks' = {} /\ Keyed' = {}
  BY DEF GoneWithRow
<1>0. TypeOK  BY DEF IInv
<1>1. CASE DeleteRow
  <2>1. OpenLinks \in SUBSET Links /\ link' = Closed(OpenLinks)  BY <1>1 DEF DeleteRow, OpenLinks
  <2>2. \A l \in Links : link'[l].state = IF l \in OpenLinks THEN "closed" ELSE link[l].state
    BY <1>0, <2>1, ClosedFacts
  <2>3. OpenLinks' = {}  BY <2>2 DEF OpenLinks
  <2>4. Keyed' = {}  BY <1>1 DEF DeleteRow, Keyed
  <2> QED  BY <2>3, <2>4
<1>2. CASE ~DeleteRow
  <2>1. file = "deleted"
    BY <1>2 DEF Next, Fetch, RevokeAll, ShareFile, RevokeKey, CloseLink, Elapse, CreateLink, LookUp, OpenStored,
       Claim, BeginRevokeAll, DeleteKeys, CloseLinks, CommitRevokeAll, RollBackRevokeAll, RemoveStored, vars
  <2>2. /\ \A r \in Recipients : keys[r] = 0
        /\ \A l \in Links : link[l].state # "open"
    BY <2>1 DEF GoneWithRow, OpenLinks, Keyed
  <2>3. ASSUME NEW q \in Requests, CommitRevokeAll(q) PROVE OpenLinks' = {} /\ Keyed' = {}
    <3>1. link' = Closed(req[q].links) /\ req[q].links \in SUBSET Links
      BY <1>0, <2>3 DEF CommitRevokeAll, TypeOK, Progress
    <3>2. \A l \in Links : link'[l].state = IF l \in req[q].links THEN "closed" ELSE link[l].state
      BY <1>0, <3>1, ClosedFacts
    <3>3. OpenLinks' = {}  BY <2>2, <3>2 DEF OpenLinks
    <3>4. Keyed' = {}  BY <2>2, <2>3 DEF CommitRevokeAll, Keyed
    <3> QED  BY <3>3, <3>4
  <2>4. ASSUME NEW q \in Requests, Claim(q) PROVE UNCHANGED <<keys, link>>
    <3>1. req[q].link \in Links  BY <2>4 DEF Claim, IInv, FetchKnowsLink
    <3> QED  BY <2>2, <2>4, <3>1 DEF Claim, Claimable
  <2>5. ASSUME UNCHANGED <<keys, link>> PROVE OpenLinks' = {} /\ Keyed' = {}
    BY <2>2, <2>5 DEF OpenLinks, Keyed
  <2>6. ASSUME NEW r \in Recipients, RevokeKey(r) PROVE FALSE  BY <2>2, <2>6 DEF RevokeKey
  <2> QED  BY <1>2, <2>1, <2>2, <2>3, <2>4, <2>5, <2>6
           DEF Next, Fetch, RevokeAll, ShareFile, CloseLink, Elapse, CreateLink, LookUp, OpenStored,
               BeginRevokeAll, DeleteKeys, CloseLinks, RollBackRevokeAll, RemoveStored, vars
<1> QED  BY <1>1, <1>2

\* With the row of a file every key and link of it is gone for good, whatever
\* shares, uses and revocations were under way.
THEOREM DeletionCloses == Spec => []GoneWithRow
<1>1. Init => GoneWithRow  BY DEF Init, GoneWithRow
<1> QED  BY <1>1, NextGone, Invariant, PTL DEF Spec

\* A fetch that is under way when its file is deleted, or when everything was
\* revoked, is not served afterwards.
THEOREM ServesNothingClosed == Spec => ClosedServesNothing
<1>1. IInv /\ GoneWithRow /\ [Next]_vars =>
        [\A p \in Requests : req[p].at # "streaming" /\ req'[p].at = "streaming" =>
           /\ file # "deleted"
           /\ \A q \in Requests : req[q].at = "done" => req[p].link \notin req[q].hadLinks]_vars
  <2> SUFFICES ASSUME IInv, GoneWithRow, Next, NEW p \in Requests,
                      req[p].at # "streaming", req'[p].at = "streaming"
               PROVE  /\ file # "deleted"
                      /\ \A q \in Requests : req[q].at = "done" => req[p].link \notin req[q].hadLinks
    OBVIOUS
  <2>1. req[p].link \in OpenLinks
    BY ServedByClaim DEF Claimable, OpenLinks, IInv, FetchKnowsLink
  <2> QED  BY <2>1 DEF GoneWithRow, IInv, RevokeAllCloses
<1> QED  BY <1>1, DeletionCloses, Invariant, PTL DEF Spec, ClosedServesNothing

-----------------------------------------------------------------------------
(***************************************************************************)
(* The links implement LinkAllowance.                                      *)
(***************************************************************************)
\* Closing links that are open, and a step that changes only times, as
\* LinkAllowance has them.
LEMMA ClosingImplements ==
  ASSUME TypeOK, NEW S \in SUBSET Links, link' = Closed(S),
         \A l \in S : link[l].state # "none"
  PROVE  Allowance!Next
<1> DEFINE T == S \intersect OpenLinks
<1>1. \A l \in Links : /\ link'[l].count = link[l].count /\ link'[l].max = link[l].max
                       /\ link'[l].state = IF l \in S THEN "closed" ELSE link[l].state
  BY ClosedFacts
<1>2. \A l \in Links : link'[l].state = IF l \in T THEN "closed" ELSE link[l].state
  BY <1>1 DEF OpenLinks, TypeOK, Rows
<1>3. \A l \in T : [m \in Links |-> link[m].state][l] = "open"  BY DEF OpenLinks
<1>4. [m \in Links |-> link'[m].state]
        = [m \in Links |-> IF m \in T THEN "closed" ELSE [k \in Links |-> link[k].state][m]]
  BY <1>2
<1>5. [m \in Links |-> link'[m].max] = [m \in Links |-> link[m].max]  BY <1>1
<1>6. [m \in Links |-> link'[m].count] = [m \in Links |-> link[m].count]  BY <1>1
<1>7. T \in SUBSET Links  OBVIOUS
<1> HIDE DEF T
<1>8. \E R \in SUBSET Links : Allowance!Close(R)
  BY <1>3, <1>4, <1>5, <1>6, <1>7 DEF Allowance!Close
<1> QED  BY <1>8 DEF Allowance!Next

\* A step that leaves these three columns alone is none of LinkAllowance's.
LEMMA SameLinksImplement ==
  ASSUME \A l \in Links : /\ link'[l].state = link[l].state
                          /\ link'[l].max = link[l].max /\ link'[l].count = link[l].count
  PROVE  UNCHANGED Allowance!vars
BY DEF Allowance!vars

\* Every public link of the code is one of LinkAllowance.
THEOREM LinksImplement == Spec => ImplementsAllowance
<1>1. Init => Allowance!Init  BY DEF Init, Allowance!Init, NoRow
<1>2. IInv /\ [Next]_vars => [Allowance!Next]_(Allowance!vars)
  <2> SUFFICES ASSUME IInv, [Next]_vars PROVE Allowance!Next \/ UNCHANGED Allowance!vars
    OBVIOUS
  <2>0. TypeOK  BY DEF IInv
  <2>1. ASSUME NEW l \in Links, NEW max \in 0..MaxDownloads, NEW clock \in Clocks, CreateLink(l, max, clock)
        PROVE  Allowance!Next
    <3>1. link[l].state = "none" /\ link[l].count = 0
      BY <2>1 DEF CreateLink, IInv, LinksWithinLimit
    <3>2. link'[l] = [state |-> "open", max |-> max, count |-> 0, clock |-> clock]
          /\ \A m \in Links \ {l} : link'[m] = link[m]
      BY <2>0, <2>1 DEF CreateLink, TypeOK
    <3>3. /\ link'[l].state = "open" /\ link'[l].max = max /\ link'[l].count = 0
          /\ \A m \in Links \ {l} : link'[m] = link[m]
      BY <3>2
    <3> DEFINE states == [m \in Links |-> link[m].state]
               limits == [m \in Links |-> link[m].max]
               counts == [m \in Links |-> link[m].count]
    <3>4. states' = [states EXCEPT ![l] = "open"]  BY <3>3
    <3>5. limits' = [limits EXCEPT ![l] = max]  BY <3>3
    <3>6. counts' = counts  BY <3>1, <3>3
    <3>7. states[l] = "none"  BY <3>1
    <3>8. \E k \in Links : \E n \in 0..MaxDownloads : Allowance!Open(k, n)
      BY <3>4, <3>5, <3>6, <3>7 DEF Allowance!Open
    <3> QED  BY <3>8 DEF Allowance!Next
  <2>2. ASSUME NEW q \in Requests, Claim(q) PROVE Allowance!Next \/ UNCHANGED Allowance!vars
    <3> DEFINE l == req[q].link
    <3>1. l \in Links  BY <2>2 DEF Claim, IInv, FetchKnowsLink
    <3>2. CASE Claimable(l) /\ link' = [link EXCEPT ![l] = Used(@)]
      <4>1. link'[l] = Used(link[l]) /\ \A m \in Links \ {l} : link'[m] = link[m]
        BY <2>0, <3>1, <3>2 DEF TypeOK
      <4>2. /\ link'[l].count = link[l].count + 1 /\ link'[l].max = link[l].max
            /\ link'[l].state = IF link[l].max > 0 /\ link[l].count + 1 >= link[l].max
                                THEN "closed" ELSE link[l].state
        BY <2>0, <3>1, <4>1 DEF Used, TypeOK, Rows
      <4> DEFINE states == [m \in Links |-> link[m].state]
                 limits == [m \in Links |-> link[m].max]
                 counts == [m \in Links |-> link[m].count]
      <4>3. counts' = [counts EXCEPT ![l] = @ + 1]  BY <3>1, <4>1, <4>2
      <4>4. states' = [states EXCEPT ![l] = IF limits[l] > 0 /\ counts[l] + 1 >= limits[l]
                                            THEN "closed" ELSE @]
        BY <3>1, <4>1, <4>2
      <4>5. limits' = limits  BY <3>1, <4>1, <4>2
      <4>6. states[l] = "open" /\ (limits[l] > 0 => counts[l] < limits[l])
        BY <3>1, <3>2 DEF Claimable
      <4> HIDE DEF l
      <4>7. \E k \in Links : Allowance!Use(k)
        BY <3>1, <4>3, <4>4, <4>5, <4>6 DEF Allowance!Use
      <4> QED  BY <4>7 DEF Allowance!Next
    <3>3. CASE UNCHANGED link  BY <3>3, SameLinksImplement
    <3> QED  BY <2>2, <3>2, <3>3 DEF Claim
  <2>3. ASSUME NEW l \in Links, CloseLink(l) PROVE Allowance!Next
    BY <2>0, <2>3, ClosingImplements DEF CloseLink
  <2>4. ASSUME NEW q \in Requests, CommitRevokeAll(q) PROVE Allowance!Next
    <3>1. req[q].links \in SUBSET Links  BY <2>0 DEF TypeOK, Progress
    <3>2. \A l \in req[q].links : link[l].state # "none"  BY DEF IInv, RowsExist
    <3> QED  BY <2>0, <2>4, <3>1, <3>2, ClosingImplements DEF CommitRevokeAll
  <2>5. CASE DeleteRow
    <3>1. OpenLinks \in SUBSET Links /\ \A l \in OpenLinks : link[l].state # "none"
      BY DEF OpenLinks
    <3> QED  BY <2>0, <2>5, <3>1, ClosingImplements DEF DeleteRow
  <2>6. ASSUME NEW l \in Links, Elapse(l) PROVE UNCHANGED Allowance!vars
    <3>1. \A m \in Links : /\ link'[m].state = link[m].state
                           /\ link'[m].max = link[m].max /\ link'[m].count = link[m].count
      BY <2>0, <2>6 DEF Elapse, TypeOK, Rows
    <3> QED  BY <3>1, SameLinksImplement
  <2>7. ASSUME UNCHANGED link PROVE UNCHANGED Allowance!vars
    BY <2>7, SameLinksImplement
  <2> QED  BY <2>1, <2>2, <2>3, <2>4, <2>5, <2>6, <2>7 DEF Next, Fetch, RevokeAll, vars, ShareFile,
              RevokeKey, LookUp, OpenStored, BeginRevokeAll, DeleteKeys, CloseLinks, RollBackRevokeAll,
              RemoveStored
<1> QED  BY <1>1, <1>2, Invariant, PTL DEF Spec, ImplementsAllowance, Allowance!Spec
=============================================================================
