--------------------------- MODULE ExternalAccess ---------------------------
(***************************************************************************)
(* One stored file, and how others come to read it: the direct recipients  *)
(* of its key (handle_file_share.go, handle_file_revoke.go) and its public *)
(* links (handle_public_share_links.go, share_revocation.go), under        *)
(* concurrent fetches, revocations of everything at once                   *)
(* (handle_access.go) and the deletion of the file (handle_file_delete.go).*)
(* A step is a statement or a whole transaction of PostgreSQL under READ   *)
(* COMMITTED; a request that is refused before it writes changes nothing.  *)
(***************************************************************************)
EXTENDS Naturals, FiniteSets

CONSTANTS Recipients,
          Links,         \* tokens, each drawn for one link
          Requests,      \* fetches and revocations, each received once
          NoLink,
          MaxDownloads,  \* bound of the model: the largest max_downloads set
          MaxGrants      \* bound of the model: times one recipient is given the key

ASSUME NamesAssumption == NoLink \notin Links
ASSUME FinitenessAssumption == \A S \in {Recipients, Links, Requests} : IsFiniteSet(S)
ASSUME LimitsAssumption == MaxDownloads \in Nat /\ MaxGrants \in Nat

VARIABLES file,    \* "stored", "unlinked" when only its row is left, "deleted"
          keys,    \* per recipient, the file_access_keys row: which grant made it, 0 for none
          grants,  \* per recipient, the grants made, each with its audit row
          link,    \* per token, its public_share_links row
          record,  \* what the audit rows of revocations add up to
          req      \* per request, its progress

vars == <<file, keys, grants, link, record, req>>

Clocks == {"locked", "current", "expired"}
Rows == [state : {"none", "open", "closed"}, max : 0..MaxDownloads, count : Nat, clock : Clocks]
NoRow == [state |-> "none", max |-> 0, count |-> 0, clock |-> "current"]

\* "holding" and "closing" are the two statements of a revocation in its
\* transaction; "streaming" and "done" are answers of success.
Steps == {"idle", "found", "opened", "streaming", "begun", "holding", "closing", "done", "failed"}
Progress == [at : Steps, link : Links \union {NoLink},
             hadKeys : SUBSET (Recipients \X (1..MaxGrants)), hadLinks : SUBSET Links,
             keys : SUBSET Recipients, links : SUBSET Links]
Idle == [at |-> "idle", link |-> NoLink, hadKeys |-> {}, hadLinks |-> {},
         keys |-> {}, links |-> {}]

\* "one" counts the rows of single links; "links" and "keys" add up the counts
\* in the rows of revocations of everything.
Records == [one : Nat, links : Nat, keys : Nat]

TypeOK ==
  /\ file \in {"stored", "unlinked", "deleted"}
  /\ keys \in [Recipients -> 0..MaxGrants]
  /\ grants \in [Recipients -> 0..MaxGrants]
  /\ link \in [Links -> Rows]
  /\ record \in Records
  /\ req \in [Requests -> Progress]

Init ==
  /\ file = "stored"
  /\ keys = [r \in Recipients |-> 0]
  /\ grants = [r \in Recipients |-> 0]
  /\ link = [l \in Links |-> NoRow]
  /\ record = [one |-> 0, links |-> 0, keys |-> 0]
  /\ req = [q \in Requests |-> Idle]

\* Rows that the transaction of a revocation has locked.
LockedKeys == UNION {req[q].keys : q \in {p \in Requests : req[p].at \in {"holding", "closing"}}}
LockedLinks == UNION {req[q].links : q \in {p \in Requests : req[p].at = "closing"}}

OpenLinks == {l \in Links : link[l].state = "open"}
ClosedAlone(S) == [l \in S |-> [link[l] EXCEPT !.state = "closed"]]   \* mutant: the other rows go
Closed(S) == [l \in Links |-> IF l \in S THEN [link[l] EXCEPT !.state = "closed"] ELSE link[l]]

\* A request that is answered holds no locks; what it had found is kept only
\* with a success.
Ended(q, at) ==
  [req EXCEPT ![q] = IF at = "failed" THEN [Idle EXCEPT !.at = at]
                     ELSE [@ EXCEPT !.at = at, !.keys = {}, !.links = {}]]

-----------------------------------------------------------------------------
(* The owner gives access. *)

\* The key row and its audit row are stored together; a second row of one
\* recipient is refused, and waits for a deletion of the first.
ShareFile(r) ==
  /\ file # "deleted"
  /\ keys[r] = 0
  /\ grants[r] < MaxGrants
  /\ grants' = [grants EXCEPT ![r] = @ + 1]
  /\ keys' = [keys EXCEPT ![r] = grants'[r]]
  /\ UNCHANGED <<file, link, record, req>>

\* A link may be created locked until later, or with an expiry already past.
CreateLink(l, max, clock) ==
  /\ file # "deleted"
  /\ link[l].state = "none"
  /\ link' = [link EXCEPT ![l] = [state |-> "open", max |-> max, count |-> 0, clock |-> clock]]
  /\ UNCHANGED <<file, keys, grants, record, req>>

\* unlock_at or expires_at passes; nothing reads them in a closed link.
Elapse(l) ==
  /\ link[l].state = "open"
  /\ \/ link[l].clock = "locked" /\ link' = [link EXCEPT ![l].clock = "current"]
     \/ link[l].clock # "expired" /\ link' = [link EXCEPT ![l].clock = "expired"]
  /\ UNCHANGED <<file, keys, grants, record, req>>

-----------------------------------------------------------------------------
(* An anonymous fetch. *)

\* The link is looked up, and may be used by what the row says now.
LookUp(q, l) ==
  /\ req[q].at = "idle"
  /\ link[l].state = "open" /\ link[l].clock = "current"
  /\ req' = [req EXCEPT ![q].at = "found", ![q].link = l]
  /\ UNCHANGED <<file, keys, grants, link, record>>

\* The stored file is opened, before a use is claimed.
OpenStored(q) ==
  /\ req[q].at = "found"
  /\ req' = IF file = "stored" THEN [req EXCEPT ![q].at = "opened"] ELSE Ended(q, "failed")
  /\ UNCHANGED <<file, keys, grants, link, record>>

\* Whether the locked row may be used once more.
ClaimableAsFound(l) == TRUE   \* mutant: the row is not looked at again
ClaimableIgnoringClock(l) ==   \* mutant: the times are those of the first look
  link[l].state = "open" /\ (link[l].max > 0 => link[l].count < link[l].max)
Claimable(l) ==
  /\ link[l].state = "open"
  /\ link[l].max > 0 => link[l].count < link[l].max
  /\ link[l].clock = "current"

\* The row after one more use; the last allowed use closes the link.
UsedOpen(row) == [row EXCEPT !.count = @ + 1]   \* mutant: the last use leaves the link open
Used(row) ==
  [row EXCEPT !.count = @ + 1,
              !.state = IF row.max > 0 /\ row.count + 1 >= row.max THEN "closed" ELSE @]

\* claimPublicShareUse: one transaction under the row's lock.  A commit that
\* reports an error may have happened, and the fetch is not answered with data.
Claim(q) ==
  LET l == req[q].link IN
  /\ req[q].at = "opened"
  /\ l \notin LockedLinks
  /\ \/ /\ Claimable(l)
        /\ link' = [link EXCEPT ![l] = Used(@)]
        /\ \E at \in {"streaming", "failed"} : req' = Ended(q, at)
     \/ /\ req' = Ended(q, "failed")
        /\ UNCHANGED link
  /\ UNCHANGED <<file, keys, grants, record>>

-----------------------------------------------------------------------------
(* The owner takes access back. *)

\* handlerRevokePublicShareLink: the closure and its audit row are stored
\* together; a link that is closed already records nothing.
CloseLink(l) ==
  /\ link[l].state = "open"
  /\ l \notin LockedLinks
  /\ link' = Closed({l})
  /\ record' = [record EXCEPT !.one = @ + 1]
  /\ UNCHANGED <<file, keys, grants, req>>

\* handlerRevokeFileAccess, which leaves no record.
RevokeKey(r) ==
  /\ keys[r] # 0
  /\ r \notin LockedKeys
  /\ keys' = [keys EXCEPT ![r] = 0]
  /\ UNCHANGED <<file, grants, link, record, req>>

\* handlerRevokeAllExternalAccess is received; hadKeys and hadLinks remember
\* the access there was.
BeginRevokeAll(q) ==
  /\ req[q].at = "idle"
  /\ file # "deleted"
  /\ req' = [req EXCEPT ![q].at = "begun", ![q].hadLinks = OpenLinks,
                        ![q].hadKeys = {k \in Recipients \X (1..MaxGrants) : keys[k[1]] = k[2]}]
  /\ UNCHANGED <<file, keys, grants, link, record>>

\* The key rows are deleted, once no other transaction holds one.
DeleteKeys(q) ==
  /\ req[q].at = "begun"
  /\ LET rows == {r \in Recipients : keys[r] # 0} IN
       /\ rows \intersect LockedKeys = {}
       /\ req' = [req EXCEPT ![q].at = "holding", ![q].keys = rows]
  /\ UNCHANGED <<file, keys, grants, link, record>>

\* The links that a revocation of everything closes.
UsableLinks == {l \in OpenLinks : link[l].clock = "current"}   \* mutant: only those in use
EveryLink == {l \in Links : link[l].state # "none"}   \* mutant: closed ones again
LinksToClose == OpenLinks

CloseLinks(q) ==
  /\ req[q].at = "holding"
  /\ LinksToClose \intersect LockedLinks = {}
  /\ req' = [req EXCEPT ![q].at = "closing", ![q].links = LinksToClose]
  /\ UNCHANGED <<file, keys, grants, link, record>>

\* Both changes and the row with their counts become visible together.  The
\* answer is an error if the commit reports one.
CommitRevokeAll(q) ==
  /\ req[q].at = "closing"
  /\ keys' = [r \in Recipients |-> IF r \in req[q].keys THEN 0 ELSE keys[r]]
  /\ link' = Closed(req[q].links)
  /\ record' = [record EXCEPT !.links = @ + Cardinality(req[q].links),
                              !.keys = @ + Cardinality(req[q].keys)]
  /\ \E at \in {"done", "failed"} : req' = Ended(q, at)
  /\ UNCHANGED <<file, grants>>

\* A statement fails, or the caller goes away: nothing is changed.
RollBackRevokeAll(q) ==
  /\ req[q].at \in {"begun", "holding", "closing"}
  /\ req' = Ended(q, "failed")
  /\ UNCHANGED <<file, keys, grants, link, record>>

\* handlerDeleteFile removes the stored file first, the row next (DeleteRow);
\* a delete that fails between the two may be repeated.
RemoveStored ==
  /\ file = "stored"
  /\ file' = "unlinked"
  /\ UNCHANGED <<keys, grants, link, record, req>>

\* The row goes, and by its cascade the keys and the links; the cascade waits
\* for every row that a transaction has locked.  A deletion made offline does
\* only this, and the stored file stays where nothing finds it.
DeleteRow ==
  /\ file # "deleted"
  /\ LockedKeys = {} /\ LockedLinks = {}
  /\ file' = "deleted"
  /\ keys' = [r \in Recipients |-> 0]
  /\ link' = Closed(OpenLinks)
  /\ UNCHANGED <<grants, record, req>>

Fetch(q) == OpenStored(q) \/ Claim(q) \/ \E l \in Links : LookUp(q, l)

RevokeAll(q) ==
  \/ BeginRevokeAll(q) \/ DeleteKeys(q) \/ CloseLinks(q) \/ CommitRevokeAll(q)
  \/ RollBackRevokeAll(q)

Next ==
  \/ \E r \in Recipients : ShareFile(r) \/ RevokeKey(r)
  \/ \E l \in Links : CloseLink(l) \/ Elapse(l)
  \/ \E l \in Links, max \in 0..MaxDownloads, clock \in Clocks : CreateLink(l, max, clock)
  \/ \E q \in Requests : Fetch(q) \/ RevokeAll(q)
  \/ RemoveStored \/ DeleteRow

Spec == Init /\ [][Next]_vars

-----------------------------------------------------------------------------
\* The grants made of the key: the first, second... of each recipient.
Given == {g \in Recipients \X (1..MaxGrants) : g[2] <= grants[g[1]]}
Spent(l) == link[l].max > 0 /\ link[l].count >= link[l].max

\* A link is never used beyond its limit, and no fetch is served but on a use
\* counted for it, however many fetches overlap.
WithinAllowance ==
  \A l \in Links :
     /\ link[l].max > 0 => link[l].count <= link[l].max
     /\ Cardinality({q \in Requests : req[q].at = "streaming" /\ req[q].link = l}) <= link[l].count

\* A fetch is served only on a link that is open, unlocked and not expired
\* when its use is counted, whatever the look-up saw.
ServedWithinTerms ==
  [][\A q \in Requests :
       req[q].at # "streaming" /\ req'[q].at = "streaming" =>
          LET row == link[req[q].link] IN row.state = "open" /\ row.clock = "current"]_vars

\* Once everything was revoked, no access that existed when the owner asked is
\* left, among those given, used and closed meanwhile.
RevokeAllCloses ==
  \A q \in Requests : req[q].at = "done" =>
     /\ req[q].hadLinks \intersect OpenLinks = {}
     /\ \A k \in req[q].hadKeys : keys[k[1]] # k[2]

\* The history has each closing of a link by its owner exactly once, and counts
\* no key twice, while revocations of one and of all overlap.
ClosuresRecorded ==
  /\ file # "deleted" =>
       Cardinality({l \in Links : link[l].state = "closed" /\ ~Spent(l)})
         = record.one + record.links
  /\ record.keys + Cardinality({r \in Recipients : keys[r] # 0}) <= Cardinality(Given)

Allowance == INSTANCE LinkAllowance WITH
  state <- [l \in Links |-> link[l].state],
  limit <- [l \in Links |-> link[l].max],
  uses <- [l \in Links |-> link[l].count]

\* Every link behaves as LinkAllowance says: it never reopens, and its limit
\* and count are never set back.
ImplementsAllowance == Allowance!Spec
=============================================================================
