----------------------------- MODULE Recovery -----------------------------
(***************************************************************************)
(* Custodian account recovery: handle_recovery_capability.go over the      *)
(* tables of sql/schema/050_recovery_attempt_capabilities.sql.  Every      *)
(* operation that writes is one transaction, so it is one action here; an  *)
(* operation that fails, or that rolls back, changes nothing and is a      *)
(* stuttering step.                                                        *)
(***************************************************************************)
EXTENDS Naturals, FiniteSets

CONSTANTS Accounts,       \* users, each a possible owner and custodian
          Attempts,       \* attempt ids, which are never reused
          Parts,          \* share parts a custodian may submit
          Absent,         \* no approval row for this attempt and custodian
          Pending,        \* an approval row that waits for its custodian
          Nobody,         \* the owner of an attempt never started
          MaxCustodians,  \* maxRecoveryCustodians
          MaxSaves        \* bound of the model: configurations ever saved

ASSUME AccountsAssumption == IsFiniteSet(Accounts) /\ Nobody \notin Accounts
ASSUME RowAssumption == Absent # Pending /\ Absent \notin Parts /\ Pending \notin Parts
ASSUME BoundAssumption == MaxCustodians \in Nat /\ MaxSaves \in Nat

VARIABLES accounts,   \* rows of users
          config,     \* per account: users.recovery_threshold, its
                      \* account_recovery_shares, and which save wrote them
          saves,      \* configurations saved so far
          status,     \* account_recovery_attempts.status, "none" before the row
          request,    \* what the attempt row fixes: owner, threshold, and the
                      \* save whose shares its approval rows reference
          due,        \* attempts whose expires_at has passed
          approval,   \* account_recovery_attempt_approvals
          offered,    \* <<attempt, custodian>> whose challenge a custodian has read
          audit       \* audit_logs: share_approved and user.recovered rows

vars == <<accounts, config, saves, status, request, due, approval, offered, audit>>

Outcomes == {"consumed", "cancelled", "expired", "deleted"}
NoConfig == [threshold |-> 0, shares |-> {}, save |-> 0]
NoRows == [c \in Accounts |-> Absent]

OwnedBy(u) == {a \in Attempts : request[a].owner = u}
Active == {a \in Attempts : status[a] = "active"}
Live(a) == status[a] = "active" /\ a \notin due
Rows(a) == {c \in Accounts : approval[a][c] # Absent}
Approved(a) == {c \in Accounts : approval[a][c] \in Parts}

TypeOK ==
  /\ accounts \subseteq Accounts
  /\ config \in [Accounts -> [threshold : Nat, shares : SUBSET Accounts, save : Nat]]
  /\ saves \in Nat
  /\ status \in [Attempts -> {"none", "active"} \union Outcomes]
  /\ request \in [Attempts -> [owner : Accounts \union {Nobody}, threshold : Nat, save : Nat]]
  /\ due \subseteq Attempts
  /\ approval \in [Attempts -> [Accounts -> {Absent, Pending} \union Parts]]
  /\ offered \subseteq Attempts \X Accounts
  /\ audit \in [approved : SUBSET (Attempts \X Accounts),
                recovered : SUBSET [attempt : Attempts, count : Nat, threshold : Nat]]

Init ==
  /\ accounts = Accounts
  /\ config = [u \in Accounts |-> NoConfig]
  /\ saves = 0
  /\ status = [a \in Attempts |-> "none"]
  /\ request = [a \in Attempts |-> [owner |-> Nobody, threshold |-> 0, save |-> 0]]
  /\ due = {}
  /\ approval = [a \in Attempts |-> NoRows]
  /\ offered = {}
  /\ audit = [approved |-> {}, recovered |-> {}]

\* The active attempts of S end with this outcome and their rows are deleted.
CloseKeepingRows(S, outcome) ==   \* mutant: the rows outlive the attempt
  /\ status' = [a \in Attempts |-> IF a \in S \intersect Active THEN outcome ELSE status[a]]
  /\ approval' = approval
Close(S, outcome) ==
  /\ status' = [a \in Attempts |-> IF a \in S \intersect Active THEN outcome ELSE status[a]]
  /\ approval' = [a \in Attempts |-> IF a \in S \intersect Active THEN NoRows ELSE approval[a]]

\* The four expireRecoveryAttempt... statements, over different sets.
ExpireAsTimedOut(S) == Close(S \intersect due, "timed_out")   \* mutant: no such status
Expire(S) == Close(S \intersect due, "expired")

\* The attempts a new configuration of u cancels, if they are active.
InvalidatedIfLive(u) == OwnedBy(u) \ due   \* mutant: an overdue attempt is spared
Invalidated(u) == OwnedBy(u)

\* handlerSaveRecoverySharesV2: the new configuration invalidates the active
\* attempt of its owner.
SaveShares(u, custodians, threshold) ==
  /\ saves < MaxSaves
  /\ u \in accounts
  /\ custodians \subseteq accounts \ {u}
  /\ Cardinality(custodians) \in 1..MaxCustodians
  /\ threshold \in 1..Cardinality(custodians)
  /\ Close(Invalidated(u), "cancelled")
  /\ saves' = saves + 1
  /\ config' = [config EXCEPT ![u] =
                 [threshold |-> threshold, shares |-> custodians, save |-> saves']]
  /\ UNCHANGED <<accounts, request, due, offered, audit>>

\* The overdue attempts of u that a new request of u expires first.
SupersedesNone(u) == {}   \* mutant: the overdue attempt stays active
Superseded(u) == OwnedBy(u) \intersect Active \intersect due

\* handlerStartRecoveryRequestV2 when it creates an attempt.  An account with
\* an attempt still live (409), or whose custodians no longer reach the
\* threshold (decoy 202), leaves the transaction rolled back.
StartRequest(u, a) ==
  /\ status[a] = "none"
  /\ u \in accounts
  /\ \A b \in OwnedBy(u) : ~Live(b)
  /\ config[u].threshold \in 1..Cardinality(config[u].shares)
  /\ status' = [b \in Attempts |-> IF b = a THEN "active"
                                   ELSE IF b \in Superseded(u) THEN "expired" ELSE status[b]]
  /\ approval' = [b \in Attempts |->
                    IF b = a
                    THEN [c \in Accounts |-> IF c \in config[u].shares THEN Pending ELSE Absent]
                    ELSE IF b \in Superseded(u) THEN NoRows ELSE approval[b]]
  /\ request' = [request EXCEPT ![a] =
                  [owner |-> u, threshold |-> config[u].threshold, save |-> config[u].save]]
  /\ UNCHANGED <<accounts, config, saves, due, offered, audit>>

\* handlerGetRecoveryRequestsV2: the custodian reads the challenges of its
\* pending rows, which it may answer at any later time, once or repeatedly.
GetRequests(c) ==
  /\ c \in accounts
  /\ Expire({a \in Attempts : c \in Rows(a)})
  /\ offered' = offered \union {<<a, c>> : a \in {b \in Attempts : Live(b) /\ approval[b][c] = Pending}}
  /\ UNCHANGED <<accounts, config, saves, request, due, audit>>

\* A lookup by attempt id or capability that finds the attempt overdue
\* commits its expiry and answers that it is unavailable.
FoundExpired(a) ==
  /\ a \in due
  /\ Expire({a})
  /\ UNCHANGED <<accounts, config, saves, request, due, offered, audit>>

\* An attempt still open and a row its custodian has not answered.
AnswerableAgain(c, a) == Live(a) /\ c \in Rows(a)   \* mutant: a second answer overwrites
Answerable(c, a) == Live(a) /\ approval[a][c] = Pending

\* The custodian's part is stored and the approval audited.
StoreShare(c, a, part) ==
  /\ Answerable(c, a)
  /\ approval' = [approval EXCEPT ![a][c] = part]
  /\ audit' = [audit EXCEPT !.approved = @ \union {<<a, c>>}]
  /\ UNCHANGED <<accounts, config, saves, status, request, due, offered>>

\* handlerApproveRecoveryShareV2.  A row already approved answers 200 for the
\* same part and 409 for another, and stays as it is.
ApproveShare(c, a, part) ==
  /\ c \in accounts
  /\ <<a, c>> \in offered
  /\ FoundExpired(a) \/ StoreShare(c, a, part)

\* handlerGetRecoveryStatusV2 writes only the expiry it meets.
GetStatus(a) == FoundExpired(a)

\* The count of distinct approving custodians against the attempt's threshold.
HasQuorumOfRows(a) == Cardinality(Rows(a)) >= request[a].threshold   \* mutant: pending rows count
HasQuorumLessOne(a) == Cardinality(Approved(a)) + 1 >= request[a].threshold   \* mutant: off by one
HasQuorum(a) == Cardinality(Approved(a)) >= request[a].threshold

\* The attempt is spent and the recovery audited with the approvals counted.
Consume(a) ==
  /\ Live(a)
  /\ HasQuorum(a)
  /\ Close({a}, "consumed")
  /\ audit' = [audit EXCEPT !.recovered = @ \union
                {[attempt |-> a, count |-> Cardinality(Approved(a)),
                  threshold |-> request[a].threshold]}]
  /\ UNCHANGED <<accounts, config, saves, request, due, offered>>

\* handlerResetRecoveryPasswordV2.  Its writes to the account and its tokens
\* are those of module Credentials.
ResetPassword(a) == FoundExpired(a) \/ Consume(a)

\* The requester withdraws the attempt.
Withdraw(a) ==
  /\ Live(a)
  /\ Close({a}, "cancelled")
  /\ UNCHANGED <<accounts, config, saves, request, due, offered, audit>>

\* handlerCancelRecoveryV2.
CancelRequest(a) == FoundExpired(a) \/ Withdraw(a)

\* What the cascade from users leaves of the approval rows.
RowsOfOtherOwners(u) ==   \* mutant: the rows of a deleted custodian survive it
  [a \in Attempts |-> IF a \in OwnedBy(u) THEN NoRows ELSE approval[a]]
RowsWithout(u) ==
  [a \in Attempts |-> IF a \in OwnedBy(u) THEN NoRows
                      ELSE [approval[a] EXCEPT ![u] = Absent]]

\* deleteUserAsAdminHandler, and each deletion of bulkDeleteUsersHandler: the
\* foreign keys cascade to the account's attempts, shares, approval rows and
\* audit rows.  An attempt already closed keeps its outcome here, for no
\* operation tells a closed attempt from a missing one.  Some account is left:
\* an administrator cannot delete itself.
DeleteAccount(u) ==
  /\ u \in accounts
  /\ accounts # {u}
  /\ accounts' = accounts \ {u}
  /\ config' = [v \in Accounts |-> IF v = u THEN NoConfig
                                   ELSE [config[v] EXCEPT !.shares = @ \ {u}]]
  /\ status' = [a \in Attempts |-> IF a \in OwnedBy(u) \intersect Active
                                   THEN "deleted" ELSE status[a]]
  /\ approval' = RowsWithout(u)
  /\ audit' = [approved |-> {e \in audit.approved : e[1] \notin OwnedBy(u)},
               recovered |-> {e \in audit.recovered : e.attempt \notin OwnedBy(u)}]
  /\ UNCHANGED <<saves, request, due, offered>>

\* recoveryAttemptLifetime passes for an attempt.
Elapse(a) ==
  /\ Live(a)
  /\ due' = due \union {a}
  /\ UNCHANGED <<accounts, config, saves, status, request, approval, offered, audit>>

\* All that happens besides new requests.
BetweenStarts ==
  \/ \E u \in Accounts, custodians \in SUBSET Accounts :
        \E threshold \in 1..Cardinality(custodians) : SaveShares(u, custodians, threshold)
  \/ \E c \in Accounts : GetRequests(c)
  \/ \E c \in Accounts, a \in Attempts, part \in Parts : ApproveShare(c, a, part)
  \/ \E a \in Attempts : GetStatus(a) \/ ResetPassword(a) \/ CancelRequest(a)
  \/ \E u \in Accounts : DeleteAccount(u)
  \/ \E a \in Attempts : Elapse(a)

Next == BetweenStarts \/ \E u \in Accounts, a \in Attempts : StartRequest(u, a)

Spec == Init /\ [][Next]_vars

-----------------------------------------------------------------------------
\* One live claim per account: whatever mix of starts, expiries and clean-ups
\* ran, an owner never has two attempts of status 'active'.
OneActivePerOwner ==
  \A a, b \in Active : request[a].owner = request[b].owner => a = b

\* The approval rows of an active attempt are exactly for custodians of the
\* configuration its owner has now, never of one replaced since.
BoundToConfiguration ==
  \A a \in Active :
     LET u == request[a].owner IN
       /\ u \in accounts
       /\ config[u].save = request[a].save
       /\ Rows(a) = config[u].shares

\* Together: every claim under way is its owner's only one, before the custodians
\* the owner has chosen last, in whatever order starts, saves and expiries come.
OneBoundAttempt == OneActivePerOwner /\ BoundToConfiguration

\* Decrypted share parts live no longer than the attempt: once it is not
\* active, by whichever of the seven ways out, no row of it is left.
PartsErasedWhenClosed == \A a \in Attempts \ Active : Rows(a) = {}

\* The audit trail bears out every recovery: the approvals it counted reach
\* the threshold and are not more than the custodians audited as approving.
RecoveredHasQuorum ==
  \A e \in audit.recovered :
     /\ e.count >= e.threshold
     /\ e.threshold >= 1
     /\ Cardinality({c \in Accounts : <<e.attempt, c>> \in audit.approved}) >= e.count

\* A part once stored is never replaced by another: retries, duplicates and
\* conflicting submissions leave it, and it disappears only with its row.
PartNeverReplaced ==
  [][\A a \in Attempts, c \in Accounts :
        approval[a][c] \in Parts => approval'[a][c] \in {approval[a][c], Absent}]_vars

\* An account is recovered only by custodians who are its custodians at that
\* moment, as many as the threshold configured at that moment.
RecoveredByStandingCustodians ==
  [][\A a \in Attempts :
        status[a] # "consumed" /\ status'[a] = "consumed" =>
          LET u == request[a].owner IN
            Cardinality(Approved(a) \intersect config[u].shares \intersect accounts)
              >= config[u].threshold]_vars

\* Recovery does what CustodianQuorum promises.
Phase == [a \in Attempts |->
            CASE status[a] = "none" -> "none"
              [] status[a] = "active" -> "open"
              [] status[a] = "consumed" -> "recovered"
              [] OTHER -> "closed"]

Quorum == INSTANCE CustodianQuorum WITH
            phase <- Phase,
            owner <- [a \in Attempts |-> request[a].owner],
            quorum <- [a \in Attempts |-> request[a].threshold],
            electorate <- [a \in Attempts |-> Rows(a)],
            votes <- [a \in Attempts |-> Approved(a)]

\* Every attempt opens once, counts each custodian once and ends once, by a
\* recovery only with its quorum of votes standing.
ImplementsQuorum == Quorum!Spec
=============================================================================
