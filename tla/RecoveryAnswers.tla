-------------------------- MODULE RecoveryAnswers --------------------------
(***************************************************************************)
(* Recovery with every answer of handlerStartRecoveryRequestV2, those      *)
(* included whose transaction rolls back and which Recovery leaves out as  *)
(* stuttering: what a start request promises it does for its owner, it has *)
(* to do whatever it answers.                                              *)
(***************************************************************************)
EXTENDS Recovery

VARIABLE served   \* the account the last step served a start request for, or Nobody

varsAnswers == <<vars, served>>

InitAnswers == Init /\ served = Nobody

\* 409: an attempt is live, and the transaction is rolled back.
AnswerConflict(u) ==
  /\ u \in accounts
  /\ \E a \in OwnedBy(u) : Live(a)
  /\ UNCHANGED vars

\* 202 with a decoy capability: the custodians left do not reach the
\* threshold.  The explicit rollback undoes the expiry of this transaction.
AnswerDecoy(u) ==
  /\ u \in accounts
  /\ \A a \in OwnedBy(u) : ~Live(a)
  /\ config[u].threshold \notin 1..Cardinality(config[u].shares)
  /\ UNCHANGED vars

\* A request of u to start recovery, by its three answers.
ServeStart(u) ==
  /\ \/ \E a \in Attempts : StartRequest(u, a)
     \/ AnswerConflict(u)
     \/ AnswerDecoy(u)
  /\ served' = u

NextAnswers ==
  \/ \E u \in Accounts : ServeStart(u)
  \/ BetweenStarts /\ served' = Nobody

SpecAnswers == InitAnswers /\ [][NextAnswers]_varsAnswers

-----------------------------------------------------------------------------
\* docs/credentials-and-recovery.md:35: approved share parts are deleted when
\* an expiry-processing request runs for that owner.  After a start request of
\* an account, no overdue attempt of that account holds a part.
ServedOwnerHoldsNoExpiredParts ==
  served # Nobody => \A a \in OwnedBy(served) \intersect due : Approved(a) = {}
=============================================================================
