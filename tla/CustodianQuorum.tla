-------------------------- MODULE CustodianQuorum --------------------------
(***************************************************************************)
(* What custodian recovery promises, without capabilities, expiry clocks,  *)
(* configuration rows or audit trail: a request is opened for an account   *)
(* with a fixed electorate and quorum, a custodian votes at most once,     *)
(* and the request ends exactly once, either closed or recovered, the      *)
(* latter only when the votes then standing reach the quorum.  Module      *)
(* Recovery implements it.                                                 *)
(***************************************************************************)
EXTENDS Naturals, FiniteSets

CONSTANTS Attempts,   \* recovery requests
          Accounts,   \* owners and custodians
          Nobody      \* the owner of a request never opened

VARIABLES phase,      \* "none", "open", "closed" or "recovered", per request
          owner,      \* the account each request recovers
          quorum,     \* the votes each request needs
          electorate, \* the custodians an open request still counts on
          votes       \* those of them who have voted

vars == <<phase, owner, quorum, electorate, votes>>

OpenFor(u) == {a \in Attempts : phase[a] = "open" /\ owner[a] = u}

\* Every request of S that ends leaves neither electorate nor votes behind.
Forget(S) ==
  /\ electorate' = [a \in Attempts |-> IF a \in S THEN {} ELSE electorate[a]]
  /\ votes' = [a \in Attempts |-> IF a \in S THEN {} ELSE votes[a]]

Init ==
  /\ phase = [a \in Attempts |-> "none"]
  /\ owner = [a \in Attempts |-> Nobody]
  /\ quorum = [a \in Attempts |-> 0]
  /\ electorate = [a \in Attempts |-> {}]
  /\ votes = [a \in Attempts |-> {}]

\* A request may be opened with custodians E and quorum q; it supersedes the
\* open request, if any, of the same account.
Open(a, u, E, q) ==
  /\ phase[a] = "none"
  /\ u \notin E
  /\ q \in 1..Cardinality(E)
  /\ phase' = [b \in Attempts |-> IF b = a THEN "open"
                                  ELSE IF b \in OpenFor(u) THEN "closed" ELSE phase[b]]
  /\ owner' = [owner EXCEPT ![a] = u]
  /\ quorum' = [quorum EXCEPT ![a] = q]
  /\ electorate' = [b \in Attempts |-> IF b = a THEN E
                                       ELSE IF b \in OpenFor(u) THEN {} ELSE electorate[b]]
  /\ votes' = [b \in Attempts |-> IF b \in OpenFor(u) THEN {} ELSE votes[b]]

Vote(a, c) ==
  /\ phase[a] = "open"
  /\ c \in electorate[a] \ votes[a]
  /\ votes' = [votes EXCEPT ![a] = @ \union {c}]
  /\ UNCHANGED <<phase, owner, quorum, electorate>>

\* Cancelled, expired or invalidated, all alike.
Close(S) ==
  /\ S # {}
  /\ \A a \in S : phase[a] = "open"
  /\ phase' = [a \in Attempts |-> IF a \in S THEN "closed" ELSE phase[a]]
  /\ Forget(S)
  /\ UNCHANGED <<owner, quorum>>

\* An account disappears: its own request closes, its votes elsewhere go.
Depart(u) ==
  /\ phase' = [a \in Attempts |-> IF a \in OpenFor(u) THEN "closed" ELSE phase[a]]
  /\ electorate' = [a \in Attempts |-> IF a \in OpenFor(u) THEN {} ELSE electorate[a] \ {u}]
  /\ votes' = [a \in Attempts |-> IF a \in OpenFor(u) THEN {} ELSE votes[a] \ {u}]
  /\ UNCHANGED <<owner, quorum>>

Recover(a) ==
  /\ phase[a] = "open"
  /\ Cardinality(votes[a]) >= quorum[a]
  /\ phase' = [phase EXCEPT ![a] = "recovered"]
  /\ Forget({a})
  /\ UNCHANGED <<owner, quorum>>

Next ==
  \/ \E a \in Attempts, u \in Accounts, E \in SUBSET Accounts :
        \E q \in 1..Cardinality(E) : Open(a, u, E, q)
  \/ \E a \in Attempts, c \in Accounts : Vote(a, c)
  \/ \E S \in SUBSET Attempts : Close(S)
  \/ \E u \in Accounts : Depart(u)
  \/ \E a \in Attempts : Recover(a)

Spec == Init /\ [][Next]_vars
=============================================================================
