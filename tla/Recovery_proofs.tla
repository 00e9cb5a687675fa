-------------------------- MODULE Recovery_proofs --------------------------
(***************************************************************************)
(* Proofs about Recovery for any finite set of accounts and any sets of    *)
(* attempts and parts.                                                     *)
(***************************************************************************)
EXTENDS Recovery, FiniteSetTheorems, TLAPS

(***************************************************************************)
(* The invariants the runs check are not inductive alone.  An attempt      *)
(* counts against its own threshold, so it must be the configured one; a   *)
(* recovery is audited with the approvals it finds in the rows, so every   *)
(* one of them must have been audited when it was stored; and rows are     *)
(* compared with the configuration, so custodians must be accounts other   *)
(* than the owner.                                                         *)
(***************************************************************************)
ConfiguredAreAccounts == \A u \in Accounts : config[u].shares \subseteq accounts \ {u}

ThresholdIsConfigured ==
  \A a \in Active : /\ request[a].threshold = config[request[a].owner].threshold
                    /\ request[a].threshold >= 1

ApprovalsAudited ==
  \A a \in Active, c \in Accounts : approval[a][c] \in Parts => <<a, c>> \in audit.approved

IInv ==
  /\ TypeOK
  /\ OneActivePerOwner
  /\ BoundToConfiguration
  /\ PartsErasedWhenClosed
  /\ RecoveredHasQuorum
  /\ ConfiguredAreAccounts
  /\ ThresholdIsConfigured
  /\ ApprovalsAudited

-----------------------------------------------------------------------------
\* The custodians with an approved row, and with any row, are finitely many
\* accounts, so their number is a natural.
LEMMA ApprovedIsFinite ==
  ASSUME NEW a
  PROVE  /\ IsFiniteSet(Approved(a)) /\ Cardinality(Approved(a)) \in Nat
         /\ IsFiniteSet(Rows(a)) /\ Cardinality(Rows(a)) \in Nat
<1>1. Approved(a) \subseteq Accounts /\ Rows(a) \subseteq Accounts  BY DEF Approved, Rows
<1> QED  BY <1>1, AccountsAssumption, FS_Subset, FS_CardinalityType

\* The initial state has the right types: no configuration, attempt or row.
LEMMA InitType == Init => TypeOK
BY RowAssumption DEF Init, TypeOK, NoConfig, NoRows

\* Closing attempts keeps their status and rows well typed.
LEMMA CloseType ==
  ASSUME TypeOK, NEW S, NEW outcome \in Outcomes, Close(S, outcome)
  PROVE  /\ status' \in [Attempts -> {"none", "active"} \union Outcomes]
         /\ approval' \in [Attempts -> [Accounts -> {Absent, Pending} \union Parts]]
BY DEF TypeOK, Close, Outcomes, Active, NoRows

\* Every operation keeps the types.
LEMMA NextType == TypeOK /\ [Next]_vars => TypeOK'
<1> SUFFICES ASSUME TypeOK, [Next]_vars PROVE TypeOK'  OBVIOUS
<1>0. ASSUME NEW a \in Attempts, FoundExpired(a) PROVE TypeOK'
  BY <1>0, CloseType DEF FoundExpired, Expire, Outcomes, TypeOK
<1>1. ASSUME NEW u \in Accounts, NEW cs \in SUBSET Accounts, NEW t \in 1..Cardinality(cs),
             SaveShares(u, cs, t)
      PROVE  TypeOK'
  <2>1. Cardinality(cs) \in Nat  BY AccountsAssumption, FS_Subset, FS_CardinalityType
  <2>2. t \in Nat  BY <2>1
  <2> QED  BY <1>1, <2>2, CloseType DEF SaveShares, Outcomes, TypeOK
<1>2. ASSUME NEW u \in Accounts, NEW a \in Attempts, StartRequest(u, a) PROVE TypeOK'
  BY <1>2 DEF StartRequest, NoRows, Outcomes, TypeOK
<1>3. ASSUME NEW c \in Accounts, GetRequests(c) PROVE TypeOK'
  BY <1>3, CloseType DEF GetRequests, Expire, Outcomes, TypeOK
<1>4. ASSUME NEW c \in Accounts, NEW a \in Attempts, NEW p \in Parts, ApproveShare(c, a, p)
      PROVE  TypeOK'
  <2>1. ASSUME StoreShare(c, a, p) PROVE TypeOK'
    <3>1. approval' \in [Attempts -> [Accounts -> {Absent, Pending} \union Parts]]
      BY <2>1 DEF StoreShare, TypeOK
    <3>2. audit' = [approved |-> audit.approved \union {<<a, c>>}, recovered |-> audit.recovered]
      BY <2>1 DEF StoreShare, TypeOK
    <3>3. audit' \in [approved : SUBSET (Attempts \X Accounts),
                      recovered : SUBSET [attempt : Attempts, count : Nat, threshold : Nat]]
      <4>1. audit.approved \union {<<a, c>>} \in SUBSET (Attempts \X Accounts)  BY DEF TypeOK
      <4>2. audit.recovered \in SUBSET [attempt : Attempts, count : Nat, threshold : Nat]
        BY DEF TypeOK
      <4> QED  BY <3>2, <4>1, <4>2
    <3> QED  BY <2>1, <3>1, <3>3 DEF StoreShare, TypeOK
  <2> QED  BY <1>0, <1>4, <2>1 DEF ApproveShare
<1>5. ASSUME NEW a \in Attempts, ResetPassword(a) PROVE TypeOK'
  <2>1. Cardinality(Approved(a)) \in Nat  BY ApprovedIsFinite
  <2>2. ASSUME Consume(a) PROVE TypeOK'
    <3>1. [attempt |-> a, count |-> Cardinality(Approved(a)), threshold |-> request[a].threshold]
            \in [attempt : Attempts, count : Nat, threshold : Nat]
      BY <2>1 DEF TypeOK
    <3>2. audit' \in [approved : SUBSET (Attempts \X Accounts),
                      recovered : SUBSET [attempt : Attempts, count : Nat, threshold : Nat]]
      BY <2>2, <3>1 DEF Consume, TypeOK
    <3> QED  BY <2>2, <3>2, CloseType DEF Consume, Outcomes, TypeOK
  <2> QED  BY <1>0, <1>5, <2>2 DEF ResetPassword
<1>6. ASSUME NEW a \in Attempts, CancelRequest(a) PROVE TypeOK'
  BY <1>0, <1>6, CloseType DEF CancelRequest, Withdraw, Outcomes, TypeOK
<1>7. ASSUME NEW u \in Accounts, DeleteAccount(u) PROVE TypeOK'
  <2>1. accounts' \subseteq Accounts /\ status' \in [Attempts -> {"none", "active"} \union Outcomes]
    BY <1>7 DEF DeleteAccount, Outcomes, TypeOK
  <2>2. config' \in [Accounts -> [threshold : Nat, shares : SUBSET Accounts, save : Nat]]
    BY <1>7 DEF DeleteAccount, NoConfig, TypeOK
  <2>3. approval' \in [Attempts -> [Accounts -> {Absent, Pending} \union Parts]]
    BY <1>7 DEF DeleteAccount, RowsWithout, NoRows, TypeOK
  <2>4. audit' \in [approved : SUBSET (Attempts \X Accounts),
                    recovered : SUBSET [attempt : Attempts, count : Nat, threshold : Nat]]
    BY <1>7 DEF DeleteAccount, TypeOK
  <2> QED  BY <1>7, <2>1, <2>2, <2>3, <2>4 DEF DeleteAccount, TypeOK
<1>8. ASSUME NEW a \in Attempts, Elapse(a) PROVE TypeOK'
  BY <1>8 DEF Elapse, TypeOK
<1>9. CASE UNCHANGED vars  BY <1>9 DEF vars, TypeOK
<1> QED  BY <1>0, <1>1, <1>2, <1>3, <1>4, <1>5, <1>6, <1>7, <1>8, <1>9 DEF Next, BetweenStarts, GetStatus

\* Every reachable state of the recovery tables is well typed.
THEOREM TypeCorrect == Spec => []TypeOK
BY InitType, NextType, PTL DEF Spec

-----------------------------------------------------------------------------
\* Closing attempts opens none, leaves no row behind and stores no part, so it
\* keeps whatever is said of the attempts that stay active.
LEMMA CloseFacts ==
  ASSUME TypeOK, NEW S, NEW outcome \in Outcomes, Close(S, outcome)
  PROVE  /\ Active' = Active \ S
         /\ \A a \in Active' : approval'[a] = approval[a]
         /\ \A a \in Attempts \ Active' :
              \/ approval'[a] = [c \in Accounts |-> Absent]
              \/ a \notin Active /\ approval'[a] = approval[a]
BY DEF TypeOK, Close, Outcomes, Active, NoRows

\* An operation that only closes attempts keeps the invariant.
LEMMA CloseKeepsIInv ==
  ASSUME IInv, NEW S, NEW outcome \in Outcomes, Close(S, outcome), TypeOK',
         UNCHANGED <<accounts, config, request, audit>>
  PROVE  IInv'
<1>1. /\ Active' \subseteq Active
      /\ \A a \in Active' : approval'[a] = approval[a]
      /\ \A a \in Attempts \ Active' :
              \/ approval'[a] = [c \in Accounts |-> Absent]
              \/ a \notin Active /\ approval'[a] = approval[a]
  BY CloseFacts DEF IInv
<1>2. OneActivePerOwner'  BY <1>1 DEF IInv, OneActivePerOwner
<1>3. BoundToConfiguration'  BY <1>1 DEF IInv, BoundToConfiguration, Rows
<1>4. PartsErasedWhenClosed'
  BY <1>1 DEF IInv, PartsErasedWhenClosed, Rows
<1>5. RecoveredHasQuorum'  BY DEF IInv, RecoveredHasQuorum
<1>6. ConfiguredAreAccounts'  BY DEF IInv, ConfiguredAreAccounts
<1>7. ThresholdIsConfigured'  BY <1>1 DEF IInv, ThresholdIsConfigured
<1>8. ApprovalsAudited'  BY <1>1 DEF IInv, ApprovalsAudited
<1> QED  BY <1>2, <1>3, <1>4, <1>5, <1>6, <1>7, <1>8 DEF IInv

\* The expiry that a lookup meets is a Close like the others.
LEMMA FoundExpiredKeepsIInv ==
  ASSUME IInv, NEW a \in Attempts, FoundExpired(a), TypeOK' PROVE IInv'
BY CloseKeepsIInv DEF FoundExpired, Expire, Outcomes

\* No attempt, no configuration: the invariant holds at first.
LEMMA InitIInv == Init => IInv
<1> SUFFICES ASSUME Init PROVE IInv  OBVIOUS
<1>1. TypeOK  BY InitType
<1>2. Active = {} /\ \A a \in Attempts : Rows(a) = {}
  BY DEF Init, Active, Rows, NoRows
<1> QED
  BY <1>1, <1>2 DEF IInv, Init, OneActivePerOwner, BoundToConfiguration, PartsErasedWhenClosed,
     RecoveredHasQuorum, ConfiguredAreAccounts, ThresholdIsConfigured, ApprovalsAudited, NoConfig

\* A new configuration leaves its owner without active attempt, so the
\* attempts that remain are bound to configurations that did not change.
LEMMA SaveSharesKeepsIInv ==
  ASSUME IInv, TypeOK', NEW u \in Accounts, NEW cs \in SUBSET Accounts,
         NEW t \in 1..Cardinality(cs), SaveShares(u, cs, t)
  PROVE  IInv'
<1> USE DEF IInv
<1>1. /\ Active' = Active \ OwnedBy(u)
      /\ \A a \in Active' : approval'[a] = approval[a]
      /\ \A a \in Attempts \ Active' :
              \/ approval'[a] = [c \in Accounts |-> Absent]
              \/ a \notin Active /\ approval'[a] = approval[a]
  BY CloseFacts DEF SaveShares, Invalidated, Outcomes
<1>2. /\ UNCHANGED <<accounts, request, audit>>
      /\ \A v \in Accounts \ {u} : config'[v] = config[v]
      /\ config'[u].shares = cs /\ cs \subseteq accounts \ {u}
  BY DEF SaveShares, TypeOK
<1>3. \A a \in Active' : request[a].owner \in Accounts \ {u}
  BY <1>1 DEF OwnedBy, BoundToConfiguration, TypeOK, Active
<1>4. OneActivePerOwner'  BY <1>1, <1>2 DEF OneActivePerOwner
<1>5. BoundToConfiguration'  BY <1>1, <1>2, <1>3 DEF BoundToConfiguration, Rows
<1>6. PartsErasedWhenClosed'  BY <1>1 DEF PartsErasedWhenClosed, Rows
<1>7. RecoveredHasQuorum'  BY <1>2 DEF RecoveredHasQuorum
<1>8. ConfiguredAreAccounts'  BY <1>2 DEF ConfiguredAreAccounts
<1>9. ThresholdIsConfigured'  BY <1>1, <1>2, <1>3 DEF ThresholdIsConfigured
<1>10. ApprovalsAudited'  BY <1>1, <1>2 DEF ApprovalsAudited
<1> QED  BY <1>4, <1>5, <1>6, <1>7, <1>8, <1>9, <1>10

\* A start leaves the new attempt as the only active one of its owner, bound
\* to the configuration it was started from and with nothing approved.
LEMMA StartRequestKeepsIInv ==
  ASSUME IInv, TypeOK', NEW u \in Accounts, NEW a \in Attempts, StartRequest(u, a)
  PROVE  IInv'
<1> USE DEF IInv
<1>1. /\ Active' = (Active \ OwnedBy(u)) \union {a}
      /\ a \notin Active
      /\ \A b \in Active' \ {a} : approval'[b] = approval[b] /\ request'[b] = request[b]
      /\ approval'[a] = [c \in Accounts |-> IF c \in config[u].shares THEN Pending ELSE Absent]
      /\ request'[a] = [owner |-> u, threshold |-> config[u].threshold, save |-> config[u].save]
      /\ \A b \in Attempts \ Active' :
              \/ approval'[b] = [c \in Accounts |-> Absent]
              \/ b \notin Active /\ approval'[b] = approval[b]
  BY DEF StartRequest, Superseded, OwnedBy, Active, Live, TypeOK, NoRows
<1>2. UNCHANGED <<accounts, config, audit>> /\ u \in accounts /\ config[u].threshold >= 1
  BY FS_CardinalityType, FS_Subset, AccountsAssumption DEF StartRequest, TypeOK
<1>3. \A b \in Active' \ {a} : request[b].owner # u
  BY <1>1 DEF OwnedBy, Active
<1>4. OneActivePerOwner'  BY <1>1, <1>3 DEF OneActivePerOwner
<1>5. BoundToConfiguration'
  <2>1. Rows(a)' = config[u].shares
    BY <1>1, RowAssumption DEF Rows, TypeOK
  <2>2. \A b \in Active' \ {a} : Rows(b)' = Rows(b)  BY <1>1 DEF Rows
  <2> QED  BY <1>1, <1>2, <2>1, <2>2 DEF BoundToConfiguration
<1>6. PartsErasedWhenClosed'  BY <1>1 DEF PartsErasedWhenClosed, Rows
<1>7. RecoveredHasQuorum'  BY <1>2 DEF RecoveredHasQuorum
<1>8. ConfiguredAreAccounts'  BY <1>2 DEF ConfiguredAreAccounts
<1>9. ThresholdIsConfigured'  BY <1>1, <1>2 DEF ThresholdIsConfigured
<1>10. ApprovalsAudited'
  <2>1. \A c \in Accounts : approval'[a][c] \notin Parts  BY <1>1, RowAssumption
  <2> QED  BY <1>1, <1>2, <2>1 DEF ApprovalsAudited
<1> QED  BY <1>4, <1>5, <1>6, <1>7, <1>8, <1>9, <1>10

\* A stored share turns one pending row into an approved and audited one; it
\* only adds to the approvals audited for earlier recoveries.
LEMMA StoreShareKeepsIInv ==
  ASSUME IInv, TypeOK', NEW c \in Accounts, NEW a \in Attempts, NEW p \in Parts,
         StoreShare(c, a, p)
  PROVE  IInv'
<1> USE DEF IInv
<1>1. /\ Active' = Active /\ a \in Active
      /\ UNCHANGED <<accounts, config, request>>
      /\ audit'.approved = audit.approved \union {<<a, c>>}
      /\ audit'.recovered = audit.recovered
      /\ approval[a][c] = Pending
      /\ \A b \in Attempts : \A d \in Accounts :
            approval'[b][d] = IF b = a /\ d = c THEN p ELSE approval[b][d]
  BY DEF StoreShare, Answerable, Live, Active, TypeOK
<1>2. \A b \in Attempts : Rows(b)' = Rows(b)  BY <1>1, RowAssumption DEF Rows
<1>3. OneActivePerOwner'  BY <1>1 DEF OneActivePerOwner
<1>4. BoundToConfiguration'  BY <1>1, <1>2 DEF BoundToConfiguration, Active
<1>5. PartsErasedWhenClosed'  BY <1>1, <1>2 DEF PartsErasedWhenClosed
<1>6. RecoveredHasQuorum'
  <2> SUFFICES ASSUME NEW e \in audit.recovered
      PROVE  /\ e.count >= e.threshold
             /\ e.threshold >= 1
             /\ Cardinality({d \in Accounts : <<e.attempt, d>> \in audit'.approved}) >= e.count
    BY <1>1 DEF RecoveredHasQuorum
  <2> DEFINE Before == {d \in Accounts : <<e.attempt, d>> \in audit.approved}
             After == {d \in Accounts : <<e.attempt, d>> \in audit'.approved}
  <2>1. Before \subseteq After /\ IsFiniteSet(After) /\ IsFiniteSet(Before)
    BY <1>1, FS_Subset, AccountsAssumption
  <2>2. Cardinality(Before) <= Cardinality(After)
        /\ Cardinality(Before) \in Nat /\ Cardinality(After) \in Nat
    BY <2>1, FS_Subset, FS_CardinalityType
  <2>3. /\ e.count >= e.threshold /\ e.threshold >= 1
        /\ Cardinality(Before) >= e.count /\ e.count \in Nat
    BY DEF RecoveredHasQuorum, TypeOK
  <2> QED  BY <2>2, <2>3
<1>7. ConfiguredAreAccounts'  BY <1>1 DEF ConfiguredAreAccounts
<1>8. ThresholdIsConfigured'  BY <1>1 DEF ThresholdIsConfigured
<1>9. ApprovalsAudited'  BY <1>1 DEF ApprovalsAudited, Active
<1> QED  BY <1>3, <1>4, <1>5, <1>6, <1>7, <1>8, <1>9

\* A recovery audits the approvals it finds, each audited when it was stored,
\* and they reach the configured threshold.
LEMMA ConsumeKeepsIInv ==
  ASSUME IInv, TypeOK', NEW a \in Attempts, Consume(a) PROVE IInv'
<1> USE DEF IInv
<1> DEFINE row == [attempt |-> a, count |-> Cardinality(Approved(a)),
                   threshold |-> request[a].threshold]
           Audited(b) == {c \in Accounts : <<b, c>> \in audit.approved}
<1>1. /\ Active' = Active \ {a} /\ a \in Active
      /\ \A b \in Active' : approval'[b] = approval[b]
      /\ \A b \in Attempts \ Active' :
              \/ approval'[b] = [c \in Accounts |-> Absent]
              \/ b \notin Active /\ approval'[b] = approval[b]
  BY CloseFacts DEF Consume, Live, Active, Outcomes
<1>2. /\ UNCHANGED <<accounts, config, request>>
      /\ audit'.approved = audit.approved
      /\ audit'.recovered = audit.recovered \union {row}
  BY DEF Consume, TypeOK
<1>3. OneActivePerOwner'  BY <1>1, <1>2 DEF OneActivePerOwner
<1>4. BoundToConfiguration'  BY <1>1, <1>2 DEF BoundToConfiguration, Rows
<1>5. PartsErasedWhenClosed'  BY <1>1 DEF PartsErasedWhenClosed, Rows
<1>6. RecoveredHasQuorum'
  <2>1. Approved(a) \subseteq Audited(a)  BY <1>1 DEF ApprovalsAudited, Approved
  <2>2. /\ Cardinality(Approved(a)) <= Cardinality(Audited(a))
        /\ Cardinality(Approved(a)) \in Nat /\ Cardinality(Audited(a)) \in Nat
    <3>1. IsFiniteSet(Audited(a))  BY FS_Subset, AccountsAssumption
    <3> QED  BY <2>1, <3>1, FS_Subset, FS_CardinalityType
  <2>3. row.count >= row.threshold /\ row.threshold >= 1
        /\ Cardinality(Audited(row.attempt)) >= row.count
    BY <1>1, <2>2 DEF Consume, HasQuorum, ThresholdIsConfigured, TypeOK
  <2> QED  BY <1>2, <2>3 DEF RecoveredHasQuorum
<1>7. ConfiguredAreAccounts'  BY <1>2 DEF ConfiguredAreAccounts
<1>8. ThresholdIsConfigured'  BY <1>1, <1>2 DEF ThresholdIsConfigured
<1>9. ApprovalsAudited'  BY <1>1, <1>2 DEF ApprovalsAudited
<1> QED  BY <1>3, <1>4, <1>5, <1>6, <1>7, <1>8, <1>9

\* A deletion removes the custodian from configurations and rows alike, and
\* the owner with its attempts and its whole trail.
LEMMA DeleteAccountKeepsIInv ==
  ASSUME IInv, TypeOK', NEW u \in Accounts, DeleteAccount(u) PROVE IInv'
<1> USE DEF IInv
<1>1. /\ Active' = Active \ OwnedBy(u)
      /\ request' = request
      /\ accounts' = accounts \ {u}
      /\ \A v \in Accounts \ {u} : /\ config'[v].shares = config[v].shares \ {u}
                                   /\ config'[v].threshold = config[v].threshold
                                   /\ config'[v].save = config[v].save
      /\ config'[u].shares = {}
  BY DEF DeleteAccount, Active, TypeOK, NoConfig
<1>2. \A a \in Attempts : \A c \in Accounts :
         approval'[a][c] = IF a \in OwnedBy(u) \/ c = u THEN Absent ELSE approval[a][c]
  BY DEF DeleteAccount, RowsWithout, NoRows, TypeOK
<1>3. \A a \in Attempts : Rows(a)' = IF a \in OwnedBy(u) THEN {} ELSE Rows(a) \ {u}
  BY <1>2 DEF Rows
<1>4. \A a \in Active' : request[a].owner \in Accounts \ {u}
  BY <1>1 DEF OwnedBy, BoundToConfiguration, TypeOK, Active
<1>5. OneActivePerOwner'  BY <1>1 DEF OneActivePerOwner
<1>6. BoundToConfiguration'
  <2> SUFFICES ASSUME NEW a \in Active'
      PROVE  LET v == request[a].owner IN
               /\ v \in accounts'
               /\ config'[v].save = request[a].save
               /\ Rows(a)' = config'[v].shares
    BY <1>1 DEF BoundToConfiguration
  <2>1. a \in Active /\ a \in Attempts /\ a \notin OwnedBy(u)  BY <1>1 DEF Active
  <2>2. Rows(a)' = Rows(a) \ {u}  BY <1>3, <2>1
  <2> QED  BY <1>1, <1>4, <2>1, <2>2 DEF BoundToConfiguration
<1>7. PartsErasedWhenClosed'  BY <1>1, <1>3 DEF PartsErasedWhenClosed
<1>8. RecoveredHasQuorum'
  <2>1. /\ audit'.approved = {e \in audit.approved : e[1] \notin OwnedBy(u)}
        /\ audit'.recovered = {e \in audit.recovered : e.attempt \notin OwnedBy(u)}
    BY DEF DeleteAccount
  <2>2. ASSUME NEW e \in audit'.recovered
        PROVE  {c \in Accounts : <<e.attempt, c>> \in audit'.approved}
                 = {c \in Accounts : <<e.attempt, c>> \in audit.approved}
    BY <2>1
  <2> QED  BY <2>1, <2>2 DEF RecoveredHasQuorum
<1>9. ConfiguredAreAccounts'  BY <1>1 DEF ConfiguredAreAccounts
<1>10. ThresholdIsConfigured'  BY <1>1, <1>4 DEF ThresholdIsConfigured
<1>11. ApprovalsAudited'
  <2> SUFFICES ASSUME NEW a \in Active', NEW c \in Accounts, approval'[a][c] \in Parts
      PROVE  <<a, c>> \in audit'.approved
    BY DEF ApprovalsAudited
  <2>1. a \in Active /\ a \in Attempts /\ a \notin OwnedBy(u)  BY <1>1 DEF Active
  <2>2. approval[a][c] \in Parts  BY <1>2, <2>1, RowAssumption
  <2> QED  BY <2>1, <2>2 DEF ApprovalsAudited, DeleteAccount
<1> QED  BY <1>5, <1>6, <1>7, <1>8, <1>9, <1>10, <1>11

\* Every operation keeps the inductive invariant.
LEMMA NextIInv == IInv /\ [Next]_vars => IInv'
<1> SUFFICES ASSUME IInv, [Next]_vars PROVE IInv'  OBVIOUS
<1>0. TypeOK /\ TypeOK'  BY NextType DEF IInv
<1>1. ASSUME NEW a \in Attempts, FoundExpired(a) PROVE IInv'
  BY <1>0, <1>1, FoundExpiredKeepsIInv
<1>2. ASSUME NEW u \in Accounts, NEW cs \in SUBSET Accounts, NEW t \in 1..Cardinality(cs),
             SaveShares(u, cs, t)
      PROVE  IInv'
  BY <1>0, <1>2, SaveSharesKeepsIInv
<1>3. ASSUME NEW u \in Accounts, NEW a \in Attempts, StartRequest(u, a) PROVE IInv'
  BY <1>0, <1>3, StartRequestKeepsIInv
<1>4. ASSUME NEW c \in Accounts, GetRequests(c) PROVE IInv'
  BY <1>0, <1>4, CloseKeepsIInv DEF GetRequests, Expire, Outcomes
<1>5. ASSUME NEW c \in Accounts, NEW a \in Attempts, NEW p \in Parts, ApproveShare(c, a, p)
      PROVE  IInv'
  BY <1>0, <1>1, <1>5, StoreShareKeepsIInv DEF ApproveShare
<1>6. ASSUME NEW a \in Attempts, ResetPassword(a) PROVE IInv'
  BY <1>0, <1>1, <1>6, ConsumeKeepsIInv DEF ResetPassword
<1>7. ASSUME NEW a \in Attempts, CancelRequest(a) PROVE IInv'
  BY <1>0, <1>1, <1>7, CloseKeepsIInv DEF CancelRequest, Withdraw, Outcomes
<1>8. ASSUME NEW u \in Accounts, DeleteAccount(u) PROVE IInv'
  BY <1>0, <1>8, DeleteAccountKeepsIInv
<1>9. CASE (\E a \in Attempts : Elapse(a)) \/ UNCHANGED vars
  BY <1>0, <1>9 DEF Elapse, vars, IInv, OneActivePerOwner, BoundToConfiguration,
     PartsErasedWhenClosed, RecoveredHasQuorum, ConfiguredAreAccounts, ThresholdIsConfigured,
     ApprovalsAudited, Active, Rows
<1> QED  BY <1>1, <1>2, <1>3, <1>4, <1>5, <1>6, <1>7, <1>8, <1>9 DEF Next, BetweenStarts, GetStatus

\* The strengthening that carries the four safety invariants holds throughout.
THEOREM Inductive == Spec => []IInv
BY InitIInv, NextIInv, PTL DEF Spec

\* An owner never has two active attempts (idx_recovery_attempts_one_active_user
\* never refuses a start that the code lets through), and an active one is bound to
\* its owner's present configuration.
THEOREM Bound == Spec => []OneBoundAttempt
<1>1. IInv => OneBoundAttempt  BY DEF IInv, OneBoundAttempt
<1> QED  BY Inductive, <1>1, PTL

\* No decrypted share part outlives its attempt.
THEOREM Erased == Spec => []PartsErasedWhenClosed
BY Inductive, PTL DEF IInv

\* Every audited recovery had its quorum of audited approvals.
THEOREM Recovered == Spec => []RecoveredHasQuorum
BY Inductive, PTL DEF IInv

-----------------------------------------------------------------------------
\* Closing attempts replaces no part: each row stays or goes.
LEMMA CloseReplacesNoPart ==
  ASSUME TypeOK, NEW S, NEW outcome, Close(S, outcome), NEW a \in Attempts, NEW c \in Accounts
  PROVE  approval'[a][c] \in {approval[a][c], Absent}
BY DEF Close, NoRows

\* No operation replaces a stored part by another one.
THEOREM NeverReplaced == Spec => PartNeverReplaced
<1> DEFINE Keeps == \A a \in Attempts, c \in Accounts :
                      approval[a][c] \in Parts => approval'[a][c] \in {approval[a][c], Absent}
<1>1. ASSUME IInv, TypeOK, [Next]_vars PROVE Keeps
  <2> SUFFICES ASSUME NEW a \in Attempts, NEW c \in Accounts, approval[a][c] \in Parts
      PROVE  approval'[a][c] \in {approval[a][c], Absent}
    OBVIOUS
  <2>1. ASSUME NEW S, NEW outcome, Close(S, outcome)
        PROVE  approval'[a][c] \in {approval[a][c], Absent}
    BY <1>1, <2>1, CloseReplacesNoPart
  <2>2. ASSUME NEW b \in Attempts, FoundExpired(b)
        PROVE  approval'[a][c] \in {approval[a][c], Absent}
    BY <2>1, <2>2 DEF FoundExpired, Expire
  <2>3. ASSUME NEW u \in Accounts, NEW cs \in SUBSET Accounts, NEW t \in 1..Cardinality(cs),
               SaveShares(u, cs, t)
        PROVE  approval'[a][c] \in {approval[a][c], Absent}
    BY <2>1, <2>3 DEF SaveShares
  <2>4. ASSUME NEW u \in Accounts, NEW b \in Attempts, StartRequest(u, b)
        PROVE  approval'[a][c] \in {approval[a][c], Absent}
    <3>1. Rows(b) = {}  BY <1>1, <2>4 DEF StartRequest, IInv, PartsErasedWhenClosed, Active
    <3>2. a # b  BY <3>1, RowAssumption DEF Rows
    <3> QED  BY <2>4, <3>2 DEF StartRequest, NoRows
  <2>5. ASSUME NEW d \in Accounts, GetRequests(d)
        PROVE  approval'[a][c] \in {approval[a][c], Absent}
    BY <2>1, <2>5 DEF GetRequests, Expire
  <2>6. ASSUME NEW d \in Accounts, NEW b \in Attempts, NEW p \in Parts, ApproveShare(d, b, p)
        PROVE  approval'[a][c] \in {approval[a][c], Absent}
    <3>1. ASSUME StoreShare(d, b, p) PROVE approval'[a][c] = approval[a][c]
      <4>1. ~(a = b /\ c = d)  BY <3>1, RowAssumption DEF StoreShare, Answerable
      <4> QED  BY <1>1, <3>1, <4>1 DEF StoreShare, TypeOK
    <3> QED  BY <2>2, <2>6, <3>1 DEF ApproveShare
  <2>7. ASSUME NEW b \in Attempts, ResetPassword(b) \/ CancelRequest(b) \/ GetStatus(b)
        PROVE  approval'[a][c] \in {approval[a][c], Absent}
    <3>1. CASE Consume(b)  BY <2>1, <3>1 DEF Consume
    <3>2. CASE Withdraw(b)  BY <2>1, <3>2 DEF Withdraw
    <3> QED  BY <2>2, <2>7, <3>1, <3>2 DEF ResetPassword, CancelRequest, GetStatus
  <2>8. ASSUME NEW u \in Accounts, DeleteAccount(u)
        PROVE  approval'[a][c] \in {approval[a][c], Absent}
    BY <1>1, <2>8 DEF DeleteAccount, RowsWithout, NoRows, TypeOK
  <2>9. CASE (\E b \in Attempts : Elapse(b)) \/ UNCHANGED vars
    BY <2>9 DEF Elapse, vars
  <2> QED  BY <1>1, <2>3, <2>4, <2>5, <2>6, <2>7, <2>8, <2>9 DEF Next, BetweenStarts
<1>2. IInv => TypeOK  BY DEF IInv
<1> QED  BY <1>1, <1>2, Inductive, PTL DEF Spec, PartNeverReplaced

-----------------------------------------------------------------------------
(***************************************************************************)
(* The audit trail has one recovery for each attempt that was spent, as    *)
(* long as the account is there, and none for any other attempt.           *)
(***************************************************************************)
AuditedOnce ==
  /\ \A e \in audit.recovered : status[e.attempt] = "consumed"
  /\ \A e, f \in audit.recovered : e.attempt = f.attempt => e = f
  /\ \A a \in Attempts : status[a] = "consumed" /\ request[a].owner \in accounts =>
        \E e \in audit.recovered : e.attempt = a

\* A step that ends attempts otherwise than by a recovery.
LEMMA OtherEndsKeepAudit ==
  ASSUME AuditedOnce, UNCHANGED <<accounts, request>>, audit'.recovered = audit.recovered,
         \A a \in Attempts : status'[a] = "consumed" <=> status[a] = "consumed", TypeOK
  PROVE  AuditedOnce'
<1>1. \A e \in audit.recovered : e.attempt \in Attempts  BY DEF TypeOK
<1> QED  BY <1>1 DEF AuditedOnce

\* Closing attempts with another outcome spends none and revives none.
LEMMA CloseSpendsNone ==
  ASSUME TypeOK, NEW S, NEW outcome \in Outcomes \ {"consumed"}, Close(S, outcome), NEW a \in Attempts
  PROVE  status'[a] = "consumed" <=> status[a] = "consumed"
BY DEF Close, Outcomes, Active

\* Every operation keeps the trail exact.
LEMMA NextAudited == IInv /\ AuditedOnce /\ [Next]_vars => AuditedOnce'
<1> SUFFICES ASSUME IInv, AuditedOnce, [Next]_vars PROVE AuditedOnce'  OBVIOUS
<1>0. TypeOK  BY DEF IInv
<1>1. ASSUME NEW S, NEW outcome \in Outcomes \ {"consumed"}, Close(S, outcome),
             UNCHANGED <<accounts, request, audit>>
      PROVE  AuditedOnce'
  BY <1>0, <1>1, CloseSpendsNone, OtherEndsKeepAudit
<1>2. ASSUME NEW a \in Attempts, FoundExpired(a) PROVE AuditedOnce'
  BY <1>1, <1>2 DEF FoundExpired, Expire, Outcomes
<1>3. ASSUME NEW u \in Accounts, NEW cs \in SUBSET Accounts, NEW t \in 1..Cardinality(cs),
             SaveShares(u, cs, t)
      PROVE  AuditedOnce'
  BY <1>1, <1>3 DEF SaveShares, Outcomes
<1>4. ASSUME NEW u \in Accounts, NEW a \in Attempts, StartRequest(u, a) PROVE AuditedOnce'
  <2>1. /\ status[a] = "none" /\ status'[a] = "active"
        /\ \A b \in Attempts : status'[b] = "consumed" <=> status[b] = "consumed"
    BY <1>0, <1>4 DEF StartRequest, Superseded, Active, TypeOK
  <2>2. /\ \A b \in Attempts \ {a} : request'[b] = request[b]
        /\ UNCHANGED <<accounts, audit>>
    BY <1>0, <1>4 DEF StartRequest, TypeOK
  <2>3. \A e \in audit.recovered : e.attempt \in Attempts  BY <1>0 DEF TypeOK
  <2> QED  BY <2>1, <2>2, <2>3 DEF AuditedOnce
<1>5. ASSUME NEW c \in Accounts, GetRequests(c) PROVE AuditedOnce'
  BY <1>1, <1>5 DEF GetRequests, Expire, Outcomes
<1>6. ASSUME NEW c \in Accounts, NEW a \in Attempts, NEW p \in Parts, ApproveShare(c, a, p)
      PROVE  AuditedOnce'
  <2>1. CASE StoreShare(c, a, p)
    <3>1. audit'.recovered = audit.recovered  BY <1>0, <2>1 DEF StoreShare, TypeOK
    <3> QED  BY <1>0, <2>1, <3>1, OtherEndsKeepAudit DEF StoreShare
  <2> QED  BY <1>2, <1>6, <2>1 DEF ApproveShare
<1>7. ASSUME NEW a \in Attempts, Consume(a) PROVE AuditedOnce'
  <2>1. PICK row \in [attempt : Attempts, count : Nat, threshold : Nat] :
          row.attempt = a /\ audit'.recovered = audit.recovered \union {row}
    <3> DEFINE row == [attempt |-> a, count |-> Cardinality(Approved(a)), threshold |-> request[a].threshold]
    <3>1. Cardinality(Approved(a)) \in Nat
      BY AccountsAssumption, FS_Subset, FS_CardinalityType DEF Approved
    <3>2. row \in [attempt : Attempts, count : Nat, threshold : Nat]  BY <1>0, <3>1 DEF TypeOK
    <3>3. audit'.recovered = audit.recovered \union {row}  BY <1>0, <1>7 DEF Consume, TypeOK
    <3> QED  BY <3>2, <3>3
  <2>2. /\ UNCHANGED <<accounts, request>> /\ status[a] = "active" /\ status'[a] = "consumed"
        /\ \A b \in Attempts \ {a} : status'[b] = status[b]
    BY <1>0, <1>7 DEF Consume, Live, Close, Active, TypeOK
  <2>3. \A e \in audit.recovered : e.attempt \in Attempts /\ e.attempt # a
    BY <1>0, <2>2 DEF AuditedOnce, TypeOK
  <2> QED  BY <2>1, <2>2, <2>3 DEF AuditedOnce
<1>8. ASSUME NEW a \in Attempts, Withdraw(a) PROVE AuditedOnce'
  BY <1>1, <1>8 DEF Withdraw, Outcomes
<1>9. ASSUME NEW u \in Accounts, DeleteAccount(u) PROVE AuditedOnce'
  <2>1. /\ accounts' = accounts \ {u} /\ UNCHANGED request
        /\ \A a \in Attempts : status'[a] = "consumed" <=> status[a] = "consumed"
    BY <1>0, <1>9 DEF DeleteAccount, Active, TypeOK
  <2>2. audit'.recovered = {e \in audit.recovered : e.attempt \notin OwnedBy(u)}
    BY <1>9 DEF DeleteAccount
  <2>3. \A e \in audit.recovered : e.attempt \in Attempts  BY <1>0 DEF TypeOK
  <2> QED  BY <2>1, <2>2, <2>3 DEF AuditedOnce, OwnedBy
<1>10. CASE (\E a \in Attempts : Elapse(a)) \/ UNCHANGED vars
  BY <1>0, <1>10, OtherEndsKeepAudit DEF Elapse, vars
<1> QED  BY <1>2, <1>3, <1>4, <1>5, <1>6, <1>7, <1>8, <1>9, <1>10
         DEF Next, BetweenStarts, GetStatus, ResetPassword, CancelRequest

\* No attempt recovers an account twice, and the trail neither misses a recovery
\* nor tells of one that was not.
THEOREM AuditExact == Spec => []AuditedOnce
<1>1. Init => AuditedOnce  BY DEF Init, AuditedOnce
<1> QED  BY <1>1, NextAudited, Inductive, PTL DEF Spec

-----------------------------------------------------------------------------
\* Only Consume spends an attempt.
LEMMA OnlyConsumeSpends ==
  ASSUME IInv, [Next]_vars, NEW a \in Attempts, status[a] # "consumed", status'[a] = "consumed"
  PROVE  Consume(a)
<1> USE DEF IInv
<1>1. ASSUME NEW S, NEW outcome \in Outcomes \ {"consumed"}, Close(S, outcome) PROVE FALSE
  BY <1>1 DEF Close, Outcomes
<1>2. ASSUME NEW b \in Attempts, FoundExpired(b) PROVE FALSE
  BY <1>1, <1>2 DEF FoundExpired, Expire, Outcomes
<1>3. ASSUME NEW u \in Accounts, NEW cs \in SUBSET Accounts, NEW t \in 1..Cardinality(cs),
             SaveShares(u, cs, t)
      PROVE  FALSE
  BY <1>1, <1>3 DEF SaveShares, Outcomes
<1>4. ASSUME NEW u \in Accounts, NEW b \in Attempts, StartRequest(u, b) PROVE FALSE
  BY <1>4 DEF StartRequest
<1>5. ASSUME NEW c \in Accounts, GetRequests(c) PROVE FALSE
  BY <1>1, <1>5 DEF GetRequests, Expire, Outcomes
<1>6. ASSUME NEW c \in Accounts, NEW b \in Attempts, NEW p \in Parts, ApproveShare(c, b, p)
      PROVE  FALSE
  BY <1>2, <1>6 DEF ApproveShare, StoreShare
<1>7. ASSUME NEW b \in Attempts, Consume(b) PROVE a = b
  BY <1>7 DEF Consume, Close
<1>8. ASSUME NEW b \in Attempts, Withdraw(b) PROVE FALSE
  BY <1>1, <1>8 DEF Withdraw, Outcomes
<1>9. ASSUME NEW u \in Accounts, DeleteAccount(u) PROVE FALSE
  BY <1>9 DEF DeleteAccount
<1>10. CASE (\E b \in Attempts : Elapse(b)) \/ UNCHANGED vars
  BY <1>10 DEF Elapse, vars
<1> QED
  BY <1>2, <1>3, <1>4, <1>5, <1>6, <1>7, <1>8, <1>9, <1>10
     DEF Next, BetweenStarts, GetStatus, ResetPassword, CancelRequest

\* An account is recovered only by its custodians of that moment, as many as
\* the threshold of that moment.
THEOREM ByStandingCustodians == Spec => RecoveredByStandingCustodians
<1>1. ASSUME IInv, [Next]_vars, NEW a \in Attempts, status[a] # "consumed", status'[a] = "consumed"
      PROVE  LET u == request[a].owner IN
               Cardinality(Approved(a) \intersect config[u].shares \intersect accounts)
                 >= config[u].threshold
  <2> DEFINE u == request[a].owner
  <2>1. Consume(a)  BY <1>1, OnlyConsumeSpends
  <2>2. a \in Active /\ Cardinality(Approved(a)) >= request[a].threshold
    BY <2>1 DEF Consume, Live, Active, HasQuorum
  <2>3. u \in Accounts /\ Rows(a) = config[u].shares /\ request[a].threshold = config[u].threshold
    BY <1>1, <2>2 DEF IInv, BoundToConfiguration, ThresholdIsConfigured, TypeOK
  <2>4. Approved(a) \subseteq Rows(a)  BY RowAssumption DEF Approved, Rows
  <2>5. Approved(a) \intersect config[u].shares \intersect accounts = Approved(a)
    BY <1>1, <2>3, <2>4 DEF IInv, ConfiguredAreAccounts
  <2> QED  BY <2>2, <2>3, <2>5
<1>2. ASSUME IInv, [Next]_vars
      PROVE  \A a \in Attempts :
               status[a] # "consumed" /\ status'[a] = "consumed" =>
                 LET u == request[a].owner IN
                   Cardinality(Approved(a) \intersect config[u].shares \intersect accounts)
                     >= config[u].threshold
  BY <1>1, <1>2
<1> QED  BY <1>2, Inductive, PTL DEF Spec, RecoveredByStandingCustodians

-----------------------------------------------------------------------------
\* The refinement: initial states map to initial states, steps to steps.
\* The abstract specification has its own name for the same Cardinality.
LEMMA SameCardinality == \A S : Quorum!Cardinality(S) = Cardinality(S)
BY DEF Quorum!Cardinality, Cardinality

\* No attempt has begun in either specification.
LEMMA InitRefines == Init => Quorum!Init
BY RowAssumption DEF Init, Quorum!Init, Phase, NoRows, Rows, Approved

\* Closing attempts, for whichever reason, closes requests.
LEMMA CloseRefines ==
  ASSUME IInv, NEW S, NEW outcome \in {"cancelled", "expired"}, Close(S, outcome),
         UNCHANGED request
  PROVE  [Quorum!Next]_(Quorum!vars)
<1> DEFINE T == {a \in Attempts : a \in S \intersect Active}
<1>0. TypeOK  BY DEF IInv
<1>1. \A a \in Attempts : Phase[a] = "open" <=> a \in Active
  BY DEF Phase, Active
<1>2. Phase' = [a \in Attempts |-> IF a \in T THEN "closed" ELSE Phase[a]]
  BY <1>0 DEF Close, Phase, Active, TypeOK
<1>3. /\ [a \in Attempts |-> Rows(a)]' = [a \in Attempts |-> IF a \in T THEN {} ELSE Rows(a)]
      /\ [a \in Attempts |-> Approved(a)]'
           = [a \in Attempts |-> IF a \in T THEN {} ELSE Approved(a)]
  <2>1. \A a \in T : approval'[a] = NoRows  BY DEF Close
  <2>2. \A a \in Attempts \ T : approval'[a] = approval[a]  BY DEF Close
  <2>3. \A a \in T : Rows(a)' = {} /\ Approved(a)' = {}
    BY <2>1, RowAssumption DEF Rows, Approved, NoRows
  <2>4. \A a \in Attempts \ T : Rows(a)' = Rows(a) /\ Approved(a)' = Approved(a)
    BY <2>2 DEF Rows, Approved
  <2> QED  BY <2>3, <2>4
<1>4. CASE T = {}
  BY <1>2, <1>3, <1>4 DEF Quorum!vars, Phase
<1>5. CASE T # {}
  <2>1. Quorum!Close(T)
    BY <1>1, <1>2, <1>3, <1>5 DEF Quorum!Close, Quorum!Forget
  <2> QED  BY <2>1 DEF Quorum!Next
<1> QED  BY <1>4, <1>5

\* A new attempt opens a request; the overdue one it expires is superseded.
LEMMA StartRefines ==
  ASSUME IInv, NEW u \in Accounts, NEW a \in Attempts, StartRequest(u, a)
  PROVE  Quorum!Next
<1> DEFINE old == Superseded(u)
<1>0. TypeOK /\ a \notin Active  BY DEF IInv, StartRequest, Active
<1>a. PICK E \in SUBSET Accounts : E = config[u].shares  BY <1>0 DEF TypeOK
<1>b. PICK q \in 1..Quorum!Cardinality(E) : q = config[u].threshold
  BY <1>a, SameCardinality DEF StartRequest
<1>1. \A b \in Attempts : b \in old <=> Phase[b] = "open" /\ request[b].owner = u
  BY <1>0 DEF Phase, Superseded, StartRequest, Live, Active, OwnedBy
<1>2. Phase' = [b \in Attempts |-> IF b = a THEN "open" ELSE IF b \in old THEN "closed" ELSE Phase[b]]
  BY <1>0 DEF StartRequest, Phase, TypeOK
<1>3. \A b \in Attempts : /\ Rows(b)' = IF b = a THEN E ELSE IF b \in old THEN {} ELSE Rows(b)
                          /\ Approved(b)' = IF b \in old THEN {} ELSE Approved(b)
  <2>1. Rows(a)' = E /\ Approved(a)' = {}
    BY <1>0, <1>a, RowAssumption DEF StartRequest, Rows, Approved, TypeOK
  <2>2. Rows(a) = {}  BY <1>0 DEF IInv, PartsErasedWhenClosed
  <2>3. Approved(a) = {}  BY <2>2, RowAssumption DEF Rows, Approved
  <2>4. \A b \in Attempts \ {a} :
          approval'[b] = IF b \in old THEN NoRows ELSE approval[b]
    BY DEF StartRequest
  <2>5. ASSUME NEW b \in Attempts \ {a}
        PROVE  /\ Rows(b)' = IF b \in old THEN {} ELSE Rows(b)
               /\ Approved(b)' = IF b \in old THEN {} ELSE Approved(b)
    BY <2>4, <2>5, RowAssumption DEF Rows, Approved, NoRows
  <2> QED  BY <2>1, <2>3, <2>5, <1>0
<1>4. /\ [b \in Attempts |-> Rows(b)]'
           = [b \in Attempts |-> IF b = a THEN E ELSE IF b \in old THEN {}
                                 ELSE [d \in Attempts |-> Rows(d)][b]]
      /\ [b \in Attempts |-> Approved(b)]'
           = [b \in Attempts |-> IF b \in old THEN {}
                                 ELSE [d \in Attempts |-> Approved(d)][b]]
  BY <1>3
<1>5. /\ [b \in Attempts |-> request[b].owner]'
           = [[b \in Attempts |-> request[b].owner] EXCEPT ![a] = u]
      /\ [b \in Attempts |-> request[b].threshold]'
           = [[b \in Attempts |-> request[b].threshold] EXCEPT ![a] = q]
  BY <1>0, <1>b DEF StartRequest, TypeOK
<1>6. u \notin E /\ Phase[a] = "none"
  BY <1>0, <1>a DEF StartRequest, IInv, ConfiguredAreAccounts, TypeOK, Phase
<1>7. old = Quorum!OpenFor(u)
  BY <1>1 DEF Quorum!OpenFor, Superseded, OwnedBy
<1> HIDE DEF old
<1>8. Quorum!Open(a, u, E, q)
  <2>1. [b \in Attempts |-> Rows(b)]'
          = [b \in Attempts |-> IF b = a THEN E ELSE IF b \in Quorum!OpenFor(u) THEN {}
                                ELSE [d \in Attempts |-> Rows(d)][b]]
    BY <1>4, <1>7
  <2>2. [b \in Attempts |-> Approved(b)]'
          = [b \in Attempts |-> IF b \in Quorum!OpenFor(u) THEN {}
                                ELSE [d \in Attempts |-> Approved(d)][b]]
    BY <1>4, <1>7
  <2>3. Phase' = [b \in Attempts |-> IF b = a THEN "open"
                                     ELSE IF b \in Quorum!OpenFor(u) THEN "closed" ELSE Phase[b]]
    BY <1>2, <1>7
  <2> QED  BY <1>5, <1>6, <2>1, <2>2, <2>3 DEF Quorum!Open
<1> QED  BY <1>8 DEF Quorum!Next

\* A stored share part is a vote not cast before.
LEMMA StoreRefines ==
  ASSUME IInv, NEW c \in Accounts, NEW a \in Attempts, NEW p \in Parts, StoreShare(c, a, p)
  PROVE  Quorum!Next
<1>0. TypeOK  BY DEF IInv
<1>1. Phase[a] = "open" /\ Phase' = Phase
  BY DEF StoreShare, Answerable, Live, Phase
<1>2. \A b \in Attempts : \A d \in Accounts :
        approval'[b][d] = IF b = a /\ d = c THEN p ELSE approval[b][d]
  BY <1>0 DEF StoreShare, TypeOK
<1>3. approval[a][c] = Pending  BY DEF StoreShare, Answerable
<1>4. /\ \A b \in Attempts : Rows(b)' = Rows(b)
      /\ \A b \in Attempts \ {a} : Approved(b)' = Approved(b)
      /\ Approved(a)' = Approved(a) \union {c}
      /\ c \in Rows(a) \ Approved(a)
  BY <1>2, <1>3, RowAssumption DEF Rows, Approved
<1>5. /\ [b \in Attempts |-> Rows(b)]' = [b \in Attempts |-> Rows(b)]
      /\ [b \in Attempts |-> Approved(b)]'
           = [[b \in Attempts |-> Approved(b)] EXCEPT ![a] = @ \union {c}]
  BY <1>4
<1>6. request' = request  BY DEF StoreShare
<1>7. Quorum!Vote(a, c)
  BY <1>1, <1>4, <1>5, <1>6 DEF Quorum!Vote
<1> QED  BY <1>7 DEF Quorum!Next

\* A reset recovers with the quorum of votes standing.
LEMMA ConsumeRefines ==
  ASSUME IInv, NEW a \in Attempts, Consume(a)
  PROVE  Quorum!Next
<1>0. TypeOK /\ a \in Active  BY DEF IInv, Consume, Live, Active
<1>1. Phase[a] = "open" /\ Phase' = [Phase EXCEPT ![a] = "recovered"]
  BY <1>0 DEF Consume, Close, Phase, Active, TypeOK
<1>2. \A b \in Attempts : approval'[b] = IF b = a THEN NoRows ELSE approval[b]
  BY <1>0 DEF Consume, Close
<1>3. \A b \in Attempts : /\ Rows(b)' = IF b = a THEN {} ELSE Rows(b)
                          /\ Approved(b)' = IF b = a THEN {} ELSE Approved(b)
  BY <1>2, RowAssumption DEF Rows, Approved, NoRows
<1>4. /\ [b \in Attempts |-> Rows(b)]'
           = [b \in Attempts |-> IF b \in {a} THEN {} ELSE [d \in Attempts |-> Rows(d)][b]]
      /\ [b \in Attempts |-> Approved(b)]'
           = [b \in Attempts |-> IF b \in {a} THEN {} ELSE [d \in Attempts |-> Approved(d)][b]]
  BY <1>3
<1>5. request' = request /\ Cardinality(Approved(a)) >= request[a].threshold
  BY DEF Consume, HasQuorum
<1>6. Cardinality([b \in Attempts |-> Approved(b)][a]) >= [b \in Attempts |-> request[b].threshold][a]
  <2>1. [b \in Attempts |-> Approved(b)][a] = Approved(a)  OBVIOUS
  <2> QED  BY <1>5, <2>1
<1>7. Quorum!Recover(a)
  <2>1. Quorum!Forget({a})  BY <1>4 DEF Quorum!Forget
  <2>2. UNCHANGED <<[b \in Attempts |-> request[b].owner], [b \in Attempts |-> request[b].threshold]>>
    BY <1>5
  <2> QED  BY <1>1, <1>6, <2>1, <2>2, SameCardinality DEF Quorum!Recover
<1> QED  BY <1>7 DEF Quorum!Next

\* A deleted account departs: its request closes and its votes go.
LEMMA DeleteRefines ==
  ASSUME IInv, NEW u \in Accounts, DeleteAccount(u)
  PROVE  Quorum!Next
<1> DEFINE own == Quorum!OpenFor(u)
<1>0. TypeOK  BY DEF IInv
<1>1. \A a \in Attempts : a \in own <=> a \in OwnedBy(u) \intersect Active
  BY DEF Quorum!OpenFor, Phase, OwnedBy, Active
<1>2. Phase' = [a \in Attempts |-> IF a \in own THEN "closed" ELSE Phase[a]]
  BY <1>0, <1>1 DEF DeleteAccount, Phase, TypeOK, Active
<1>3. \A a \in Attempts : \A c \in Accounts :
         approval'[a][c] = IF a \in OwnedBy(u) \/ c = u THEN Absent ELSE approval[a][c]
  BY <1>0 DEF DeleteAccount, RowsWithout, NoRows, TypeOK
<1>4. \A a \in Attempts : a \in OwnedBy(u) /\ a \notin own => Rows(a) = {} /\ Approved(a) = {}
  <2>1. \A a \in Attempts : Rows(a) = {} => Approved(a) = {}
    BY RowAssumption DEF Rows, Approved
  <2> QED  BY <1>1, <2>1 DEF IInv, PartsErasedWhenClosed
<1>5. \A a \in Attempts : /\ Rows(a)' = IF a \in own THEN {} ELSE Rows(a) \ {u}
                          /\ Approved(a)' = IF a \in own THEN {} ELSE Approved(a) \ {u}
  <2> SUFFICES ASSUME NEW a \in Attempts
      PROVE  /\ Rows(a)' = IF a \in own THEN {} ELSE Rows(a) \ {u}
             /\ Approved(a)' = IF a \in own THEN {} ELSE Approved(a) \ {u}
    OBVIOUS
  <2>1. CASE a \in OwnedBy(u)
    <3>1. Rows(a)' = {} /\ Approved(a)' = {}
      BY <1>3, <2>1, RowAssumption DEF Rows, Approved
    <3> QED  BY <1>4, <2>1, <3>1
  <2>2. CASE a \notin OwnedBy(u)
    <3>1. Rows(a)' = Rows(a) \ {u} /\ Approved(a)' = Approved(a) \ {u}
      BY <1>3, <2>2, RowAssumption DEF Rows, Approved
    <3> QED  BY <1>1, <2>2, <3>1
  <2> QED  BY <2>1, <2>2
<1>6. /\ [a \in Attempts |-> Rows(a)]'
           = [a \in Attempts |-> IF a \in own THEN {} ELSE [b \in Attempts |-> Rows(b)][a] \ {u}]
      /\ [a \in Attempts |-> Approved(a)]'
           = [a \in Attempts |-> IF a \in own THEN {} ELSE [b \in Attempts |-> Approved(b)][a] \ {u}]
  BY <1>5
<1>7. request' = request  BY DEF DeleteAccount
<1>8. Quorum!Depart(u)
  BY <1>2, <1>6, <1>7 DEF Quorum!Depart
<1> QED  BY <1>8 DEF Quorum!Next

\* Every step is a step of the abstract specification or a stutter.
LEMMA NextRefines == IInv /\ [Next]_vars => [Quorum!Next]_(Quorum!vars)
<1> SUFFICES ASSUME IInv, [Next]_vars PROVE [Quorum!Next]_(Quorum!vars)  OBVIOUS
<1>1. ASSUME NEW a \in Attempts, FoundExpired(a) PROVE [Quorum!Next]_(Quorum!vars)
  BY <1>1, CloseRefines DEF FoundExpired, Expire
<1>2. ASSUME NEW u \in Accounts, NEW cs \in SUBSET Accounts, NEW t \in 1..Cardinality(cs),
             SaveShares(u, cs, t)
      PROVE  [Quorum!Next]_(Quorum!vars)
  BY <1>2, CloseRefines DEF SaveShares
<1>3. ASSUME NEW u \in Accounts, NEW a \in Attempts, StartRequest(u, a)
      PROVE  [Quorum!Next]_(Quorum!vars)
  BY <1>3, StartRefines
<1>4. ASSUME NEW c \in Accounts, GetRequests(c) PROVE [Quorum!Next]_(Quorum!vars)
  BY <1>4, CloseRefines DEF GetRequests, Expire
<1>5. ASSUME NEW c \in Accounts, NEW a \in Attempts, NEW p \in Parts, ApproveShare(c, a, p)
      PROVE  [Quorum!Next]_(Quorum!vars)
  BY <1>1, <1>5, StoreRefines DEF ApproveShare
<1>6. ASSUME NEW a \in Attempts, ResetPassword(a) PROVE [Quorum!Next]_(Quorum!vars)
  BY <1>1, <1>6, ConsumeRefines DEF ResetPassword
<1>7. ASSUME NEW a \in Attempts, CancelRequest(a) PROVE [Quorum!Next]_(Quorum!vars)
  BY <1>1, <1>7, CloseRefines DEF CancelRequest, Withdraw
<1>8. ASSUME NEW u \in Accounts, DeleteAccount(u) PROVE [Quorum!Next]_(Quorum!vars)
  BY <1>8, DeleteRefines
<1>9. CASE (\E a \in Attempts : Elapse(a)) \/ UNCHANGED vars
  BY <1>9 DEF Elapse, vars, Quorum!vars, Phase, Rows, Approved
<1> QED  BY <1>1, <1>2, <1>3, <1>4, <1>5, <1>6, <1>7, <1>8, <1>9 DEF Next, BetweenStarts, GetStatus

\* Recovery implements CustodianQuorum for every set of accounts, attempts
\* and parts.
THEOREM Implements == Spec => ImplementsQuorum
BY InitRefines, NextRefines, Inductive, PTL DEF Spec, ImplementsQuorum, Quorum!Spec
=============================================================================
