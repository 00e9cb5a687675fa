------------------------- MODULE Credentials_proofs -------------------------
(***************************************************************************)
(* Proofs about Credentials for any sets of passwords, PINs and devices,   *)
(* any PIN limit and number of recoveries, with and without Argon2id.      *)
(***************************************************************************)
EXTENDS Credentials, TLAPS

\* A login that no recovery overtook has read the row of the present one; this
\* is what the tokens it will insert owe their age to.
LoginsAreCurrent ==
  \A c \in Clients : op[c].kind \in {"migrating", "authenticated"} =>
                       overtaken \/ op[c].readAt = recoveries

IInv ==
  /\ TypeOK
  /\ EnvelopesMatchVersion
  /\ TemporaryIsForced
  /\ KeyFollowsPassword
  /\ OldTokensOnlyFromOvertakenLogins
  /\ LoginsAreCurrent

Safe ==
  /\ EnvelopesMatchVersion
  /\ TemporaryIsForced
  /\ KeyFollowsPassword
  /\ OldTokensOnlyFromOvertakenLogins
  /\ LoginsAreCurrent

\* What opens a wrapped key and what format it is in.
LEMMA WrapFields ==
  ASSUME NEW s, NEW v
  PROVE  Wrap(s, v).under = s /\ Wrap(s, v).version = v
BY DEF Wrap

\* The invariant holds of an account as it is registered.
LEMMA InitIInv == Init => IInv
<1> SUFFICES ASSUME NEW p \in Chosen, NEW v \in Versions, 
      /\ user = [password |-> p, forced |-> FALSE, envelope |-> Wrap(p, v),
                 kek |-> v, pin |-> NoPin, pinEnvelope |-> None, failed |-> 0, locked |-> FALSE]
      /\ cache = [c \in Clients |-> None]
      /\ op = [c \in Clients |-> Idle]
      /\ tokens = {}
      /\ recoveries = 0
      /\ adminReset = "idle"
      /\ staleRepair = FALSE /\ overtaken = FALSE
    PROVE IInv
  BY DEF Init
<1>1. TypeOK
  <2>1. p \in Passwords /\ v \in Versions /\ 0 \in 0..PinLimit
    BY PinAssumption DEF Passwords
  <2>2. Wrap(p, v) \in Wrapped(Passwords)
    BY <2>1 DEF Wrapped, Wrap
  <2>3. user \in Rows
    BY <2>1, <2>2 DEF Rows
  <2> QED  BY <2>3 DEF TypeOK
<1>2. Safe
  BY PasswordAssumption, WrapFields DEF Safe, EnvelopesMatchVersion, TemporaryIsForced, KeyFollowsPassword,
     OldTokensOnlyFromOvertakenLogins, LoginsAreCurrent, Idle
<1> QED  BY <1>1, <1>2 DEF IInv, Safe

-----------------------------------------------------------------------------
\* Parts of the domains of TypeOK that the proofs name.
Envelopes == Wrapped(Passwords)
Requests == {Idle} \union Logins \union Changes \union PinSets

\* A request's kind tells which record it is.
LEMMA RequestKinds ==
  ASSUME NEW r \in Requests
  PROVE  /\ r.kind \in {"migrating", "authenticated"} => r \in Logins
         /\ r.kind = "change" => r \in Changes
         /\ r.kind = "pin" => r \in PinSets
BY DEF Requests, Idle, Logins, Changes, PinSets

\* A wrapped key that is there is an envelope.
LEMMA CachedEnvelope ==
  ASSUME TypeOK, NEW c \in Clients, cache[c] # None
  PROVE  cache[c] \in Envelopes /\ cache[c].version \in Versions
BY DEF TypeOK, Envelopes, Wrapped, Wrap

\* The rows that the mutations write are well typed.
LEMMA CleanRowType ==
  ASSUME NEW row \in Rows
  PROVE  WithoutPin(row) \in Rows
<1>1. 0 \in 0..PinLimit
  BY PinAssumption
<1> DEFINE Keys == Wrapped(Pins) \union {None}
<1>2. None \in Keys
  OBVIOUS
<1> HIDE DEF Keys
<1>3. \A k \in Keys : [row EXCEPT !.pin = NoPin, !.pinEnvelope = k, !.failed = 0, !.locked = FALSE] \in
        [password : Passwords, forced : BOOLEAN, envelope : Wrapped(Passwords),
         kek : Versions, pin : Pins \union {NoPin},
         pinEnvelope : Keys, failed : 0..PinLimit, locked : BOOLEAN]
  BY <1>1 DEF Rows, Keys
<1> QED  BY <1>2, <1>3 DEF WithoutPin, Rows, Keys

\* So is a row whose password, flag and wrapped key move together.
LEMMA MovedRowType ==
  ASSUME NEW row \in Rows, NEW p \in Passwords, NEW v \in Versions, NEW f \in BOOLEAN
  PROVE  [row EXCEPT !.password = p, !.forced = f,
                     !.envelope = Wrap(p, v), !.kek = v] \in Rows
<1> DEFINE e == Wrap(p, v)
<1>1. e \in Wrapped(Passwords)
  BY DEF Wrapped, Wrap
<1>2. \A k \in Wrapped(Passwords) :
        [row EXCEPT !.password = p, !.forced = f, !.envelope = k, !.kek = v] \in Rows
  BY DEF Rows
<1> QED  BY <1>1, <1>2

\* Every step keeps the types.
LEMMA NextType == TypeOK /\ [Next]_vars => TypeOK'
<1> SUFFICES ASSUME TypeOK, [Next]_vars PROVE TypeOK'  OBVIOUS
<1>0. \A r \in Requests, c \in Clients : [op EXCEPT ![c] = r] \in [Clients -> Requests]
  BY DEF TypeOK, Requests
<1>a. Idle \in Requests /\ op \in [Clients -> Requests] /\ user.envelope \in Envelopes
      /\ user.password \in Passwords /\ recoveries \in Nat
  BY DEF TypeOK, Requests, Envelopes, Rows
<1> DEFINE Types ==
      /\ user' \in Rows
      /\ cache' \in [Clients -> Envelopes \union {None}]
      /\ op' \in [Clients -> Requests]
      /\ tokens' \subseteq Nat /\ recoveries' \in Nat
      /\ adminReset' \in {"idle", "assigned", "failed"}
      /\ staleRepair' \in BOOLEAN /\ overtaken' \in BOOLEAN
<1>b. SUFFICES Types
  BY DEF TypeOK, Requests, Envelopes
<1>1. ASSUME NEW c \in Clients, LoginWithPin(c) PROVE Types
  <2>1. [kind |-> "authenticated", password |-> NoPin, envelope |-> user.envelope,
         readAt |-> recoveries] \in Requests
    BY <1>a DEF Requests, Logins, Envelopes
  <2> QED  BY <1>0, <1>1, <2>1 DEF LoginWithPin, TypeOK, Envelopes
<1>2. ASSUME NEW c \in Clients, LoginWithPassword(c) PROVE Types
  <2>1. \A k \in {"migrating", "authenticated"} :
          [kind |-> k, password |-> user.password, envelope |-> user.envelope,
           readAt |-> recoveries] \in Requests
    BY <1>a DEF Requests, Logins, Envelopes
  <2>2. (IF NeedsMigration THEN "migrating" ELSE "authenticated") \in {"migrating", "authenticated"}
    OBVIOUS
  <2> QED  BY <1>0, <1>2, <2>1, <2>2 DEF LoginWithPassword, TypeOK, Envelopes
<1>3. ASSUME NEW c \in Clients, MigrateEnvelope(c) PROVE Types
  <2>1. op[c] \in Logins
    BY <1>3, <1>a, RequestKinds DEF MigrateEnvelope
  <2>2. user' \in Rows
    <3> DEFINE row == [user EXCEPT !.envelope = Wrap(user.password, 2), !.kek = 2]
    <3>1. Wrap(user.password, 2) \in Wrapped(Passwords) /\ 2 \in Versions
      BY <1>a DEF Wrapped, Wrap, Versions
    <3>2. row \in Rows
      BY <3>1 DEF TypeOK, Rows
    <3>3. Migrated(user.password) \in Rows
      BY <3>2, CleanRowType DEF Migrated
    <3> QED  BY <1>3, <3>3 DEF MigrateEnvelope, TypeOK
  <2>3. \A e \in Envelopes : [op[c] EXCEPT !.kind = "authenticated", !.envelope = e] \in Requests
    BY <2>1 DEF Logins, Requests, Envelopes
  <2>4. user'.envelope \in Envelopes
    BY <2>2 DEF Rows, Envelopes
  <2>5. op' \in [Clients -> Requests]
    BY <1>0, <1>3, <1>a, <2>3, <2>4 DEF MigrateEnvelope
  <2> QED  BY <1>3, <2>2, <2>5 DEF MigrateEnvelope, TypeOK, Envelopes
<1>4. ASSUME NEW c \in Clients, CreateRefreshToken(c) PROVE Types
  <2>1. op[c] \in Logins
    BY <1>4, <1>a, RequestKinds DEF CreateRefreshToken
  <2>2. op[c].envelope \in Envelopes /\ op[c].readAt \in Nat
    BY <2>1 DEF Logins, Envelopes
  <2> QED  BY <1>0, <1>4, <1>a, <2>2 DEF CreateRefreshToken, TypeOK, Envelopes
<1>5. ASSUME NEW c \in Clients, RevokeRefreshToken(c) PROVE Types
  BY <1>5, <1>a DEF RevokeRefreshToken, TypeOK, Envelopes
<1>6. ASSUME NEW c \in Clients, NEW new \in Chosen, BeginChange(c, new) PROVE Types
  <2>1. cache[c].version \in Versions
    BY <1>6, CachedEnvelope DEF BeginChange
  <2>2. [kind |-> "change", old |-> user.password, new |-> new, version |-> cache[c].version]
          \in Requests
    BY <1>a, <2>1 DEF Requests, Changes
  <2> QED  BY <1>0, <1>6, <2>2 DEF BeginChange, TypeOK, Envelopes
<1>7. ASSUME NEW c \in Clients, ChangePassword(c) PROVE Types
  <2>1. op[c].new \in Passwords /\ op[c].version \in Versions
    BY <1>7, <1>a, RequestKinds DEF ChangePassword, Changes, Passwords
  <2>2. Changed(op[c]) \in Rows
    BY <2>1, MovedRowType DEF Changed, TypeOK
  <2>3. \A row \in Rows : row.envelope \in Envelopes
    BY DEF Rows, Envelopes
  <2> QED  BY <1>0, <1>7, <1>a, <2>2, <2>3 DEF ChangePassword, TypeOK, Envelopes
<1>8. ASSUME NEW c \in Clients, NEW old \in Pins \union {NoPin}, NEW new \in Pins,
             BeginSetPin(c, old, new)
      PROVE  Types
  <2>1. cache[c].version \in Versions
    BY <1>8, CachedEnvelope DEF BeginSetPin
  <2>2. PICK v \in {cache[c].version, IF cache[c].version = 2 THEN 2 ELSE 1} :
          op' = [op EXCEPT ![c] = [kind |-> "pin", old |-> old, new |-> new,
                                   typed |-> user.password,
                                   repair |-> cache[c].under # user.password, version |-> v]]
    BY <1>8 DEF BeginSetPin
  <2>3. v \in Versions
    BY <2>1 DEF Versions
  <2>4. [kind |-> "pin", old |-> old, new |-> new, typed |-> user.password,
         repair |-> cache[c].under # user.password, version |-> v] \in Requests
    BY <1>a, <2>3 DEF Requests, PinSets
  <2> QED  BY <1>0, <1>8, <2>2, <2>4 DEF BeginSetPin, TypeOK, Envelopes
<1>9. ASSUME NEW c \in Clients, SetPIN(c) PROVE Types
  <2>1. op[c] \in PinSets
    BY <1>9, <1>a, RequestKinds DEF SetPIN
  <2> DEFINE r == op[c]
  <2>2. r.new \in Pins /\ Wrap(r.new, r.version) \in Wrapped(Pins)
        /\ Wrap(r.typed, r.version) \in Wrapped(Passwords)
    BY <2>1 DEF PinSets, Wrapped, Wrap
  <2>3. user' \in Rows
    <3>2. user.failed \in 0..PinLimit /\ 0 \in 0..PinLimit /\ PinLimit \in 0..PinLimit
      BY PinAssumption DEF TypeOK, Rows
    <3>3. user.failed < PinLimit => user.failed + 1 \in 0..PinLimit
      BY <3>2, PinAssumption
    <3>4. \A f \in 0..PinLimit, b \in BOOLEAN : [user EXCEPT !.failed = f, !.locked = b] \in Rows
      BY DEF TypeOK, Rows
    <3>5. \A p \in Pins, q \in Wrapped(Pins), e \in Wrapped(Passwords) :
            [user EXCEPT !.pin = p, !.pinEnvelope = q, !.envelope = e, !.failed = 0,
                         !.locked = FALSE] \in Rows
      BY <3>2 DEF TypeOK, Rows
    <3>6. user.envelope \in Wrapped(Passwords) /\ user \in Rows
      BY DEF TypeOK, Rows
    <3>7. WithPin(r) \in Rows
      <4> DEFINE stored == Wrap(r.new, r.version)
                 kept == IF r.repair THEN Wrap(r.typed, r.version) ELSE user.envelope
      <4>1. WithPin(r) = [user EXCEPT !.pin = r.new, !.pinEnvelope = stored, !.envelope = kept,
                                 !.failed = 0, !.locked = FALSE]
        BY DEF WithPin
      <4>2. stored \in Wrapped(Pins) /\ kept \in Wrapped(Passwords) /\ r.new \in Pins
        BY <2>2, <3>6
      <4> HIDE DEF stored, kept
      <4>3. [user EXCEPT !.pin = r.new, !.pinEnvelope = stored, !.envelope = kept,
                         !.failed = 0, !.locked = FALSE] \in Rows
        BY <3>5, <4>2
      <4> QED  BY <4>1, <4>3, Zenon
    <3> QED  BY <1>9, <3>2, <3>3, <3>4, <3>6, <3>7 DEF SetPIN
  <2>4. cache' \in [Clients -> Envelopes \union {None}]
    <3>1. cache \in [Clients -> Envelopes \union {None}]
      BY DEF TypeOK, Envelopes
    <3>2. CASE cache' = cache
      BY <3>1, <3>2
    <3>3. CASE cache' = [cache EXCEPT ![c] = Wrap(r.typed, r.version)]
      BY <2>2, <3>1, <3>3 DEF Envelopes
    <3> QED  BY <1>9, <3>2, <3>3 DEF SetPIN
  <2>5. staleRepair' \in BOOLEAN
    BY <1>9 DEF SetPIN, TypeOK
  <2> QED  BY <1>0, <1>9, <1>a, <2>3, <2>4, <2>5 DEF SetPIN, TypeOK, Envelopes
<1>10. CASE PinLockExpires \/ ForcePasswordChange
  <2>1. [user EXCEPT !.locked = FALSE] \in Rows /\ [user EXCEPT !.forced = TRUE] \in Rows
    BY DEF TypeOK, Rows
  <2> QED
    BY <1>10, <2>1 DEF PinLockExpires, ForcePasswordChange, TypeOK, Requests, Envelopes
<1>11. ASSUME NEW t \in Temporary, AssignPassword(t) \/ FlagAssigned(t) PROVE Types
  <2>1. ResetWrites(t)[1] = [user EXCEPT !.password = t]
        /\ ResetWrites(t)[2] = [user EXCEPT !.forced = TRUE]
    BY DEF ResetWrites
  <2>2. [user EXCEPT !.password = t] \in Rows /\ [user EXCEPT !.forced = TRUE] \in Rows
    BY DEF TypeOK, Rows, Passwords
  <2> QED  BY <1>11, <2>1, <2>2 DEF AssignPassword, FlagAssigned, TypeOK, Requests, Envelopes
<1>12. CASE ResetUserPIN
  BY <1>12, CleanRowType DEF ResetUserPIN, TypeOK, Requests, Envelopes
<1>13. ASSUME NEW new \in Chosen, RecoverAccount(new) PROVE Types
  <2>1. user' \in Rows
    <3>1. new \in Passwords /\ 2 \in Versions /\ user \in Rows
      BY DEF Passwords, Versions, TypeOK
    <3>2. [user EXCEPT !.password = new, !.forced = FALSE,
                       !.envelope = Wrap(new, 2), !.kek = 2] \in Rows
      BY <3>1, MovedRowType
    <3>3. WithoutPin([user EXCEPT !.password = new, !.forced = FALSE,
                       !.envelope = Wrap(new, 2), !.kek = 2]) \in Rows
      BY <3>2, CleanRowType
    <3> QED  BY <1>13, <3>3 DEF RecoverAccount
  <2>2. overtaken' \in BOOLEAN
    BY <1>13, Zenon DEF RecoverAccount
  <2>3. tokens' \subseteq Nat /\ recoveries' \in Nat
    BY <1>13, <1>a DEF RecoverAccount, Unrevoked
  <2>4. UNCHANGED <<cache, op, adminReset>> /\ staleRepair' = FALSE
    BY <1>13 DEF RecoverAccount
  <2> QED  BY <2>1, <2>2, <2>3, <2>4 DEF TypeOK, Requests, Envelopes
<1>14. CASE UNCHANGED vars  BY <1>14 DEF vars, TypeOK, Requests, Envelopes
<1> QED
  BY <1>1, <1>2, <1>3, <1>4, <1>5, <1>6, <1>7, <1>8, <1>9, <1>10, <1>11, <1>12, <1>13, <1>14
     DEF Next

\* The account, the sessions and the requests in progress are well typed,
\* whatever the parameters.
THEOREM TypeCorrect == Spec => []TypeOK
<1>1. Init => TypeOK  BY InitIInv DEF IInv
<1> QED  BY <1>1, NextType, PTL DEF Spec

-----------------------------------------------------------------------------
\* A step that leaves the row, the wrapped keys' history and the two writes of
\* an assignment alone: all that logins and sessions do.
RowKept == UNCHANGED <<user, adminReset, staleRepair>>

\* The steps that may change the row, once those that keep it are set aside.
LEMMA RowSteps ==
  ASSUME [Next]_vars
  PROVE  \/ RowKept
         \/ \E c \in Clients : MigrateEnvelope(c) \/ ChangePassword(c) \/ SetPIN(c)
         \/ PinLockExpires \/ ResetUserPIN \/ ForcePasswordChange
         \/ \E t \in Temporary : AssignPassword(t) \/ FlagAssigned(t)
         \/ \E new \in Chosen : RecoverAccount(new)
<1>1. ASSUME NEW c \in Clients,
             \/ LoginWithPin(c) \/ LoginWithPassword(c)
             \/ CreateRefreshToken(c) \/ RevokeRefreshToken(c)
      PROVE  RowKept
  BY <1>1 DEF RowKept, LoginWithPin, LoginWithPassword, CreateRefreshToken, RevokeRefreshToken
<1>2. ASSUME NEW c \in Clients, NEW new \in Chosen, BeginChange(c, new) PROVE RowKept
  BY <1>2 DEF RowKept, BeginChange
<1>3. ASSUME NEW c \in Clients, NEW old \in Pins \union {NoPin}, NEW new \in Pins,
             BeginSetPin(c, old, new)
      PROVE  RowKept
  BY <1>3 DEF RowKept, BeginSetPin
<1>4. CASE UNCHANGED vars  BY <1>4 DEF vars, RowKept
<1> QED  BY <1>1, <1>2, <1>3, <1>4 DEF Next

\* What three mutations leave in the fields the invariants relate.
LEMMA MigrationFields ==
  ASSUME user \in Rows, NEW c \in Clients, MigrateEnvelope(c)
  PROVE  /\ adminReset' = adminReset
         /\ \/ user' = user /\ (staleRepair => staleRepair')
            \/ /\ user'.password = user.password /\ user'.forced = user.forced
               /\ user'.envelope = Wrap(user.password, 2)
               /\ user'.kek = 2 /\ user'.pin = NoPin
<1>1. LET m == Migrated(user.password) IN
        /\ m.password = user.password /\ m.forced = user.forced
        /\ m.envelope = Wrap(user.password, 2)
        /\ m.kek = 2 /\ m.pin = NoPin
  BY DEF Migrated, WithoutPin, Rows
<1>2. \/ user' = user /\ (staleRepair => staleRepair')
      \/ user' = Migrated(user.password)
  BY Zenon DEF MigrateEnvelope
<1> QED  BY <1>1, <1>2 DEF MigrateEnvelope

\* A change that is stored was built for the row's format; it keeps the PIN.
LEMMA ChangeFields ==
  ASSUME user \in Rows, NEW c \in Clients, ChangePassword(c)
  PROVE  /\ adminReset' = adminReset /\ op[c].kind = "change"
         /\ \/ user' = user /\ (staleRepair => staleRepair')
            \/ /\ op[c].version = user.kek
               /\ user'.password = op[c].new /\ user'.kek = op[c].version
               /\ user'.envelope = Wrap(op[c].new, op[c].version)
               /\ user'.pin = user.pin /\ user'.pinEnvelope = user.pinEnvelope
<1>1. LET n == Changed(op[c]) IN
        /\ n.password = op[c].new /\ n.kek = op[c].version
        /\ n.envelope = Wrap(op[c].new, op[c].version)
        /\ n.pin = user.pin /\ n.pinEnvelope = user.pinEnvelope
  BY DEF Changed, Rows
<1>2. \/ user' = user /\ (staleRepair => staleRepair')
      \/ user' = Changed(op[c]) /\ op[c].version = user.kek
  BY Zenon DEF ChangePassword, MayChange
<1> QED  BY <1>1, <1>2 DEF ChangePassword

\* A PIN request never touches password, flag or version; when it stores, both
\* wrapped keys are of the row's version.
LEMMA SetPinFields ==
  ASSUME user \in Rows, NEW c \in Clients, SetPIN(c)
  PROVE  /\ adminReset' = adminReset /\ op[c].kind = "pin"
         /\ user'.password = user.password
         /\ user'.forced = user.forced /\ user'.kek = user.kek
         /\ \/ /\ staleRepair => staleRepair'
               /\ user'.envelope = user.envelope
               /\ user'.pin = user.pin /\ user'.pinEnvelope = user.pinEnvelope
            \/ /\ op[c].version = user.kek
               /\ user'.pin = op[c].new
               /\ user'.pinEnvelope = Wrap(op[c].new, op[c].version)
               /\ \/ user'.envelope = user.envelope /\ (staleRepair => staleRepair')
                  \/ /\ user'.envelope = Wrap(op[c].typed, op[c].version)
                     /\ op[c].typed = user.password \/ staleRepair'
<1> DEFINE r == op[c]
           failures == IF user.failed < PinLimit THEN user.failed + 1 ELSE PinLimit
           counted(n, b) == [user EXCEPT !.failed = n, !.locked = b]
<1>1. LET w == WithPin(r) IN
        /\ w.password = user.password /\ w.forced = user.forced
        /\ w.kek = user.kek /\ w.pin = r.new
        /\ w.envelope = (IF r.repair THEN Wrap(r.typed, r.version) ELSE user.envelope)
        /\ w.pinEnvelope = Wrap(r.new, r.version)
  BY DEF WithPin, Rows
<1>2. \A n, b : /\ counted(n, b).password = user.password /\ counted(n, b).forced = user.forced
                /\ counted(n, b).kek = user.kek /\ counted(n, b).pin = user.pin
                /\ counted(n, b).envelope = user.envelope
                /\ counted(n, b).pinEnvelope = user.pinEnvelope
  BY DEF Rows
<1>3. r.kind = "pin" /\ adminReset' = adminReset
  BY DEF SetPIN
<1>4. CASE UNCHANGED <<user, staleRepair>>
  BY <1>3, <1>4
<1>5. CASE staleRepair' = staleRepair /\ user' = counted(failures, failures = PinLimit)
  <2> HIDE DEF counted, failures
  <2> QED  BY <1>2, <1>3, <1>5
<1>6. CASE /\ PinVersionCurrent(r)
           /\ user' = WithPin(r)
           /\ staleRepair' = (IF r.repair THEN r.typed # user.password ELSE staleRepair)
  <2>1. ~r.repair => (staleRepair => staleRepair')
    BY <1>6, Zenon
  <2>2. r.repair => (r.typed = user.password \/ staleRepair')
    BY <1>6, Zenon
  <2> QED  BY <1>1, <1>3, <1>6, <2>1, <2>2 DEF PinVersionCurrent
<1> QED  BY <1>4, <1>5, <1>6, Zenon DEF SetPIN, MayStorePin

\* The formats stay in step: each mutation compares or rewrites both of them.
LEMMA NextEnvelopes ==
  ASSUME TypeOK, EnvelopesMatchVersion, [Next]_vars
  PROVE  EnvelopesMatchVersion'
<1>0. user \in Rows /\ NoPin \notin Pins
  BY PinAssumption DEF TypeOK
<1>1. CASE RowKept
  BY <1>1 DEF RowKept, EnvelopesMatchVersion
<1>2. ASSUME NEW c \in Clients, MigrateEnvelope(c) PROVE EnvelopesMatchVersion'
  BY <1>0, <1>2, MigrationFields, WrapFields DEF EnvelopesMatchVersion
<1>3. ASSUME NEW c \in Clients, ChangePassword(c) PROVE EnvelopesMatchVersion'
  BY <1>0, <1>3, ChangeFields, WrapFields DEF EnvelopesMatchVersion
<1>4. ASSUME NEW c \in Clients, SetPIN(c) PROVE EnvelopesMatchVersion'
  <2>1. op[c].new \in Pins
    BY <1>4, RequestKinds DEF SetPIN, TypeOK, Requests, PinSets
  <2> QED  BY <1>0, <1>4, <2>1, SetPinFields, WrapFields DEF EnvelopesMatchVersion
<1>5. CASE PinLockExpires \/ ForcePasswordChange
  BY <1>0, <1>5 DEF PinLockExpires, ForcePasswordChange, EnvelopesMatchVersion, Rows
<1>6. CASE ResetUserPIN
  BY <1>0, <1>6 DEF ResetUserPIN, WithoutPin, EnvelopesMatchVersion, Rows
<1>7. ASSUME NEW t \in Temporary, AssignPassword(t) \/ FlagAssigned(t)
      PROVE  EnvelopesMatchVersion'
  BY <1>0, <1>7 DEF AssignPassword, FlagAssigned, ResetWrites, EnvelopesMatchVersion, Rows
<1>8. ASSUME NEW new \in Chosen, RecoverAccount(new) PROVE EnvelopesMatchVersion'
  BY <1>0, <1>8, WrapFields DEF RecoverAccount, WithoutPin, EnvelopesMatchVersion, Rows
<1> QED  BY <1>1, <1>2, <1>3, <1>4, <1>5, <1>6, <1>7, <1>8, RowSteps

\* An assigned password leaves only by a change or a recovery, to a chosen one;
\* the flag leaves only with it.
LEMMA NextForced ==
  ASSUME TypeOK, TemporaryIsForced, [Next]_vars
  PROVE  TemporaryIsForced'
<1>0. user \in Rows /\ Chosen \intersect Temporary = {}
  BY PasswordAssumption DEF TypeOK
<1>1. CASE RowKept
  BY <1>1 DEF RowKept, TemporaryIsForced
<1>2. ASSUME NEW c \in Clients, MigrateEnvelope(c) PROVE TemporaryIsForced'
  BY <1>0, <1>2, MigrationFields DEF TemporaryIsForced
<1>3. ASSUME NEW c \in Clients, ChangePassword(c) PROVE TemporaryIsForced'
  <2>1. op[c].new \in Chosen
    BY <1>3, RequestKinds DEF ChangePassword, TypeOK, Requests, Changes
  <2> QED  BY <1>0, <1>3, <2>1, ChangeFields DEF ChangePassword, TemporaryIsForced
<1>4. ASSUME NEW c \in Clients, SetPIN(c) PROVE TemporaryIsForced'
  BY <1>0, <1>4, SetPinFields DEF TemporaryIsForced
<1>5. CASE PinLockExpires \/ ForcePasswordChange
  BY <1>0, <1>5 DEF PinLockExpires, ForcePasswordChange, TemporaryIsForced, Rows
<1>6. CASE ResetUserPIN
  BY <1>0, <1>6 DEF ResetUserPIN, WithoutPin, TemporaryIsForced, Rows
<1>7. ASSUME NEW t \in Temporary, AssignPassword(t) \/ FlagAssigned(t)
      PROVE  TemporaryIsForced'
  BY <1>0, <1>7 DEF AssignPassword, FlagAssigned, ResetWrites, TemporaryIsForced, Rows
<1>8. ASSUME NEW new \in Chosen, RecoverAccount(new) PROVE TemporaryIsForced'
  BY <1>0, <1>8 DEF RecoverAccount, WithoutPin, TemporaryIsForced, Rows
<1> QED  BY <1>1, <1>2, <1>3, <1>4, <1>5, <1>6, <1>7, <1>8, RowSteps

\* The wrapped key moves with the password; only a PIN repair writes it alone.
LEMMA NextKey ==
  ASSUME TypeOK, KeyFollowsPassword, [Next]_vars
  PROVE  KeyFollowsPassword'
<1>0. user \in Rows /\ Chosen \intersect Temporary = {}
  BY PasswordAssumption DEF TypeOK
<1>1. CASE RowKept
  BY <1>1 DEF RowKept, KeyFollowsPassword
<1>2. ASSUME NEW c \in Clients, MigrateEnvelope(c) PROVE KeyFollowsPassword'
  BY <1>0, <1>2, MigrationFields, WrapFields DEF KeyFollowsPassword
<1>3. ASSUME NEW c \in Clients, ChangePassword(c) PROVE KeyFollowsPassword'
  BY <1>0, <1>3, ChangeFields, WrapFields DEF KeyFollowsPassword
<1>4. ASSUME NEW c \in Clients, SetPIN(c) PROVE KeyFollowsPassword'
  BY <1>0, <1>4, SetPinFields, WrapFields DEF KeyFollowsPassword
<1>5. CASE PinLockExpires \/ ForcePasswordChange
  BY <1>0, <1>5 DEF PinLockExpires, ForcePasswordChange, KeyFollowsPassword, Rows
<1>6. CASE ResetUserPIN
  BY <1>0, <1>6 DEF ResetUserPIN, WithoutPin, KeyFollowsPassword, Rows
<1>7. ASSUME NEW t \in Temporary, AssignPassword(t) \/ FlagAssigned(t)
      PROVE  KeyFollowsPassword'
  BY <1>0, <1>7 DEF AssignPassword, FlagAssigned, ResetWrites, KeyFollowsPassword, Rows
<1>8. ASSUME NEW new \in Chosen, RecoverAccount(new) PROVE KeyFollowsPassword'
  BY <1>0, <1>8, WrapFields DEF RecoverAccount, WithoutPin, KeyFollowsPassword, Rows
<1> QED  BY <1>1, <1>2, <1>3, <1>4, <1>5, <1>6, <1>7, <1>8, RowSteps
-----------------------------------------------------------------------------
\* What each step does to the requests that are logins: one may begin and
\* reads the present count, any may end, and only a recovery moves the count.
LEMMA NextLogins ==
  ASSUME TypeOK, LoginsAreCurrent, [Next]_vars
  PROVE  LoginsAreCurrent'
<1>0. op \in [Clients -> Requests]
  BY DEF TypeOK, Requests
<1>1. ASSUME NEW c \in Clients, LoginWithPin(c) \/ LoginWithPassword(c)
      PROVE  LoginsAreCurrent'
  BY <1>0, <1>1 DEF LoginWithPin, LoginWithPassword, LoginsAreCurrent
<1>2. ASSUME NEW c \in Clients, MigrateEnvelope(c) PROVE LoginsAreCurrent'
  <2>1. op[c] \in Logins
    BY <1>0, <1>2, RequestKinds DEF MigrateEnvelope
  <2> DEFINE done(e) == [op[c] EXCEPT !.kind = "authenticated", !.envelope = e]
  <2>2. \A e : done(e).readAt = op[c].readAt
    BY <2>1 DEF Logins
  <2>a. op' = [op EXCEPT ![c] = Idle] \/ op' = [op EXCEPT ![c] = done(user'.envelope)]
    BY <1>2 DEF MigrateEnvelope
  <2> HIDE DEF done
  <2>3. op'[c].kind \in {"migrating", "authenticated"} => op'[c].readAt = op[c].readAt
    BY <1>0, <2>2, <2>a DEF Idle
  <2>4. \A d \in Clients \ {c} : op'[d] = op[d]
    BY <1>0, <1>2 DEF MigrateEnvelope
  <2> QED  BY <1>2, <2>3, <2>4 DEF MigrateEnvelope, LoginsAreCurrent
<1>3. ASSUME NEW c \in Clients, CreateRefreshToken(c) \/ ChangePassword(c) \/ SetPIN(c)
      PROVE  LoginsAreCurrent'
  <2>1. op' = [op EXCEPT ![c] = Idle] /\ UNCHANGED <<recoveries, overtaken>>
    BY <1>3 DEF CreateRefreshToken, ChangePassword, SetPIN
  <2> QED  BY <1>0, <2>1 DEF LoginsAreCurrent, Idle
<1>4. ASSUME NEW c \in Clients, NEW new \in Chosen, BeginChange(c, new)
      PROVE  LoginsAreCurrent'
  BY <1>0, <1>4 DEF BeginChange, LoginsAreCurrent
<1>5. ASSUME NEW c \in Clients, NEW old \in Pins \union {NoPin}, NEW new \in Pins,
             BeginSetPin(c, old, new)
      PROVE  LoginsAreCurrent'
  BY <1>0, <1>5 DEF BeginSetPin, LoginsAreCurrent
<1>6. ASSUME NEW new \in Chosen, RecoverAccount(new) PROVE LoginsAreCurrent'
  <2>1. CASE \E c \in Clients : op[c].kind \in {"migrating", "authenticated"}
    <3>1. overtaken'
      BY <1>6, <2>1, Zenon DEF RecoverAccount
    <3> QED  BY <3>1 DEF LoginsAreCurrent
  <2>2. CASE \A c \in Clients : op[c].kind \notin {"migrating", "authenticated"}
    BY <1>6, <2>2 DEF RecoverAccount, LoginsAreCurrent
  <2> QED  BY <2>1, <2>2
<1>7. CASE UNCHANGED <<op, recoveries, overtaken>>
  BY <1>7 DEF LoginsAreCurrent
<1>8. ASSUME \/ \E c \in Clients : RevokeRefreshToken(c)
             \/ PinLockExpires \/ ResetUserPIN \/ ForcePasswordChange
             \/ \E t \in Temporary : AssignPassword(t) \/ FlagAssigned(t)
             \/ UNCHANGED vars
      PROVE  UNCHANGED <<op, recoveries, overtaken>>
  BY <1>8 DEF RevokeRefreshToken, PinLockExpires, ResetUserPIN, ForcePasswordChange,
     AssignPassword, FlagAssigned, vars
<1> QED  BY <1>1, <1>2, <1>3, <1>4, <1>5, <1>6, <1>7, <1>8 DEF Next

\* A token takes its age from the login that inserts it, and a recovery leaves none.
LEMMA NextTokens ==
  ASSUME LoginsAreCurrent, OldTokensOnlyFromOvertakenLogins, [Next]_vars
  PROVE  OldTokensOnlyFromOvertakenLogins'
<1>1. ASSUME NEW c \in Clients, CreateRefreshToken(c)
      PROVE  OldTokensOnlyFromOvertakenLogins'
  BY <1>1 DEF CreateRefreshToken, LoginsAreCurrent, OldTokensOnlyFromOvertakenLogins
<1>2. ASSUME NEW c \in Clients, RevokeRefreshToken(c)
      PROVE  OldTokensOnlyFromOvertakenLogins'
  BY <1>2 DEF RevokeRefreshToken, OldTokensOnlyFromOvertakenLogins
<1>3. ASSUME NEW new \in Chosen, RecoverAccount(new)
      PROVE  OldTokensOnlyFromOvertakenLogins'
  BY <1>3 DEF RecoverAccount, Unrevoked, OldTokensOnlyFromOvertakenLogins
<1>4. CASE UNCHANGED <<tokens, recoveries, overtaken>>
  BY <1>4 DEF OldTokensOnlyFromOvertakenLogins
<1>5. ASSUME NEW c \in Clients,
             \/ LoginWithPin(c) \/ LoginWithPassword(c) \/ MigrateEnvelope(c)
             \/ ChangePassword(c) \/ SetPIN(c)
             \/ \E new \in Chosen : BeginChange(c, new)
             \/ \E old \in Pins \union {NoPin}, new \in Pins : BeginSetPin(c, old, new)
      PROVE  UNCHANGED <<tokens, recoveries, overtaken>>
  BY <1>5 DEF LoginWithPin, LoginWithPassword, MigrateEnvelope, ChangePassword, SetPIN,
     BeginChange, BeginSetPin
<1>6. ASSUME \/ PinLockExpires \/ ResetUserPIN \/ ForcePasswordChange
             \/ \E t \in Temporary : AssignPassword(t) \/ FlagAssigned(t)
             \/ UNCHANGED vars
      PROVE  UNCHANGED <<tokens, recoveries, overtaken>>
  BY <1>6 DEF PinLockExpires, ResetUserPIN, ForcePasswordChange, AssignPassword,
     FlagAssigned, vars
<1> QED  BY <1>1, <1>2, <1>3, <1>4, <1>5, <1>6 DEF Next

-----------------------------------------------------------------------------
\* The invariant that carries the four properties below is inductive.
THEOREM Inductive == Spec => []IInv
<1>1. IInv /\ [Next]_vars => IInv'
  BY NextType, NextEnvelopes, NextForced, NextKey, NextTokens, NextLogins DEF IInv
<1> QED  BY InitIInv, <1>1, PTL DEF Spec

\* Whatever requests of the old format are still in flight when a login migrates
\* the account, both wrapped keys are in the format the row says.
THEOREM EnvelopesMatch == Spec => []EnvelopesMatchVersion
<1>1. IInv => EnvelopesMatchVersion  BY DEF IInv
<1> QED  BY <1>1, Inductive, PTL

\* An assigned password carries the duty to change it, unless the second write
\* of the assignment failed.
THEOREM Forced == Spec => []TemporaryIsForced
<1>1. IInv => TemporaryIsForced  BY DEF IInv
<1> QED  BY <1>1, Inductive, PTL

\* A password the owner chose opens the wrapped key, except after a PIN repair
\* that was overtaken: the one exception the code leaves.
THEOREM KeyFollows == Spec => []KeyFollowsPassword
<1>1. IInv => KeyFollowsPassword  BY DEF IInv
<1> QED  BY <1>1, Inductive, PTL

\* Tokens of before a recovery survive it only through a login it overtook.
THEOREM OldTokens == Spec => []OldTokensOnlyFromOvertakenLogins
<1>1. IInv => OldTokensOnlyFromOvertakenLogins  BY DEF IInv
<1> QED  BY <1>1, Inductive, PTL

-----------------------------------------------------------------------------
\* An account that is migrated stays so: what sessions of the old format still
\* send, and what was built before the migration, never brings the old one back.
NeverDowngraded ==
  [][user.kek = 2 => /\ user'.envelope.version = 2
                     /\ user'.pin # NoPin => user'.pinEnvelope.version = 2]_vars

\* The version of the row is written only as it was, or as 2.
LEMMA VersionStays ==
  ASSUME TypeOK, [Next]_vars, user.kek = 2
  PROVE  user'.kek = 2
<1>0. user \in Rows  BY DEF TypeOK
<1>1. CASE RowKept  BY <1>1 DEF RowKept
<1>2. ASSUME NEW c \in Clients, MigrateEnvelope(c) \/ ChangePassword(c) \/ SetPIN(c)
      PROVE  user'.kek = 2
  BY <1>0, <1>2, MigrationFields, ChangeFields, SetPinFields
<1>3. CASE PinLockExpires \/ ForcePasswordChange \/ ResetUserPIN
  BY <1>0, <1>3 DEF PinLockExpires, ForcePasswordChange, ResetUserPIN, WithoutPin, Rows
<1>4. ASSUME NEW t \in Temporary, AssignPassword(t) \/ FlagAssigned(t)
      PROVE  user'.kek = 2
  BY <1>0, <1>4 DEF AssignPassword, FlagAssigned, ResetWrites, Rows
<1>5. ASSUME NEW new \in Chosen, RecoverAccount(new) PROVE user'.kek = 2
  BY <1>0, <1>5 DEF RecoverAccount, WithoutPin, Rows
<1> QED  BY <1>1, <1>2, <1>3, <1>4, <1>5, RowSteps

\* Both wrapped keys of a migrated account are in the new format after every step.
THEOREM StaysMigrated == Spec => NeverDowngraded
<1> DEFINE Kept == user.kek = 2 => /\ user'.envelope.version = 2
                                   /\ user'.pin # NoPin => user'.pinEnvelope.version = 2
<1>1. ASSUME IInv, [Next]_vars PROVE Kept
  <2>1. EnvelopesMatchVersion'  BY <1>1, NextEnvelopes DEF IInv
  <2>2. user.kek = 2 => user'.kek = 2  BY <1>1, VersionStays DEF IInv
  <2> QED  BY <2>1, <2>2, WrapFields DEF EnvelopesMatchVersion
<1> QED  BY <1>1, Inductive, PTL DEF Spec, NeverDowngraded
=============================================================================
