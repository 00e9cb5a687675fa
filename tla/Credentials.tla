---------------------------- MODULE Credentials ----------------------------
(***************************************************************************)
(* The credentials of one account: its row of users, the refresh tokens    *)
(* that are not revoked, and the requests of its owner's devices, which    *)
(* read the row in one step and write it in a later one.  The owner types  *)
(* the login password as it is when typed.  There is one private key, so   *)
(* a wrapped key is known by what opens it and by its format version.      *)
(***************************************************************************)
EXTENDS Naturals

CONSTANTS Chosen,         \* passwords the owner may choose
          Temporary,      \* passwords an administrator may assign
          Pins,
          NoPin,
          Clients,        \* devices and browsers of the owner
          EnableArgon2id, \* product.EnableArgon2id
          PinLimit,       \* wrong PINs before the lock (5 in the code)
          MaxRecoveries   \* bound of the model

ASSUME PasswordAssumption == Chosen \intersect Temporary = {}
ASSUME PinAssumption == NoPin \notin Pins /\ PinLimit \in Nat \ {0}
ASSUME OptionAssumption == EnableArgon2id \in BOOLEAN /\ MaxRecoveries \in Nat

VARIABLES user,       \* the row: password, forced, envelope, kek, pin, pinEnvelope, failed, locked
          cache,      \* per device, private_key_encrypted of its session with its version
          op,         \* per device, the request it has in progress
          tokens,     \* refresh tokens not revoked, each known by how many
                      \* recoveries its login had seen when it read the row
          recoveries, \* recovery resets so far
          adminReset, \* the two writes of resetUserPasswordHandler
          staleRepair, \* a PIN repair was stored under a password changed meanwhile
          overtaken    \* a recovery fell between the two steps of some login

vars == <<user, cache, op, tokens, recoveries, adminReset, staleRepair, overtaken>>

Passwords == Chosen \union Temporary
\* users.kek_envelope_version: 1 is SHA-256 and 2 is Argon2id; a key of version
\* 0, which createUserAsAdminHandler stores by leaving it out, is of format 1.
Versions == 0..2
Wrapped(secrets) == [under : secrets, version : Versions]
Wrap(secret, version) == [under |-> secret, version |-> version]
None == [kind |-> "none"]
Idle == [kind |-> "idle"]

Logins == [kind : {"migrating", "authenticated"}, password : Passwords \union {NoPin},
           envelope : Wrapped(Passwords), readAt : Nat]
Changes == [kind : {"change"}, old : Passwords, new : Chosen, version : Versions]
PinSets == [kind : {"pin"}, old : Pins \union {NoPin}, new : Pins, typed : Passwords,
            repair : BOOLEAN, version : Versions]

Rows == [password : Passwords, forced : BOOLEAN, envelope : Wrapped(Passwords),
         kek : Versions, pin : Pins \union {NoPin},
         pinEnvelope : Wrapped(Pins) \union {None}, failed : 0..PinLimit, locked : BOOLEAN]

TypeOK ==
  /\ user \in Rows
  /\ cache \in [Clients -> Wrapped(Passwords) \union {None}]
  /\ op \in [Clients -> {Idle} \union Logins \union Changes \union PinSets]
  /\ tokens \subseteq Nat
  /\ recoveries \in Nat
  /\ adminReset \in {"idle", "assigned", "failed"}
  /\ staleRepair \in BOOLEAN /\ overtaken \in BOOLEAN

\* registerUserHandler creates version 2 rows when Argon2id is on; version 1
\* rows are those of other registrations, and version 0 those of administrators.
Init ==
  \E p \in Chosen, v \in Versions :
     /\ user = [password |-> p, forced |-> FALSE, envelope |-> Wrap(p, v),
                kek |-> v, pin |-> NoPin, pinEnvelope |-> None, failed |-> 0, locked |-> FALSE]
     /\ cache = [c \in Clients |-> None]
     /\ op = [c \in Clients |-> Idle]
     /\ tokens = {}
     /\ recoveries = 0
     /\ adminReset = "idle"
     /\ staleRepair = FALSE /\ overtaken = FALSE

\* What clears a PIN together with its wrapped key and its lock.
WithoutPinNullCount(row) ==   \* mutant: the count becomes NULL
  [row EXCEPT !.pin = NoPin, !.pinEnvelope = None, !.failed = NoPin, !.locked = FALSE]
WithoutPin(row) ==
  [row EXCEPT !.pin = NoPin, !.pinEnvelope = None, !.failed = 0, !.locked = FALSE]

-----------------------------------------------------------------------------
\* handlerLogin reads the row and checks the PIN; no lock or count applies.
LoginWithPin(c) ==
  /\ op[c] = Idle
  /\ user.pin # NoPin
  /\ op' = [op EXCEPT ![c] = [kind |-> "authenticated", password |-> NoPin,
                              envelope |-> user.envelope, readAt |-> recoveries]]
  /\ UNCHANGED <<user, cache, tokens, recoveries, adminReset, staleRepair, overtaken>>

\* handlerLogin reads the row and checks the password.  A version 1 key has
\* then to open under that password, or the login fails (500).
NeedsMigration == user.kek = 1 /\ EnableArgon2id
LoginAllowed == NeedsMigration => user.envelope.under = user.password

LoginWithPassword(c) ==
  /\ op[c] = Idle
  /\ LoginAllowed
  /\ op' = [op EXCEPT ![c] =
             [kind |-> IF NeedsMigration THEN "migrating" ELSE "authenticated",
              password |-> user.password, envelope |-> user.envelope, readAt |-> recoveries]]
  /\ UNCHANGED <<user, cache, tokens, recoveries, adminReset, staleRepair, overtaken>>

\* The row a migration writes: the wrapper changes format, and the PIN goes
\* because its own wrapper keeps the old one.
Migrated(password) ==
  WithoutPin([user EXCEPT !.envelope = Wrap(password, 2), !.kek = 2])

\* migrateLoginEnvelopeAtomically: the fresh row decides again.  A changed
\* password ends the login (409); a row migrated meanwhile is taken as it is.
MigrateEnvelope(c) ==
  /\ op[c].kind = "migrating"
  /\ \/ /\ user.password # op[c].password
        /\ op' = [op EXCEPT ![c] = Idle]
        /\ UNCHANGED <<user, staleRepair>>
     \/ /\ user.password = op[c].password
        /\ user' = IF user.kek = 1 THEN Migrated(user.password) ELSE user
        /\ staleRepair' = (staleRepair /\ user.kek # 1)
        /\ op' = [op EXCEPT ![c] = [@ EXCEPT !.kind = "authenticated", !.envelope = user'.envelope]]
  /\ UNCHANGED <<cache, tokens, recoveries, adminReset, overtaken>>

\* CreateRefreshToken and the response, from what the login read; no row is
\* read or locked here.
CreateRefreshToken(c) ==
  /\ op[c].kind = "authenticated"
  /\ tokens' = tokens \union {op[c].readAt}
  /\ cache' = [cache EXCEPT ![c] = op[c].envelope]
  /\ op' = [op EXCEPT ![c] = Idle]
  /\ UNCHANGED <<user, recoveries, adminReset, staleRepair, overtaken>>

\* handlerRevokeRefreshToken, at logout.
RevokeRefreshToken(c) ==
  /\ op[c] = Idle
  /\ cache[c] # None
  /\ tokens' \in {tokens} \union {tokens \ {t} : t \in tokens}
  /\ cache' = [cache EXCEPT ![c] = None]
  /\ UNCHANGED <<user, op, recoveries, adminReset, staleRepair, overtaken>>

-----------------------------------------------------------------------------
\* The change-password screen unwraps the session's key, under the old or an
\* earlier password, wraps it under the new one in the session's format and
\* sends it; the handler first compares the old password with the row it has.
BeginChange(c, new) ==
  /\ op[c] = Idle
  /\ cache[c] # None
  /\ new # user.password
  /\ op' = [op EXCEPT ![c] = [kind |-> "change", old |-> user.password, new |-> new,
                              version |-> cache[c].version]]
  /\ UNCHANGED <<user, cache, tokens, recoveries, adminReset, staleRepair, overtaken>>

\* What the locked row must still say for the change to be stored.
MayChange(r) == r.old = user.password /\ r.version = user.kek

\* The row a password change writes.
ChangedKeepingKey(r) ==   \* mutant: the wrapped key is not stored with the password
  [user EXCEPT !.password = r.new, !.forced = FALSE]
Changed(r) ==
  [user EXCEPT !.password = r.new, !.forced = FALSE,
               !.envelope = Wrap(r.new, r.version), !.kek = r.version]

\* changePasswordAtomically; a conflict changes nothing.
ChangePassword(c) ==
  /\ op[c].kind = "change"
  /\ IF MayChange(op[c])
     THEN /\ user' = Changed(op[c])
          /\ cache' = [cache EXCEPT ![c] = user'.envelope]
          /\ staleRepair' = FALSE
     ELSE UNCHANGED <<user, cache, staleRepair>>
  /\ op' = [op EXCEPT ![c] = Idle]
  /\ UNCHANGED <<tokens, recoveries, adminReset, overtaken>>

\* The PIN screens wrap the session's key under the PIN; if only an earlier
\* password opens that key they also wrap it under the one typed, as a repair.
\* The settings send the session's version, the onboarding says 1 unless it is 2.
BeginSetPin(c, old, new) ==
  /\ op[c] = Idle
  /\ cache[c] # None
  /\ \E v \in {cache[c].version, IF cache[c].version = 2 THEN 2 ELSE 1} :
        op' = [op EXCEPT ![c] = [kind |-> "pin", old |-> old, new |-> new,
                                 typed |-> user.password,
                                 repair |-> cache[c].under # user.password,
                                 version |-> v]]
  /\ UNCHANGED <<user, cache, tokens, recoveries, adminReset, staleRepair, overtaken>>

WrongOldPin(r) == user.pin # NoPin /\ r.old # user.pin

\* handlerSetUserPIN refuses the request, or its account is locked.
Refused(r) == r.version \notin {1, 2} \/ user.locked

\* The format the request was built for against the one of the locked row.
PinVersionIgnored(r) == TRUE   \* mutant: the version is not compared
PinVersionCurrent(r) == r.version = user.kek

MayStorePin(r) == ~Refused(r) /\ ~WrongOldPin(r) /\ PinVersionCurrent(r)

\* The row a PIN request writes.
WithPin(r) ==
  [user EXCEPT !.pin = r.new, !.pinEnvelope = Wrap(r.new, r.version),
               !.envelope = IF r.repair THEN Wrap(r.typed, r.version) ELSE @,
               !.failed = 0, !.locked = FALSE]

\* setPINAtomically.  A wrong old PIN is counted, up to the lock; the password
\* is not looked at.  The device keeps a wrapper it has repaired.
SetPIN(c) ==
  /\ op[c].kind = "pin"
  /\ LET r == op[c]
         failures == IF user.failed < PinLimit THEN user.failed + 1 ELSE PinLimit
     IN \/ /\ ~Refused(r) /\ WrongOldPin(r)
           /\ user' = [user EXCEPT !.failed = failures, !.locked = (failures = PinLimit)]
           /\ UNCHANGED <<cache, staleRepair>>
        \/ /\ MayStorePin(r)
           /\ user' = WithPin(r)
           /\ cache' = IF r.repair THEN [cache EXCEPT ![c] = Wrap(r.typed, r.version)] ELSE cache
           /\ staleRepair' = (IF r.repair THEN r.typed # user.password ELSE staleRepair)
        \/ /\ Refused(r) \/ (~WrongOldPin(r) /\ ~PinVersionCurrent(r))
           /\ UNCHANGED <<user, cache, staleRepair>>
  /\ op' = [op EXCEPT ![c] = Idle]
  /\ UNCHANGED <<tokens, recoveries, adminReset, overtaken>>

\* Fifteen minutes pass.
PinLockExpires ==
  /\ user.locked
  /\ user' = [user EXCEPT !.locked = FALSE]
  /\ UNCHANGED <<cache, op, tokens, recoveries, adminReset, staleRepair, overtaken>>

-----------------------------------------------------------------------------
\* The two statements of resetUserPasswordHandler, in their order.
ResetWritesSwapped(t) ==   \* mutant: the flag is written before the password
  <<[user EXCEPT !.forced = TRUE], [user EXCEPT !.password = t]>>
ResetWrites(t) == <<[user EXCEPT !.password = t], [user EXCEPT !.forced = TRUE]>>

\* The first write; the wrapped key stays under the password the owner had.
AssignPassword(t) ==
  /\ adminReset # "assigned"
  /\ user' = ResetWrites(t)[1]
  /\ adminReset' = "assigned"
  /\ UNCHANGED <<cache, op, tokens, recoveries, staleRepair, overtaken>>

\* The second write, or its failure: the password is assigned all the same.
FlagAssigned(t) ==
  /\ adminReset = "assigned"
  /\ \/ user' = ResetWrites(t)[2] /\ adminReset' = "idle"
     \/ user' = user /\ adminReset' = "failed"
  /\ UNCHANGED <<cache, op, tokens, recoveries, staleRepair, overtaken>>

\* resetUserPINHandler.
ResetUserPIN ==
  /\ user.pin # NoPin
  /\ user' = WithoutPin(user)
  /\ UNCHANGED <<cache, op, tokens, recoveries, adminReset, staleRepair, overtaken>>

\* forcePasswordChangeHandler.
ForcePasswordChange ==
  /\ user' = [user EXCEPT !.forced = TRUE]
  /\ UNCHANGED <<cache, op, tokens, recoveries, adminReset, staleRepair, overtaken>>

\* The refresh tokens that a recovery to this password leaves unrevoked.
UnrevokedIfSamePassword(new) == IF new = user.password THEN tokens ELSE {}   \* mutant: skipped for it
Unrevoked(new) == {}

\* What handlerResetRecoveryPasswordV2 writes to the account, once the quorum
\* of module Recovery is met.
RecoverAccount(new) ==
  /\ recoveries < MaxRecoveries
  /\ user' = WithoutPin([user EXCEPT !.password = new, !.forced = FALSE,
                                     !.envelope = Wrap(new, 2), !.kek = 2])
  /\ tokens' = Unrevoked(new)
  /\ recoveries' = recoveries + 1
  /\ staleRepair' = FALSE
  /\ overtaken' = (overtaken \/ \E c \in Clients : op[c].kind \in {"migrating", "authenticated"})
  /\ UNCHANGED <<cache, op, adminReset>>

Next ==
  \/ \E c \in Clients :
        \/ LoginWithPin(c) \/ LoginWithPassword(c) \/ MigrateEnvelope(c)
        \/ CreateRefreshToken(c) \/ RevokeRefreshToken(c)
        \/ ChangePassword(c) \/ SetPIN(c)
        \/ \E new \in Chosen : BeginChange(c, new)
        \/ \E old \in Pins \union {NoPin}, new \in Pins : BeginSetPin(c, old, new)
  \/ PinLockExpires
  \/ \E t \in Temporary : AssignPassword(t) \/ FlagAssigned(t)
  \/ ResetUserPIN \/ ForcePasswordChange
  \/ \E new \in Chosen : RecoverAccount(new)

Spec == Init /\ [][Next]_vars

-----------------------------------------------------------------------------
\* Both wrapped keys are in the format the row says, whatever sessions of the
\* old format were still sending when it was migrated; otherwise a device
\* unwraps with the wrong derivation and the key is out of reach.
EnvelopesMatchVersion ==
  /\ user.envelope.version = user.kek
  /\ user.pin # NoPin => user.pinEnvelope = Wrap(user.pin, user.kek)

\* An assigned password carries the duty to change it, however logins, changes
\* and recoveries fall between the two writes, unless the second one failed.
TemporaryIsForced ==
  user.password \in Temporary /\ adminReset = "idle" => user.forced

\* The key opens with the password the owner logs in with, except after a PIN
\* repair that a password change or assignment overtook.
KeyFollowsPassword ==
  user.password \in Chosen /\ ~staleRepair => user.envelope.under = user.password

\* A refresh token from before the recovery works after it only if its login
\* had read the row before the recovery and inserted the token after it.
OldTokensOnlyFromOvertakenLogins == overtaken \/ tokens \subseteq {recoveries}

\* docs/credentials-and-recovery.md:39 says that no credential mutation is
\* accepted that loses key access: the login password opens the wrapped key.
PasswordOpensKey == user.password \in Chosen => user.envelope.under = user.password
=============================================================================
