--------------------------- MODULE Credentials ---------------------------
(* What gives access to one account: its password, its second factor, its *)
(* sessions and personal access tokens, and the tokens that reset the     *)
(* password (auth, auth-token, api-tokens and user-admin services).       *)
(*                                                                        *)
(* A handler looks something up, checks a password or a code, which may   *)
(* take long, and writes in later statements.  Two events are to take all *)
(* access away: a password reset and an account that is no longer active. *)
(* A request may die between any two calls: it then takes no further      *)
(* step.  Left out: the audit records that end the handlers and the mail  *)
(* that brings a reset token to the user.                                 *)
EXTENDS Naturals

CONSTANTS
  Calls,     \* the requests that may arrive; each runs once
  KeyIds,    \* the identifiers of sessions and access tokens
  ResetIds,  \* the identifiers of reset tokens
  Secrets,   \* the secrets of a second factor
  NoId, NoSecret

ASSUME NoIdAssumption == NoId \notin KeyIds \cup ResetIds
ASSUME NoSecretAssumption == NoSecret \notin Secrets

VARIABLES
  status,      \* the status of the account
  password,    \* its password, numbered by the resets
  twoFactor,   \* users.twoFactorEnabled
  totp,        \* the row of user_totp_secrets
  keys,        \* the sessions and access tokens
  resets,      \* the reset tokens
  calls,       \* the requests, with what each has read
  expelled,    \* history: the keys that were there when all were revoked
  proved,      \* history: the secrets a correct code was shown for
  spent,       \* history: how often each reset token set a password
  overlapped   \* history: has a change been committed while another request
               \* was between its lookup and its write?

account == <<status, password, twoFactor, totp, keys, resets>>
history == <<expelled, proved, spent, overlapped>>
vars == <<account, calls, history>>

--------------------------------------------------------------------------
(* Data.  A session is created before its token is signed and stored; an  *)
(* access token is stored at once.                                        *)

Statuses == {"ACTIVE", "SUSPENDED", "DELETED"}

Totp == [secret: Secrets \cup {NoSecret}, confirmed: BOOLEAN]
NoTotp == [secret |-> NoSecret, confirmed |-> FALSE]

\* "password" is the one that was in force when the key was granted.
Key == [kind: {"none", "session", "token"}, signed: BOOLEAN, revoked: BOOLEAN,
        password: Nat]
NoKey == [kind |-> "none", signed |-> FALSE, revoked |-> FALSE, password |-> 0]

ResetStates == {"absent", "open", "used", "expired"}

SessionOps == {"setup", "enable", "disable", "revoke", "issue"}
Ops == SessionOps \cup {"login", "request", "confirm", "administer"}

\* "verified" has passed the guard, "superseding" has marked the earlier reset
\* tokens in a transaction that is still open.
Stages == {"idle", "verified", "found", "superseding", "created", "done", "refused"}

Call == [stage: Stages,
         op: Ops, key: KeyIds \cup {NoId}, reset: ResetIds \cup {NoId},
         superseded: SUBSET ResetIds, secret: Secrets \cup {NoSecret},
         password: Nat, next: Statuses \cup {"kept"}]

Blank(stage) ==
  [stage |-> stage, op |-> "login", key |-> NoId, reset |-> NoId,
   superseded |-> {}, secret |-> NoSecret, password |-> 0, next |-> "ACTIVE"]

Exists(id) == keys[id].kind # "none"
Live(id) == Exists(id) /\ keys[id].signed /\ ~keys[id].revoked
Open(id) == resets[id] = "open"

\* The request has looked something up and has yet to write.
Underway(c) == calls[c].stage \in {"verified", "found", "superseding"}

--------------------------------------------------------------------------
(* Helpers.  A "variant" is a plausible mistake in the code that nothing  *)
(* uses; in place of the helper after it, it must break a property.       *)

\* Variant: the update carries the whole session.
SignedWhole(key) == [key EXCEPT !.signed = TRUE, !.revoked = FALSE]

\* "data: {tokenHash}".
Signed(key) == [key EXCEPT !.signed = TRUE]

\* An update may name a role alone and keep the status.
StatusAfter(next) == IF next = "kept" THEN status ELSE next

\* Variant: only suspended accounts lose their keys.
ExpelsSuspended(next) == next = "SUSPENDED"

\* shouldRevokeCredentials.
Expels(next) == next \notin {"kept", "ACTIVE"}

\* userTotpSecret.update and delete need the row, or the transaction fails.
SecretStored(secret) == secret # NoSecret

\* Variant: a new secret is confirmed from the start.
SecretPreconfirmed(secret) == [secret |-> secret, confirmed |-> TRUE]

\* The upsert of setupTwoFactor.
SecretProposed(secret) == [secret |-> secret, confirmed |-> FALSE]

\* The reset tokens that updateMany marks as used.
SupersededByRequest == {id \in ResetIds : Open(id)}

\* Variant: the token is not marked.
ResetAfterUse(state) == state

\* passwordResetToken.update of the token that was used.
ResetUsed(state) == "used"

--------------------------------------------------------------------------
\* An account that is signed in, with or without a second factor.
Init ==
  /\ status = "ACTIVE" /\ password = 0
  /\ \/ twoFactor = FALSE /\ totp = NoTotp /\ proved = {}
     \/ \E secret \in Secrets :
          /\ twoFactor = TRUE
          /\ totp = [secret |-> secret, confirmed |-> TRUE]
          /\ proved = {secret}
  /\ \E id \in KeyIds :
       keys = [k \in KeyIds |-> IF k # id THEN NoKey
                 ELSE [kind |-> "session", signed |-> TRUE, revoked |-> FALSE,
                       password |-> 0]]
  /\ resets = [id \in ResetIds |-> "absent"]
  /\ calls = [c \in Calls |-> Blank("idle")]
  /\ expelled = {}
  /\ spent = [id \in ResetIds |-> 0]
  /\ overlapped = FALSE

Become(c, call) == calls' = [calls EXCEPT ![c] = call]

\* The request goes on, having changed nothing.
Go(c, call) == Become(c, call) /\ UNCHANGED <<account, history>>

\* The handler throws, or ends with an answer that says nothing.
Refuse(c) == Go(c, Blank("refused"))

\* The request has changed what others rely on, and ends.
Commit(c) ==
  /\ Become(c, Blank("done"))
  /\ overlapped' = (overlapped \/ \E d \in Calls \ {c} : Underway(d))

Granted(kind, signed, knew) ==
  [kind |-> kind, signed |-> signed, revoked |-> FALSE, password |-> knew]

\* updateMany over all sessions and all access tokens of the account.
AllRevoked == [id \in KeyIds |->
                 IF Exists(id) THEN [keys[id] EXCEPT !.revoked = TRUE] ELSE keys[id]]
Present == {id \in KeyIds : Exists(id)}

--------------------------------------------------------------------------
(* login.                                                                 *)

\* One query reads the account with its credential and its secret; a wrong
\* password or code is refused, and so is any code while an unconfirmed
\* secret has taken the place of the confirmed one.
FindUser(c) ==
  /\ calls[c].stage = "idle"
  /\ \/ Refuse(c)
     \/ /\ status = "ACTIVE"
        /\ twoFactor => totp.confirmed
        /\ Go(c, [calls[c] EXCEPT !.stage = "found", !.op = "login",
                                  !.password = password])

CreateSession(c) ==
  /\ calls[c].stage = "found" /\ calls[c].op = "login"
  /\ \E id \in KeyIds :
       /\ ~Exists(id)
       /\ keys' = [keys EXCEPT ![id] = Granted("session", FALSE, calls[c].password)]
       /\ Become(c, [calls[c] EXCEPT !.stage = "created", !.key = id])
  /\ UNCHANGED <<status, password, twoFactor, totp, resets, history>>

\* session.update with the hash of the signed token.
StoreTokenHash(c) ==
  /\ calls[c].stage = "created"
  /\ keys' = [keys EXCEPT ![calls[c].key] = Signed(keys[calls[c].key])]
  /\ Become(c, Blank("done"))
  /\ UNCHANGED <<status, password, twoFactor, totp, resets, history>>

--------------------------------------------------------------------------
(* Requests of a user who is signed in.                                   *)

\* The guard: verifySessionAccessToken.  The session may also have expired.
Authenticate(c, op, session) ==
  /\ calls[c].stage = "idle" /\ op \in SessionOps
  /\ \/ Refuse(c)
     \/ /\ status = "ACTIVE" /\ Live(session) /\ keys[session].kind = "session"
        /\ Go(c, [calls[c] EXCEPT !.stage = "verified", !.op = op])

\* setupTwoFactor.
ProposeSecret(c) ==
  /\ calls[c].stage = "verified" /\ calls[c].op = "setup"
  /\ \E secret \in Secrets \ {totp.secret} : totp' = SecretProposed(secret)
  /\ Commit(c)
  /\ UNCHANGED <<status, password, twoFactor, keys, resets, expelled, proved, spent>>

\* enableTwoFactor and disableTwoFactor read the secret and check the code.
CheckCode(c) ==
  /\ calls[c].stage = "verified" /\ calls[c].op \in {"enable", "disable"}
  /\ \/ Refuse(c)
     \/ /\ totp # NoTotp
        /\ proved' = proved \cup {totp.secret}
        /\ Become(c, [calls[c] EXCEPT !.stage = "found", !.secret = totp.secret])
        /\ UNCHANGED <<account, expelled, spent, overlapped>>

\* The transaction of enableTwoFactor names the user, not the secret.
EnableTwoFactor(c) ==
  /\ calls[c].stage = "found" /\ calls[c].op = "enable"
  /\ SecretStored(totp.secret)
  /\ totp' = [totp EXCEPT !.confirmed = TRUE]
  /\ twoFactor' = TRUE
  /\ Commit(c)
  /\ UNCHANGED <<status, password, keys, resets, expelled, proved, spent>>

DisableTwoFactor(c) ==
  /\ calls[c].stage = "found" /\ calls[c].op = "disable"
  /\ SecretStored(totp.secret)
  /\ totp' = NoTotp
  /\ twoFactor' = FALSE
  /\ Commit(c)
  /\ UNCHANGED <<status, password, keys, resets, expelled, proved, spent>>

\* The secret is gone since it was read: the transaction fails.
SecretGone(c) ==
  /\ calls[c].stage = "found" /\ calls[c].op \in {"enable", "disable"}
  /\ ~SecretStored(totp.secret)
  /\ Refuse(c)

\* revokeViewerSession and revokeViewerToken, of any key of the account.
RevokeKey(c, id) ==
  /\ calls[c].stage = "verified" /\ calls[c].op = "revoke"
  /\ Exists(id)
  /\ keys' = [keys EXCEPT ![id].revoked = TRUE]
  /\ Become(c, Blank("done"))
  /\ UNCHANGED <<status, password, twoFactor, totp, resets, history>>

\* createViewerToken.
IssueToken(c) ==
  /\ calls[c].stage = "verified" /\ calls[c].op = "issue"
  /\ \E id \in KeyIds :
       /\ ~Exists(id)
       /\ keys' = [keys EXCEPT ![id] = Granted("token", TRUE, password)]
  /\ Become(c, Blank("done"))
  /\ UNCHANGED <<status, password, twoFactor, totp, resets, history>>

--------------------------------------------------------------------------
(* requestPasswordReset and confirmPasswordReset.                         *)

FindForReset(c) ==
  /\ calls[c].stage = "idle"
  /\ \/ Refuse(c)
     \/ /\ status = "ACTIVE"
        /\ Go(c, [calls[c] EXCEPT !.stage = "found", !.op = "request"])

\* The first statement of the transaction sees the reset tokens that are
\* committed.
Supersede(c) ==
  /\ calls[c].stage = "found" /\ calls[c].op = "request"
  /\ Go(c, [calls[c] EXCEPT !.stage = "superseding",
                            !.superseded = SupersededByRequest])

\* The second one creates a token; the transaction commits.
OpenReset(c) ==
  /\ calls[c].stage = "superseding"
  /\ \E new \in ResetIds :
       /\ resets[new] = "absent"
       /\ resets' = [id \in ResetIds |->
                       IF id = new THEN "open"
                       ELSE IF id \in calls[c].superseded THEN "used" ELSE resets[id]]
  /\ Commit(c)
  /\ UNCHANGED <<status, password, twoFactor, totp, keys, expelled, proved, spent>>

\* The token must be neither used nor expired; the password is hashed then.
FindReset(c, id) ==
  /\ calls[c].stage = "idle"
  /\ IF Open(id)
     THEN Go(c, [calls[c] EXCEPT !.stage = "found", !.op = "confirm", !.reset = id])
     ELSE Refuse(c)

\* The transaction names the token by its identifier.
ConfirmReset(c) ==
  LET id == calls[c].reset
  IN /\ calls[c].stage = "found" /\ calls[c].op = "confirm"
     /\ password' = password + 1
     /\ resets' = [resets EXCEPT ![id] = ResetUsed(resets[id])]
     /\ keys' = AllRevoked
     /\ expelled' = expelled \cup Present
     /\ spent' = [spent EXCEPT ![id] = spent[id] + 1]
     /\ Commit(c)
     /\ UNCHANGED <<status, twoFactor, totp, proved>>

ExpireReset(id) ==
  /\ Open(id)
  /\ resets' = [resets EXCEPT ![id] = "expired"]
  /\ UNCHANGED <<status, password, twoFactor, totp, keys, calls, history>>

--------------------------------------------------------------------------
(* updateUserAccount, by an administrator.                                *)

FindAccount(c, next) ==
  /\ calls[c].stage = "idle"
  /\ Go(c, [calls[c] EXCEPT !.stage = "found", !.op = "administer", !.next = next])

UpdateAccount(c) ==
  LET next == calls[c].next
  IN /\ calls[c].stage = "found" /\ calls[c].op = "administer"
     /\ status' = StatusAfter(next)
     /\ keys' = IF Expels(next) THEN AllRevoked ELSE keys
     /\ expelled' = IF Expels(next) THEN expelled \cup Present ELSE expelled
     /\ Commit(c)
     /\ UNCHANGED <<password, twoFactor, totp, resets, proved, spent>>

--------------------------------------------------------------------------
Begin(c) ==
  \/ FindUser(c) \/ FindForReset(c)
  \/ \E op \in SessionOps, session \in KeyIds : Authenticate(c, op, session)
  \/ \E id \in ResetIds : FindReset(c, id)
  \/ \E next \in Statuses \cup {"kept"} : FindAccount(c, next)

Proceed(c) ==
  \/ CreateSession(c) \/ StoreTokenHash(c)
  \/ ProposeSecret(c) \/ CheckCode(c) \/ EnableTwoFactor(c) \/ DisableTwoFactor(c)
  \/ SecretGone(c) \/ IssueToken(c)
  \/ \E id \in KeyIds : RevokeKey(c, id)
  \/ Supersede(c) \/ OpenReset(c) \/ ConfirmReset(c) \/ UpdateAccount(c)

Next ==
  \/ \E c \in Calls : Begin(c) \/ Proceed(c)
  \/ \E id \in ResetIds : ExpireReset(id)

Spec == Init /\ [][Next]_vars

--------------------------------------------------------------------------
(* Properties.                                                            *)

\* The state has the shape of the schema.
TypeOK ==
  /\ status \in Statuses
  /\ password \in Nat
  /\ twoFactor \in BOOLEAN
  /\ totp \in Totp
  /\ keys \in [KeyIds -> Key]
  /\ resets \in [ResetIds -> ResetStates]
  /\ calls \in [Calls -> Call]
  /\ expelled \in SUBSET KeyIds
  /\ proved \in SUBSET Secrets
  /\ spent \in [ResetIds -> Nat]
  /\ overlapped \in BOOLEAN

\* A session or token that was there when a reset or a suspension revoked all
\* of them stays revoked, also a session whose token was not stored yet.
RevocationsHold == \A id \in expelled : keys[id].revoked

\* As long as no change falls between another request's lookup and its write,
\* what gives access was granted under the password in force, to an account
\* that is active.
AccessCurrent ==
  ~overlapped => \A id \in KeyIds : Live(id) =>
    status = "ACTIVE" /\ keys[id].password = password

\* An account with a second factor has a secret, so that a session can always
\* switch it off: enabling and disabling do not cross half-way.
TwoFactorHasSecret == twoFactor => totp.secret # NoSecret

\* A confirmed secret is one that a correct code was shown for, unless another
\* change overlapped with the confirmation.
ConfirmedWasProved ==
  ~overlapped /\ totp.confirmed => totp.secret \in proved

\* "confirms password reset once": a reset token sets one password at most,
\* and no earlier one stays open beside the latest, unless requests overlapped.
ResetsOnce ==
  ~overlapped =>
    /\ \A id \in ResetIds : spent[id] <= 1
    /\ \A id, other \in ResetIds : Open(id) /\ Open(other) => id = other
==========================================================================
