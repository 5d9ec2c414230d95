-------------------------- MODULE AccountProofs --------------------------
(* Proofs about the accounts: Credentials, for any set of requests, keys, *)
(* reset tokens and secrets, and then AccountEmail, for any set of users, *)
(* addresses, tokens and requests.  The two are extended together and     *)
(* share no variable.                                                     *)
(*                                                                        *)
(* The inductive invariant of Credentials is Inv.  To the properties it   *)
(* adds what a request may rely on: a session that waits for its token    *)
(* exists, and, as long as no change was committed between the lookup and *)
(* the write of another request, what the lookup saw is still the case.   *)
(* That of AccountEmail is EmailInv, with the same idea.                  *)
EXTENDS AccountEmail, Credentials, TLAPS

\* A key exists before it can be revoked together with all others.
KeysSound ==
  /\ keys \in [KeyIds -> Key]
  /\ expelled \in SUBSET KeyIds
  /\ \A id \in expelled : Exists(id) /\ keys[id].revoked

\* The row of the secret is there or it is not, and a second factor needs it.
SecretSound ==
  /\ twoFactor \in BOOLEAN
  /\ totp \in Totp
  /\ totp.secret = NoSecret => totp = NoTotp
  /\ twoFactor => totp.secret # NoSecret

\* A reset token that has set a password is marked.
ResetsSound ==
  /\ resets \in [ResetIds -> ResetStates]
  /\ spent \in [ResetIds -> Nat]
  /\ \A id \in ResetIds : spent[id] # 0 => resets[id] = "used"

AccountSound ==
  /\ status \in Statuses
  /\ password \in Nat
  /\ proved \in SUBSET Secrets
  /\ overlapped \in BOOLEAN
  /\ KeysSound
  /\ SecretSound
  /\ ResetsSound

\* What a request knows whatever the others do.
CallSound(c) ==
  /\ calls[c].stage = "created" => calls[c].key \in KeyIds /\ Exists(calls[c].key)
  /\ calls[c].stage = "found" /\ calls[c].op = "confirm" => calls[c].reset \in ResetIds

CallsSound ==
  /\ calls \in [Calls -> Call]
  /\ \A c \in Calls : CallSound(c)

\* The account while no requests have overlapped.  A session counts before its
\* token is stored.
AccessSerial ==
  \A id \in KeyIds : Exists(id) /\ ~keys[id].revoked =>
    status = "ACTIVE" /\ keys[id].password = password

SecretSerial == totp.confirmed => totp.secret \in proved

ResetsSerial ==
  /\ \A id, other \in ResetIds : Open(id) /\ Open(other) => id = other
  /\ \A id \in ResetIds : spent[id] <= 1

\* What a request knows while no requests have overlapped.
CallKnows(c) ==
  /\ calls[c].stage = "found" /\ calls[c].op = "login" =>
       status = "ACTIVE" /\ calls[c].password = password
  /\ calls[c].stage = "verified" => status = "ACTIVE"
  /\ calls[c].stage = "found" /\ calls[c].op = "enable" => totp.secret \in proved
  /\ calls[c].stage = "found" /\ calls[c].op = "confirm" => spent[calls[c].reset] = 0
  /\ calls[c].stage = "superseding" =>
       \A id \in ResetIds : Open(id) => id \in calls[c].superseded

Serial ==
  /\ AccessSerial
  /\ SecretSerial
  /\ ResetsSerial
  /\ \A c \in Calls : CallKnows(c)

Inv == AccountSound /\ CallsSound /\ (~overlapped => Serial)

--------------------------------------------------------------------------
(* Lemmas.                                                                *)

\* The records that the module builds have the type of what they stand for.
LEMMA RecordFacts ==
  /\ NoTotp \in Totp /\ NoTotp.secret = NoSecret /\ NoTotp.confirmed = FALSE
  /\ NoKey \in Key /\ NoKey.kind = "none"
  /\ \A stage \in Stages : Blank(stage) \in Call /\ Blank(stage).stage = stage
  /\ \A kind \in {"session", "token"}, signed \in BOOLEAN, knew \in Nat :
       /\ Granted(kind, signed, knew) \in Key
       /\ Granted(kind, signed, knew).kind = kind
       /\ Granted(kind, signed, knew).password = knew
       /\ Granted(kind, signed, knew).revoked = FALSE
<1>1. NoTotp \in Totp /\ NoTotp.secret = NoSecret /\ NoTotp.confirmed = FALSE
  BY DEF NoTotp, Totp
<1>2. NoKey \in Key /\ NoKey.kind = "none"
  BY DEF NoKey, Key
<1>3. \A stage \in Stages : Blank(stage) \in Call /\ Blank(stage).stage = stage
  BY DEF Blank, Call, Ops, SessionOps, Statuses
<1>4. \A kind \in {"session", "token"}, signed \in BOOLEAN, knew \in Nat :
        /\ Granted(kind, signed, knew) \in Key
        /\ Granted(kind, signed, knew).kind = kind
        /\ Granted(kind, signed, knew).password = knew
        /\ Granted(kind, signed, knew).revoked = FALSE
  BY DEF Granted, Key
<1> QED
  BY <1>1, <1>2, <1>3, <1>4

\* The keys after all of them were revoked.
LEMMA AllRevokedFacts ==
  ASSUME KeysSound
  PROVE /\ AllRevoked \in [KeyIds -> Key]
        /\ \A id \in KeyIds : AllRevoked[id].kind = keys[id].kind
        /\ \A id \in Present : AllRevoked[id].revoked
        /\ \A id \in KeyIds : AllRevoked[id].kind # "none" => AllRevoked[id].revoked
        /\ expelled \cup Present \in SUBSET KeyIds
        /\ expelled \subseteq Present
<1>1. ASSUME NEW id \in KeyIds, Exists(id)
      PROVE /\ [keys[id] EXCEPT !.revoked = TRUE] \in Key
            /\ [keys[id] EXCEPT !.revoked = TRUE].kind = keys[id].kind
            /\ [keys[id] EXCEPT !.revoked = TRUE].revoked
  BY DEF KeysSound, Key
<1> QED
  BY <1>1 DEF AllRevoked, Present, Exists, KeysSound

\* A request that moves on without writing leaves what the others know.
LEMMA MoveStep ==
  ASSUME Inv, NEW c \in Calls, NEW call \in Call,
         calls' = [calls EXCEPT ![c] = call],
         UNCHANGED <<account, expelled, spent, overlapped>>,
         proved \subseteq proved', proved' \in SUBSET Secrets,
         CallSound(c)', ~overlapped => CallKnows(c)'
  PROVE Inv'
<1>1. /\ calls' \in [Calls -> Call] /\ calls'[c] = call
      /\ \A d \in Calls \ {c} : calls'[d] = calls[d]
  BY DEF Inv, CallsSound
<1>2. AccountSound'
  BY DEF Inv, AccountSound, KeysSound, SecretSound, ResetsSound, Exists, account
<1>3. CallsSound'
  BY <1>1 DEF Inv, CallsSound, CallSound, Exists, account
<1>4. ASSUME ~overlapped PROVE Serial'
  <2>1. Serial
    BY <1>4 DEF Inv
  <2>2. AccessSerial' /\ SecretSerial' /\ ResetsSerial'
    BY <2>1 DEF Serial, AccessSerial, SecretSerial, ResetsSerial, Exists, Open, account
  <2>3. ASSUME NEW d \in Calls \ {c} PROVE CallKnows(d)'
    BY <1>1, <2>1 DEF Serial, CallKnows, Open, account
  <2> QED
    BY <1>4, <2>2, <2>3 DEF Serial
<1> QED
  BY <1>2, <1>3, <1>4 DEF Inv

\* A request that ends has nothing to know.
LEMMA EndStep ==
  ASSUME Inv, NEW c \in Calls, NEW stage \in {"done", "refused"}, Go(c, Blank(stage))
  PROVE Inv'
<1>1. Blank(stage) \in Call /\ Blank(stage).stage = stage
  BY RecordFacts DEF Stages
<1>2. calls' = [calls EXCEPT ![c] = Blank(stage)] /\ calls'[c] = Blank(stage)
  BY DEF Go, Become, Inv, CallsSound
<1>3. CallSound(c)' /\ CallKnows(c)'
  BY <1>1, <1>2 DEF CallSound, CallKnows
<1>4. UNCHANGED <<account, expelled, spent, overlapped>> /\ proved' = proved
      /\ proved \in SUBSET Secrets
  BY DEF Go, history, Inv, AccountSound
<1> QED
  BY <1>1, <1>2, <1>3, <1>4, MoveStep

\* A request writes to the keys only, in a way nobody overlaps with.
LEMMA KeyStep ==
  ASSUME Inv, NEW c \in Calls, NEW call \in Call,
         call.stage \in {"created", "done"},
         call.stage = "created" => call.key \in KeyIds /\ Exists(call.key)',
         calls' = [calls EXCEPT ![c] = call],
         UNCHANGED <<status, password, twoFactor, totp, resets, history>>,
         keys' \in [KeyIds -> Key],
         \A id \in KeyIds : Exists(id) => Exists(id)',
         \A id \in expelled : keys'[id].revoked,
         ~overlapped => AccessSerial'
  PROVE Inv'
<1>1. /\ calls' \in [Calls -> Call] /\ calls'[c] = call
      /\ \A d \in Calls \ {c} : calls'[d] = calls[d]
  BY DEF Inv, CallsSound
<1>2. AccountSound'
  BY DEF Inv, AccountSound, KeysSound, SecretSound, ResetsSound, history
<1>3. CallsSound'
  BY <1>1 DEF Inv, CallsSound, CallSound
<1>4. ASSUME ~overlapped PROVE Serial'
  <2>1. Serial
    BY <1>4 DEF Inv
  <2>2. SecretSerial' /\ ResetsSerial'
    BY <2>1 DEF Serial, SecretSerial, ResetsSerial, Open, history
  <2>3. ASSUME NEW d \in Calls PROVE CallKnows(d)'
    BY <1>1, <2>1 DEF Serial, CallKnows, Open, history
  <2> QED
    BY <1>4, <2>2, <2>3 DEF Serial
<1> QED
  BY <1>2, <1>3, <1>4 DEF Inv, history

\* A request commits a change that others may rely on.  If none of them was
\* between its lookup and its write, none has anything to know.
LEMMA CommitStep ==
  ASSUME Inv, NEW c \in Calls, Commit(c),
         status' \in Statuses, password' \in Nat, proved' \in SUBSET Secrets,
         KeysSound', SecretSound', ResetsSound',
         \A id \in KeyIds : Exists(id) => Exists(id)',
         ~overlapped => AccessSerial' /\ SecretSerial' /\ ResetsSerial'
  PROVE Inv'
<1>1. /\ calls' \in [Calls -> Call] /\ calls'[c] = Blank("done")
      /\ calls'[c].stage = "done"
      /\ \A d \in Calls \ {c} : calls'[d] = calls[d]
  BY RecordFacts DEF Commit, Become, Inv, CallsSound, Stages
<1>2. overlapped' \in BOOLEAN /\ (overlapped => overlapped')
  BY DEF Commit, Inv, AccountSound
<1>3. AccountSound'
  BY <1>2 DEF AccountSound
<1>4. CallsSound'
  BY <1>1 DEF Inv, CallsSound, CallSound
<1>5. ASSUME ~overlapped' PROVE Serial'
  <2>1. ~overlapped /\ \A d \in Calls \ {c} : ~Underway(d)
    BY <1>5 DEF Commit
  <2>2. ASSUME NEW d \in Calls PROVE CallKnows(d)'
    BY <1>1, <2>1 DEF CallKnows, Underway
  <2> QED
    BY <2>1, <2>2 DEF Serial
<1> QED
  BY <1>3, <1>4, <1>5 DEF Inv

--------------------------------------------------------------------------
(* The initial states and the steps.                                      *)

\* The initial states satisfy the invariant.
LEMMA InvInit == Init => Inv
<1> SUFFICES ASSUME Init PROVE Inv
  OBVIOUS
<1>1. calls \in [Calls -> Call] /\ \A c \in Calls : calls[c].stage = "idle"
  BY RecordFacts DEF Init, Stages
<1>2. KeysSound /\ AccessSerial
  <2> DEFINE first == [kind |-> "session", signed |-> TRUE, revoked |-> FALSE,
                       password |-> 0]
  <2>1. first \in Key /\ first.password = 0
    BY DEF Key
  <2> HIDE DEF first
  <2>2. PICK id \in KeyIds : keys = [k \in KeyIds |-> IF k # id THEN NoKey ELSE first]
    BY DEF Init, first
  <2>3. keys \in [KeyIds -> Key] /\ keys[id] = first
        /\ \A k \in KeyIds \ {id} : ~Exists(k)
    BY <2>1, <2>2, RecordFacts DEF Exists
  <2>4. status = "ACTIVE" /\ password = 0 /\ expelled = {}
    BY DEF Init
  <2> QED
    BY <2>1, <2>3, <2>4 DEF KeysSound, AccessSerial
<1>3. SecretSound /\ SecretSerial /\ proved \in SUBSET Secrets
  <2>1. CASE twoFactor = FALSE /\ totp = NoTotp /\ proved = {}
    BY <2>1, RecordFacts DEF SecretSound, SecretSerial
  <2>2. ASSUME NEW secret \in Secrets, twoFactor = TRUE,
               totp = [secret |-> secret, confirmed |-> TRUE], proved = {secret}
        PROVE SecretSound /\ SecretSerial /\ proved \in SUBSET Secrets
    <3>1. totp \in Totp /\ totp.secret = secret /\ secret # NoSecret
      BY <2>2, NoSecretAssumption DEF Totp
    <3> QED
      BY <2>2, <3>1 DEF SecretSound, SecretSerial
  <2> QED
    BY <2>1, <2>2 DEF Init
<1>4. ResetsSound /\ ResetsSerial
  BY DEF Init, ResetsSound, ResetsSerial, ResetStates, Open
<1>5. AccountSound
  BY <1>2, <1>3, <1>4 DEF Init, AccountSound, Statuses
<1>6. CallsSound /\ \A c \in Calls : CallKnows(c)
  BY <1>1 DEF CallsSound, CallSound, CallKnows
<1> QED
  BY <1>2, <1>3, <1>4, <1>5, <1>6 DEF Inv, Serial

\* The lookups of sign-in, the guard, the resets and the administrator.
LEMMA BeginInv ==
  ASSUME Inv, NEW c \in Calls, Begin(c)
  PROVE Inv'
<1>1. calls[c] \in Call /\ calls \in [Calls -> Call]
  BY DEF Inv, CallsSound
<1>2. CASE Refuse(c)
  BY <1>2, EndStep DEF Refuse
<1>3. ASSUME NEW call \in Call, Go(c, call), call.stage \in {"verified", "found"},
             call.stage = "found" /\ call.op = "confirm" =>
               call.reset \in ResetIds /\ Open(call.reset),
             call.stage = "found" /\ call.op = "login" =>
               status = "ACTIVE" /\ call.password = password,
             call.stage = "verified" => status = "ACTIVE",
             call.stage = "found" => call.op # "enable"
      PROVE Inv'
  <2>1. calls' = [calls EXCEPT ![c] = call] /\ calls'[c] = call
        /\ UNCHANGED <<account, expelled, spent, overlapped>> /\ proved' = proved
    BY <1>1, <1>3 DEF Go, Become, history
  <2>2. CallSound(c)'
    BY <1>3, <2>1 DEF CallSound
  <2>3. CallKnows(c)'
    <3>1. call.stage = "found" /\ call.op = "confirm" => spent[call.reset] = 0
      BY <1>3 DEF Inv, AccountSound, ResetsSound, Open
    <3> QED
      BY <1>3, <2>1, <3>1 DEF CallKnows, account
  <2>4. proved \in SUBSET Secrets
    BY DEF Inv, AccountSound
  <2> QED
    BY <2>1, <2>2, <2>3, <2>4, MoveStep
<1>4. CASE FindUser(c)
  <2> DEFINE call == [calls[c] EXCEPT !.stage = "found", !.op = "login",
                                      !.password = password]
  <2>1. call \in Call /\ call.stage = "found" /\ call.op = "login"
        /\ call.password = password
    BY <1>1 DEF Call, Stages, Ops, Inv, AccountSound
  <2>2. Refuse(c) \/ (status = "ACTIVE" /\ Go(c, call))
    BY <1>4 DEF FindUser
  <2> HIDE DEF call
  <2> QED
    BY <1>2, <1>3, <2>1, <2>2
<1>5. CASE FindForReset(c)
  <2> DEFINE call == [calls[c] EXCEPT !.stage = "found", !.op = "request"]
  <2>1. call \in Call /\ call.stage = "found" /\ call.op = "request"
    BY <1>1 DEF Call, Stages, Ops
  <2>2. Refuse(c) \/ Go(c, call)
    BY <1>5 DEF FindForReset
  <2> HIDE DEF call
  <2> QED
    BY <1>2, <1>3, <2>1, <2>2
<1>6. ASSUME NEW op \in SessionOps, NEW session \in KeyIds, Authenticate(c, op, session)
      PROVE Inv'
  <2> DEFINE call == [calls[c] EXCEPT !.stage = "verified", !.op = op]
  <2>1. call \in Call /\ call.stage = "verified"
    BY <1>1 DEF Call, Stages, Ops
  <2>2. Refuse(c) \/ (status = "ACTIVE" /\ Go(c, call))
    BY <1>6 DEF Authenticate
  <2> HIDE DEF call
  <2> QED
    BY <1>2, <1>3, <2>1, <2>2
<1>7. ASSUME NEW id \in ResetIds, FindReset(c, id) PROVE Inv'
  <2> DEFINE call == [calls[c] EXCEPT !.stage = "found", !.op = "confirm", !.reset = id]
  <2>1. call \in Call /\ call.stage = "found" /\ call.op = "confirm" /\ call.reset = id
    BY <1>1 DEF Call, Stages, Ops
  <2>2. Refuse(c) \/ (Open(id) /\ Go(c, call))
    BY <1>7 DEF FindReset
  <2> HIDE DEF call
  <2> QED
    BY <1>2, <1>3, <2>1, <2>2
<1>8. ASSUME NEW next \in Statuses \cup {"kept"}, FindAccount(c, next) PROVE Inv'
  <2> DEFINE call == [calls[c] EXCEPT !.stage = "found", !.op = "administer",
                                      !.next = next]
  <2>1. call \in Call /\ call.stage = "found" /\ call.op = "administer"
    BY <1>1 DEF Call, Stages, Ops
  <2>2. Go(c, call)
    BY <1>8 DEF FindAccount
  <2> HIDE DEF call
  <2> QED
    BY <1>3, <2>1, <2>2
<1> QED
  BY <1>4, <1>5, <1>6, <1>7, <1>8 DEF Begin

\* A new key is granted to an account that is as the request saw it.
LEMMA GrantStep ==
  ASSUME Inv, NEW c \in Calls, NEW call \in Call, NEW id \in KeyIds, NEW key \in Key,
         ~Exists(id), key.kind # "none", ~key.revoked,
         keys' = [keys EXCEPT ![id] = key],
         call.stage = "done" \/ (call.stage = "created" /\ call.key = id),
         calls' = [calls EXCEPT ![c] = call],
         UNCHANGED <<status, password, twoFactor, totp, resets, history>>,
         ~overlapped => status = "ACTIVE" /\ key.password = password
  PROVE Inv'
<1>1. keys \in [KeyIds -> Key] /\ id \notin expelled
  BY DEF Inv, AccountSound, KeysSound
<1>2. /\ keys' \in [KeyIds -> Key] /\ keys'[id] = key
      /\ \A other \in KeyIds \ {id} : keys'[other] = keys[other]
  BY <1>1
<1>3. Exists(id)' /\ \A other \in KeyIds : Exists(other) => Exists(other)'
  BY <1>2 DEF Exists
<1>4. \A other \in expelled : keys'[other].revoked
  BY <1>1, <1>2 DEF Inv, AccountSound, KeysSound
<1>5. ~overlapped => AccessSerial'
  BY <1>2 DEF Inv, Serial, AccessSerial, Exists
<1> QED
  BY <1>2, <1>3, <1>4, <1>5, KeyStep

\* createAuthPayload creates the session.
LEMMA CreateSessionInv ==
  ASSUME Inv, NEW c \in Calls, CreateSession(c)
  PROVE Inv'
<1> PICK id \in KeyIds :
      /\ ~Exists(id)
      /\ keys' = [keys EXCEPT ![id] = Granted("session", FALSE, calls[c].password)]
      /\ Become(c, [calls[c] EXCEPT !.stage = "created", !.key = id])
  BY DEF CreateSession
<1> DEFINE call == [calls[c] EXCEPT !.stage = "created", !.key = id]
           key == Granted("session", FALSE, calls[c].password)
<1>1. calls[c] \in Call /\ calls[c].stage = "found" /\ calls[c].op = "login"
  BY DEF CreateSession, Inv, CallsSound
<1>2. call \in Call /\ call.stage = "created" /\ call.key = id
  BY <1>1 DEF Call, Stages
<1>3. calls[c].password \in Nat
  BY <1>1 DEF Call
<1>4. key \in Key /\ key.kind = "session" /\ ~key.revoked
      /\ key.password = calls[c].password
  BY <1>3, RecordFacts
<1>5. ~overlapped => status = "ACTIVE" /\ calls[c].password = password
  BY <1>1 DEF Inv, Serial, CallKnows
<1>6. calls' = [calls EXCEPT ![c] = call] /\ keys' = [keys EXCEPT ![id] = key]
  BY DEF Become
<1>7. UNCHANGED <<status, password, twoFactor, totp, resets, history>>
  BY DEF CreateSession
<1> HIDE DEF call, key
<1> QED
  BY <1>2, <1>4, <1>5, <1>6, <1>7, GrantStep

\* createViewerToken.
LEMMA IssueTokenInv ==
  ASSUME Inv, NEW c \in Calls, IssueToken(c)
  PROVE Inv'
<1> PICK id \in KeyIds :
      /\ ~Exists(id)
      /\ keys' = [keys EXCEPT ![id] = Granted("token", TRUE, password)]
  BY DEF IssueToken
<1> DEFINE key == Granted("token", TRUE, password)
           call == Blank("done")
<1>1. calls[c].stage = "verified" /\ password \in Nat
  BY DEF IssueToken, Inv, AccountSound
<1>2. call \in Call /\ call.stage = "done"
  BY RecordFacts DEF Stages
<1>3. key \in Key /\ key.kind = "token" /\ ~key.revoked /\ key.password = password
  BY <1>1, RecordFacts
<1>4. ~overlapped => status = "ACTIVE"
  BY <1>1 DEF Inv, Serial, CallKnows
<1>5. calls' = [calls EXCEPT ![c] = call] /\ keys' = [keys EXCEPT ![id] = key]
  BY DEF IssueToken, Become
<1>6. UNCHANGED <<status, password, twoFactor, totp, resets, history>>
  BY DEF IssueToken
<1> HIDE DEF call, key
<1> QED
  BY <1>2, <1>3, <1>4, <1>5, <1>6, GrantStep

\* A key is changed, and if it was revoked it stays so.
LEMMA KeepStep ==
  ASSUME Inv, NEW c \in Calls, NEW id \in KeyIds, NEW key \in Key,
         Exists(id), key.kind = keys[id].kind, key.password = keys[id].password,
         keys[id].revoked => key.revoked,
         keys' = [keys EXCEPT ![id] = key],
         Become(c, Blank("done")),
         UNCHANGED <<status, password, twoFactor, totp, resets, history>>
  PROVE Inv'
<1> DEFINE call == Blank("done")
<1>1. call \in Call /\ call.stage = "done" /\ calls' = [calls EXCEPT ![c] = call]
  BY RecordFacts DEF Stages, Become
<1> HIDE DEF call
<1>2. /\ keys' \in [KeyIds -> Key] /\ keys'[id] = key
      /\ \A other \in KeyIds \ {id} : keys'[other] = keys[other]
  BY DEF Inv, AccountSound, KeysSound
<1>3. \A other \in KeyIds : Exists(other) => Exists(other)'
  BY <1>2 DEF Exists
<1>4. \A other \in expelled : keys'[other].revoked
  BY <1>2 DEF Inv, AccountSound, KeysSound
<1>5. ~overlapped => AccessSerial'
  BY <1>2 DEF Inv, Serial, AccessSerial, Exists
<1> QED
  BY <1>1, <1>2, <1>3, <1>4, <1>5, KeyStep

\* createAuthPayload stores the hash of the token.
LEMMA StoreTokenHashInv ==
  ASSUME Inv, NEW c \in Calls, StoreTokenHash(c)
  PROVE Inv'
<1> DEFINE id == calls[c].key
           key == Signed(keys[id])
<1>1. id \in KeyIds /\ Exists(id) /\ keys[id] \in Key
  BY DEF StoreTokenHash, Inv, CallsSound, CallSound, AccountSound, KeysSound
<1>2. /\ key \in Key /\ key.kind = keys[id].kind /\ key.password = keys[id].password
      /\ key.revoked = keys[id].revoked
  BY <1>1 DEF Signed, Key
<1>3. /\ keys' = [keys EXCEPT ![id] = key] /\ Become(c, Blank("done"))
      /\ UNCHANGED <<status, password, twoFactor, totp, resets, history>>
  BY DEF StoreTokenHash
<1> HIDE DEF id, key
<1> QED
  BY <1>1, <1>2, <1>3, KeepStep

\* revokeViewerSession and revokeViewerToken.
LEMMA RevokeKeyInv ==
  ASSUME Inv, NEW c \in Calls, NEW id \in KeyIds, RevokeKey(c, id)
  PROVE Inv'
<1> DEFINE key == [keys[id] EXCEPT !.revoked = TRUE]
<1>1. Exists(id) /\ keys[id] \in Key
  BY DEF RevokeKey, Inv, AccountSound, KeysSound
<1>2. /\ key \in Key /\ key.kind = keys[id].kind /\ key.password = keys[id].password
      /\ key.revoked
  BY <1>1 DEF Key
<1>3. /\ keys' = [keys EXCEPT ![id] = key] /\ Become(c, Blank("done"))
      /\ UNCHANGED <<status, password, twoFactor, totp, resets, history>>
  BY DEF RevokeKey
<1> HIDE DEF key
<1> QED
  BY <1>1, <1>2, <1>3, KeepStep

\* The second factor changes, and nothing else.
LEMMA SecretStep ==
  ASSUME Inv, NEW c \in Calls, Commit(c), SecretSound',
         UNCHANGED <<status, password, keys, resets, expelled, proved, spent>>,
         ~overlapped => SecretSerial'
  PROVE Inv'
<1>1. status' \in Statuses /\ password' \in Nat /\ proved' \in SUBSET Secrets
      /\ KeysSound' /\ ResetsSound' /\ \A id \in KeyIds : Exists(id) => Exists(id)'
  BY DEF Inv, AccountSound, KeysSound, ResetsSound, Exists
<1>2. ~overlapped => AccessSerial' /\ ResetsSerial'
  BY DEF Inv, Serial, AccessSerial, ResetsSerial, Exists, Open
<1> QED
  BY <1>1, <1>2, CommitStep

\* setupTwoFactor.
LEMMA ProposeSecretInv ==
  ASSUME Inv, NEW c \in Calls, ProposeSecret(c)
  PROVE Inv'
<1> PICK secret \in Secrets : totp' = SecretProposed(secret)
  BY DEF ProposeSecret
<1>1. totp' \in Totp /\ totp'.secret = secret /\ totp'.confirmed = FALSE
      /\ secret # NoSecret
  BY NoSecretAssumption DEF SecretProposed, Totp
<1>2. SecretSound' /\ SecretSerial'
  BY <1>1 DEF SecretSound, SecretSerial, ProposeSecret, Inv, AccountSound
<1> QED
  BY <1>2, SecretStep DEF ProposeSecret

\* enableTwoFactor and disableTwoFactor check the code.
LEMMA CheckCodeInv ==
  ASSUME Inv, NEW c \in Calls, CheckCode(c)
  PROVE Inv'
<1>1. CASE Refuse(c)
  BY <1>1, EndStep DEF Refuse
<1>2. CASE ~Refuse(c)
  <2> DEFINE call == [calls[c] EXCEPT !.stage = "found", !.secret = totp.secret]
  <2>1. /\ totp # NoTotp /\ totp \in Totp /\ totp.secret \in Secrets
        /\ calls[c] \in Call /\ calls[c].op \in {"enable", "disable"}
    BY <1>2 DEF CheckCode, Inv, CallsSound, AccountSound, SecretSound, Totp
  <2>2. call \in Call /\ call.stage = "found" /\ call.op = calls[c].op
    BY <2>1 DEF Call, Stages
  <2>3. /\ calls' = [calls EXCEPT ![c] = call] /\ proved' = proved \cup {totp.secret}
        /\ UNCHANGED <<account, expelled, spent, overlapped>>
    BY <1>2 DEF CheckCode, Become
  <2> HIDE DEF call
  <2>4. calls'[c] = call /\ proved' \in SUBSET Secrets /\ proved \subseteq proved'
    BY <2>1, <2>3 DEF Inv, CallsSound, AccountSound
  <2>5. CallSound(c)' /\ CallKnows(c)'
    BY <2>1, <2>2, <2>3, <2>4 DEF CallSound, CallKnows, account
  <2> QED
    BY <2>2, <2>3, <2>4, <2>5, MoveStep
<1> QED
  BY <1>1, <1>2

\* The transaction of enableTwoFactor.
LEMMA EnableTwoFactorInv ==
  ASSUME Inv, NEW c \in Calls, EnableTwoFactor(c)
  PROVE Inv'
<1>1. /\ totp' \in Totp /\ totp'.secret = totp.secret /\ totp.secret # NoSecret
      /\ twoFactor' = TRUE
  BY DEF EnableTwoFactor, SecretStored, Inv, AccountSound, SecretSound, Totp
<1>2. SecretSound'
  BY <1>1 DEF SecretSound
<1>3. ~overlapped => totp.secret \in proved
  BY DEF EnableTwoFactor, Inv, Serial, CallKnows
<1>4. ~overlapped => SecretSerial'
  BY <1>1, <1>3 DEF SecretSerial, EnableTwoFactor
<1> QED
  BY <1>2, <1>4, SecretStep DEF EnableTwoFactor

\* The transaction of disableTwoFactor.
LEMMA DisableTwoFactorInv ==
  ASSUME Inv, NEW c \in Calls, DisableTwoFactor(c)
  PROVE Inv'
<1>1. SecretSound' /\ SecretSerial'
  BY RecordFacts DEF DisableTwoFactor, SecretSound, SecretSerial
<1> QED
  BY <1>1, SecretStep DEF DisableTwoFactor

\* requestPasswordReset marks the earlier reset tokens.
LEMMA SupersedeInv ==
  ASSUME Inv, NEW c \in Calls, Supersede(c)
  PROVE Inv'
<1> DEFINE call == [calls[c] EXCEPT !.stage = "superseding",
                                    !.superseded = SupersededByRequest]
<1>1. calls[c] \in Call /\ SupersededByRequest \in SUBSET ResetIds
  BY DEF Inv, CallsSound, SupersededByRequest
<1>2. call \in Call /\ call.stage = "superseding" /\ call.superseded = SupersededByRequest
  BY <1>1 DEF Call, Stages
<1>3. calls' = [calls EXCEPT ![c] = call] /\ UNCHANGED <<account, history>>
  BY DEF Supersede, Go, Become
<1> HIDE DEF call
<1>4. calls'[c] = call /\ proved' = proved /\ proved \in SUBSET Secrets
      /\ UNCHANGED <<account, expelled, spent, overlapped>>
  BY <1>3 DEF Inv, CallsSound, AccountSound, history
<1>5. CallSound(c)' /\ CallKnows(c)'
  BY <1>2, <1>4 DEF CallSound, CallKnows, SupersededByRequest, Open, account
<1> QED
  BY <1>2, <1>3, <1>4, <1>5, MoveStep

\* requestPasswordReset creates the token.
LEMMA OpenResetInv ==
  ASSUME Inv, NEW c \in Calls, OpenReset(c)
  PROVE Inv'
<1> PICK new \in ResetIds :
      /\ resets[new] = "absent"
      /\ resets' = [id \in ResetIds |->
                      IF id = new THEN "open"
                      ELSE IF id \in calls[c].superseded THEN "used" ELSE resets[id]]
  BY DEF OpenReset
<1>1. /\ status' \in Statuses /\ password' \in Nat /\ proved' \in SUBSET Secrets
      /\ KeysSound' /\ SecretSound' /\ \A id \in KeyIds : Exists(id) => Exists(id)'
  BY DEF OpenReset, Inv, AccountSound, KeysSound, SecretSound, Exists
<1>2. ResetsSound'
  <2>1. resets' \in [ResetIds -> ResetStates] /\ spent' = spent
    BY DEF OpenReset, ResetStates, Inv, AccountSound, ResetsSound
  <2>2. spent[new] = 0
    BY DEF Inv, AccountSound, ResetsSound
  <2> QED
    BY <2>1, <2>2 DEF Inv, AccountSound, ResetsSound
<1>3. ASSUME ~overlapped PROVE AccessSerial' /\ SecretSerial' /\ ResetsSerial'
  <2>1. Serial /\ \A id \in ResetIds : Open(id) => id \in calls[c].superseded
    BY <1>3 DEF OpenReset, Inv, Serial, CallKnows
  <2>2. \A id \in ResetIds \ {new} : ~Open(id)'
    BY <2>1 DEF Open, Inv, AccountSound, ResetsSound
  <2>3. ResetsSerial'
    BY <2>1, <2>2 DEF Serial, ResetsSerial, OpenReset
  <2> QED
    BY <2>1, <2>3 DEF Serial, AccessSerial, SecretSerial, Exists, OpenReset
<1> QED
  BY <1>1, <1>2, <1>3, CommitStep DEF OpenReset

\* The transaction of confirmPasswordReset.
LEMMA ConfirmResetInv ==
  ASSUME Inv, NEW c \in Calls, ConfirmReset(c)
  PROVE Inv'
<1> PICK id \in ResetIds : id = calls[c].reset
  BY DEF ConfirmReset, Inv, CallsSound, CallSound
<1>1. /\ keys' = AllRevoked /\ expelled' = expelled \cup Present
      /\ resets' = [resets EXCEPT ![id] = "used"]
      /\ spent' = [spent EXCEPT ![id] = spent[id] + 1]
      /\ password' = password + 1 /\ Commit(c) /\ UNCHANGED <<status, twoFactor, totp, proved>>
  BY DEF ConfirmReset, ResetUsed
<1>2. KeysSound /\ ResetsSound
  BY DEF Inv, AccountSound
<1>3. /\ KeysSound' /\ \A k \in KeyIds : Exists(k) => Exists(k)'
      /\ \A k \in KeyIds : Exists(k)' => keys'[k].revoked
  BY <1>1, <1>2, AllRevokedFacts DEF KeysSound, Exists, Present
<1>4. ResetsSound'
  BY <1>1, <1>2 DEF ResetsSound, ResetStates
<1>5. status' \in Statuses /\ password' \in Nat /\ proved' \in SUBSET Secrets /\ SecretSound'
  BY <1>1 DEF Inv, AccountSound, SecretSound
<1>6. ASSUME ~overlapped PROVE AccessSerial' /\ SecretSerial' /\ ResetsSerial'
  <2>1. Serial /\ spent[id] = 0
    BY <1>6 DEF ConfirmReset, Inv, Serial, CallKnows
  <2>2. \A other \in ResetIds : Open(other)' => Open(other)
    BY <1>1, <1>2 DEF ResetsSound, Open
  <2>3. \A other \in ResetIds : spent'[other] <= 1
    BY <1>1, <1>2, <2>1 DEF ResetsSound, Serial, ResetsSerial
  <2>4. ResetsSerial'
    BY <2>1, <2>2, <2>3 DEF Serial, ResetsSerial
  <2> QED
    BY <1>1, <1>3, <2>1, <2>4 DEF Serial, AccessSerial, SecretSerial
<1> QED
  BY <1>1, <1>3, <1>4, <1>5, <1>6, CommitStep

\* updateUserAccount.
LEMMA UpdateAccountInv ==
  ASSUME Inv, NEW c \in Calls, UpdateAccount(c)
  PROVE Inv'
<1> DEFINE next == calls[c].next
<1>1. next \in Statuses \cup {"kept"} /\ KeysSound
  BY DEF Inv, CallsSound, Call, AccountSound
<1>2. /\ status' = StatusAfter(next) /\ Commit(c)
      /\ keys' = (IF Expels(next) THEN AllRevoked ELSE keys)
      /\ expelled' = (IF Expels(next) THEN expelled \cup Present ELSE expelled)
      /\ UNCHANGED <<password, twoFactor, totp, resets, proved, spent>>
  BY DEF UpdateAccount
<1> HIDE DEF next
<1>3. status' \in Statuses
  BY <1>1, <1>2 DEF StatusAfter, Inv, AccountSound
<1>4. /\ KeysSound' /\ \A k \in KeyIds : Exists(k) => Exists(k)'
      /\ Expels(next) => \A k \in KeyIds : Exists(k)' => keys'[k].revoked
  BY <1>1, <1>2, AllRevokedFacts DEF KeysSound, Exists, Present
<1>5. /\ password' \in Nat /\ proved' \in SUBSET Secrets /\ SecretSound' /\ ResetsSound'
  BY <1>2 DEF Inv, AccountSound, SecretSound, ResetsSound
<1>6. ASSUME ~overlapped PROVE AccessSerial' /\ SecretSerial' /\ ResetsSerial'
  <2>1. Serial
    BY <1>6 DEF Inv
  <2>2. AccessSerial'
    <3>1. CASE Expels(next)
      BY <1>4, <3>1 DEF AccessSerial
    <3>2. CASE ~Expels(next)
      <4>1. keys' = keys /\ (status' = status \/ status' = "ACTIVE")
        BY <1>1, <1>2, <3>2 DEF Expels, StatusAfter
      <4> QED
        BY <1>2, <2>1, <4>1 DEF Serial, AccessSerial, Exists
    <3> QED
      BY <3>1, <3>2
  <2> QED
    BY <1>2, <2>1, <2>2 DEF Serial, SecretSerial, ResetsSerial, Open
<1> QED
  BY <1>2, <1>3, <1>4, <1>5, <1>6, CommitStep

\* A reset token expires.
LEMMA ExpireResetInv ==
  ASSUME Inv, NEW id \in ResetIds, ExpireReset(id)
  PROVE Inv'
<1>1. /\ Open(id) /\ resets' = [resets EXCEPT ![id] = "expired"]
      /\ UNCHANGED <<status, password, twoFactor, totp, keys, calls, history>>
      /\ ResetsSound
  BY DEF ExpireReset, Inv, AccountSound
<1>2. ResetsSound'
  BY <1>1 DEF ResetsSound, ResetStates, Open, history
<1>3. AccountSound'
  BY <1>1, <1>2 DEF Inv, AccountSound, KeysSound, SecretSound, Exists, history
<1>4. CallsSound'
  BY <1>1 DEF Inv, CallsSound, CallSound, Exists
<1>5. ASSUME ~overlapped PROVE Serial'
  <2>1. Serial
    BY <1>5 DEF Inv
  <2>2. \A other \in ResetIds : Open(other)' => Open(other)
    BY <1>1 DEF ResetsSound, Open
  <2>3. AccessSerial' /\ SecretSerial' /\ ResetsSerial'
    BY <1>1, <2>1, <2>2 DEF Serial, AccessSerial, SecretSerial, ResetsSerial, Exists, history
  <2>4. ASSUME NEW c \in Calls PROVE CallKnows(c)'
    BY <1>1, <2>1, <2>2 DEF Serial, CallKnows, history
  <2> QED
    BY <2>3, <2>4 DEF Serial
<1> QED
  BY <1>1, <1>3, <1>4, <1>5 DEF Inv, history

--------------------------------------------------------------------------
(* The theorems.                                                          *)

\* Every step preserves the invariant.
LEMMA InvNext == Inv /\ [Next]_vars => Inv'
<1> SUFFICES ASSUME Inv, [Next]_vars PROVE Inv'
  OBVIOUS
<1>1. ASSUME NEW c \in Calls, SecretGone(c) PROVE Inv'
  BY <1>1, EndStep DEF SecretGone, Refuse
<1>2. ASSUME NEW c \in Calls, Proceed(c) PROVE Inv'
  BY <1>1, <1>2, CreateSessionInv, StoreTokenHashInv, ProposeSecretInv, CheckCodeInv,
     EnableTwoFactorInv, DisableTwoFactorInv, IssueTokenInv, RevokeKeyInv, SupersedeInv,
     OpenResetInv, ConfirmResetInv, UpdateAccountInv DEF Proceed
<1>3. CASE UNCHANGED vars
  <2>1. AccountSound' /\ CallsSound'
    BY <1>3 DEF vars, account, history, Inv, AccountSound, KeysSound, SecretSound,
       ResetsSound, CallsSound, CallSound, Exists
  <2>2. ~overlapped' => Serial'
    BY <1>3 DEF vars, account, history, Inv, Serial, AccessSerial, SecretSerial,
       ResetsSerial, CallKnows, Exists, Open
  <2> QED
    BY <2>1, <2>2 DEF Inv
<1> QED
  BY <1>2, <1>3, BeginInv, ExpireResetInv DEF Next

\* The invariant holds in every reachable state.
THEOREM Invariance == Spec => []Inv
BY InvInit, InvNext, PTL DEF Spec

\* The account, its keys and its tokens keep the shape of the schema.
THEOREM TypeCorrect == Spec => []TypeOK
<1>1. Inv => TypeOK
  BY DEF Inv, AccountSound, KeysSound, SecretSound, ResetsSound, CallsSound, TypeOK
<1> QED
  BY <1>1, Invariance, PTL

\* What a reset or a suspension has revoked is never valid again, however the
\* requests interleave: no handler writes back a session it has read.
THEOREM RevocationsAreFinal == Spec => []RevocationsHold
<1>1. Inv => RevocationsHold
  BY DEF Inv, AccountSound, KeysSound, RevocationsHold
<1> QED
  BY <1>1, Invariance, PTL

\* Access that outlives a reset or a suspension comes of requests that
\* overlapped, and of nothing else.
THEOREM AccessIsCurrent == Spec => []AccessCurrent
<1>1. Inv => AccessCurrent
  BY DEF Inv, Serial, AccessSerial, AccessCurrent, Live
<1> QED
  BY <1>1, Invariance, PTL

\* An account with a second factor always has the secret for it, however
\* enabling and disabling interleave.
THEOREM SecretIsKept == Spec => []TwoFactorHasSecret
<1>1. Inv => TwoFactorHasSecret
  BY DEF Inv, AccountSound, SecretSound, TwoFactorHasSecret
<1> QED
  BY <1>1, Invariance, PTL

\* A secret nobody has shown a code for is confirmed by overlaps only.
THEOREM ConfirmationsAreProved == Spec => []ConfirmedWasProved
<1>1. Inv => ConfirmedWasProved
  BY DEF Inv, Serial, SecretSerial, ConfirmedWasProved
<1> QED
  BY <1>1, Invariance, PTL

\* A reset token that sets two passwords, or stays open beside a later one,
\* comes of requests that overlapped.
THEOREM ResetsWorkOnce == Spec => []ResetsOnce
<1>1. Inv => ResetsOnce
  BY DEF Inv, Serial, ResetsSerial, ResetsOnce
<1> QED
  BY <1>1, Invariance, PTL

--------------------------------------------------------------------------
(* AccountEmail.                                                          *)

\* The type of the requests.
RequestRecord ==
  [stage: {"idle", "free", "refused", "issuing", "unneeded", "tokenless", "sending",
           "unsent", "answered", "found"},
   op: {"none", "register", "request", "update", "confirm"},
   user: Users \cup {None}, email: Addresses \cup {None}, seen: Addresses \cup {None},
   token: Tokens \cup {None}]

\* The table of tokens: a token is of an account and of an address of its own.
TokenSound(t) ==
  tokens[t] # NoToken => tokens[t].user \in Users /\ tokens[t].email \in Addresses

\* Whoever has not registered has no address and has proved none.
AccountAbsent(u) == ~accounts[u].there => accounts[u] = NoAccount /\ confirmed[u] = None

\* A request that asks for a verification, until it is answered.
Asking(c) ==
  \/ requests[c].stage \in {"free", "issuing", "tokenless", "sending", "unsent"}
  \/ requests[c].stage = "answered" /\ requests[c].op \in {"register", "request"}

\* A request that works with a token.
HasToken(c) ==
  \/ requests[c].stage \in {"sending", "unsent"}
  \/ requests[c].stage = "found" /\ requests[c].op = "confirm"

TokenOf(t, user, email) == tokens[t].user = user /\ tokens[t].email = email

\* What a request knows whatever the others do.
RequestSound(c) ==
  /\ Asking(c) => requests[c].user \in Users /\ requests[c].email \in Addresses
  /\ requests[c].stage = "found" =>
       /\ requests[c].op \in {"update", "confirm"}
       /\ requests[c].user \in Users /\ accounts[requests[c].user].there
  /\ HasToken(c) => requests[c].token \in Tokens
                    /\ tokens[requests[c].token].user = requests[c].user
  /\ requests[c].stage \in {"sending", "unsent"} =>
       tokens[requests[c].token].email = requests[c].email
  /\ requests[c].stage = "answered" /\ requests[c].op \in {"register", "request"} =>
       \E t \in Tokens : TokenOf(t, requests[c].user, requests[c].email)

\* No token is stored that was neither mailed nor is in the hands of the request
\* that stored it.
OnItsWay(t) ==
  \/ t \in mailed
  \/ \E d \in Requests : requests[d].token = t /\ requests[d].stage \in {"sending", "unsent"}

TokensKept == \A t \in Tokens : tokens[t] # NoToken => OnItsWay(t)

\* What a request knows while none has been raced: the address it compared is
\* still the account's when it writes.
Knows(c) ==
  requests[c].stage = "found" =>
    accounts[requests[c].user].email =
      IF requests[c].op = "update" THEN requests[c].seen ELSE tokens[requests[c].token].email

\* The inductive invariant.
EmailInv ==
  /\ EmailTypeOK
  /\ requests \in [Requests -> RequestRecord]
  /\ \A t \in Tokens : TokenSound(t)
  /\ \A u \in Users : AccountAbsent(u)
  /\ \A c \in Requests : RequestSound(c)
  /\ TokensKept
  /\ VerifiedAsProved
  /\ ~raced => \A c \in Requests : Knows(c)

(* Steps.                                                                 *)

\* Tokens keep their account and address, and accounts are there for good.
TablesGrow ==
  /\ \A u \in Users : accounts[u].there => accounts'[u].there
  /\ \A t \in Tokens : tokens[t] # NoToken =>
       tokens'[t].user = tokens[t].user /\ tokens'[t].email = tokens[t].email

\* What one request knows, another's step does not change.
LEMMA OthersSound ==
  ASSUME EmailInv, TablesGrow, NEW d \in Requests, requests'[d] = requests[d]
  PROVE  RequestSound(d)'
<1> DEFINE Q == requests[d]
<1>0. RequestSound(d) /\ Q \in RequestRecord /\ requests'[d] = Q
  BY DEF EmailInv
<1>1. ASSUME NEW t \in Tokens, tokens[t].user \in Users  PROVE tokens[t] # NoToken
  BY <1>1, NoneAssumption DEF NoToken
<1>2. Asking(d)' = Asking(d) /\ HasToken(d)' = HasToken(d)
  BY <1>0 DEF Asking, HasToken
<1>3. ASSUME HasToken(d)
      PROVE  /\ Q.token \in Tokens /\ tokens'[Q.token].user = Q.user
             /\ tokens'[Q.token].email = tokens[Q.token].email
  <2>1. Q.token \in Tokens /\ tokens[Q.token].user = Q.user /\ Q.user \in Users
    BY <1>0, <1>3 DEF RequestSound, HasToken, Asking
  <2>2. QED BY <2>1, <1>1 DEF TablesGrow
<1>4. ASSUME Q.stage = "answered", Q.op \in {"register", "request"}
      PROVE  \E t \in Tokens : tokens'[t].user = Q.user /\ tokens'[t].email = Q.email
  <2>1. PICK t \in Tokens : tokens[t].user = Q.user /\ tokens[t].email = Q.email
    BY <1>0, <1>4 DEF RequestSound, TokenOf
  <2>2. Q.user \in Users
    BY <1>0, <1>4 DEF RequestSound, Asking
  <2>3. QED BY <2>1, <2>2, <1>1 DEF TablesGrow
<1>5. Q.stage = "found" => Q.op \in {"update", "confirm"}
                           /\ Q.user \in Users /\ accounts'[Q.user].there
  BY <1>0 DEF RequestSound, TablesGrow
<1>6. Q.stage \in {"sending", "unsent"} => tokens'[Q.token].email = Q.email
  BY <1>0, <1>3 DEF RequestSound, HasToken
<1>7. QED
  BY <1>0, <1>2, <1>3, <1>4, <1>5, <1>6 DEF RequestSound, TokenOf

\* A request that only moves on keeps the invariant, if it knows what its stage
\* demands and no token is lost with it.
LEMMA RequestStep ==
  ASSUME EmailInv, NEW c \in Requests, NEW r \in RequestRecord,
         requests' = [requests EXCEPT ![c] = r],
         UNCHANGED <<accounts, tokens, mailed, confirmed, raced>>,
         RequestSound(c)', ~raced => Knows(c)',
         requests[c].stage \in {"sending", "unsent"} =>
           r.token = requests[c].token /\ r.stage \in {"sending", "unsent"}
  PROVE  EmailInv'
<1>1. requests' \in [Requests -> RequestRecord] /\ requests'[c] = r
      /\ \A d \in Requests \ {c} : requests'[d] = requests[d]
  BY DEF EmailInv
<1>2. EmailTypeOK' /\ VerifiedAsProved' /\ (\A t \in Tokens : TokenSound(t)')
      /\ \A u \in Users : AccountAbsent(u)'
  BY DEF EmailInv, EmailTypeOK, VerifiedAsProved, TokenSound, AccountAbsent
<1>3. \A d \in Requests : RequestSound(d)'
  BY <1>1, OthersSound DEF TablesGrow
<1>4. TokensKept'
  <2>1. ASSUME NEW t \in Tokens, tokens[t] # NoToken  PROVE OnItsWay(t)'
    <3>1. CASE t \in mailed
      BY <3>1 DEF OnItsWay
    <3>2. CASE \E d \in Requests : requests[d].token = t /\ requests[d].stage \in {"sending", "unsent"}
      BY <3>2, <1>1 DEF OnItsWay
    <3>3. QED BY <2>1, <3>1, <3>2 DEF EmailInv, TokensKept, OnItsWay
  <2>2. QED BY <2>1 DEF TokensKept
<1>5. ~raced' => \A d \in Requests : Knows(d)'
  BY <1>1 DEF EmailInv, Knows
<1>6. QED
  BY <1>1, <1>2, <1>3, <1>4, <1>5 DEF EmailInv

LEMMA EmailInvInit == EmailInit => EmailInv
<1> SUFFICES ASSUME EmailInit PROVE EmailInv
  OBVIOUS
<1>1. EmailTypeOK /\ requests \in [Requests -> RequestRecord]
  BY DEF EmailInit, EmailTypeOK, RequestRecord, NoAccount, NoToken, Idle
<1>2. (\A t \in Tokens : TokenSound(t)) /\ (\A u \in Users : AccountAbsent(u)) /\ TokensKept
  BY DEF EmailInit, TokenSound, AccountAbsent, TokensKept
<1>3. \A c \in Requests : RequestSound(c) /\ Knows(c)
  BY DEF EmailInit, RequestSound, Knows, Asking, HasToken, Idle
<1>4. VerifiedAsProved
  BY DEF EmailInit, VerifiedAsProved, NoAccount
<1>5. QED BY <1>1, <1>2, <1>3, <1>4 DEF EmailInv

\* register finds the name or the address, or is free to create.
LEMMA FindTakenInv ==
  ASSUME EmailInv, NEW c \in Requests, NEW user \in Users, NEW email \in Addresses,
         FindTaken(c, user, email)
  PROVE  EmailInv'
<1> DEFINE r == [Idle EXCEPT !.stage = IF accounts[user].there \/ Held(email)
                                      THEN "refused" ELSE "free",
                            !.op = "register", !.user = user, !.email = email]
<1>1. r \in RequestRecord /\ requests' = [requests EXCEPT ![c] = r] /\ requests'[c] = r
  BY DEF FindTaken, RequestRecord, Idle, EmailInv
<1>2. r.stage \in {"refused", "free"} /\ r.user = user /\ r.email = email
  BY DEF Idle
<1>3. RequestSound(c)' /\ Knows(c)'
  BY <1>1, <1>2 DEF RequestSound, Knows, Asking, HasToken
<1>4. QED
  BY <1>1, <1>3, RequestStep DEF FindTaken

LEMMA FindViewerInv ==
  ASSUME EmailInv, NEW c \in Requests, NEW user \in Users, FindViewer(c, user)
  PROVE  EmailInv'
<1> DEFINE email == accounts[user].email
           r == [Idle EXCEPT !.stage = IF email = None \/ accounts[user].verified
                                       THEN "unneeded" ELSE "issuing",
                             !.op = "request", !.user = user, !.email = email]
<1>1. email \in Addresses \cup {None}
  BY DEF EmailInv, EmailTypeOK
<1>2. r \in RequestRecord /\ requests' = [requests EXCEPT ![c] = r] /\ requests'[c] = r
  BY <1>1 DEF FindViewer, RequestRecord, Idle, EmailInv
<1>3. r.stage \in {"unneeded", "issuing"} /\ r.user = user /\ r.email = email
      /\ (r.stage = "issuing" => email # None)
  BY DEF Idle
<1>4. RequestSound(c)' /\ Knows(c)'
  BY <1>1, <1>2, <1>3 DEF RequestSound, Knows, Asking, HasToken
<1>5. QED
  BY <1>2, <1>4, RequestStep DEF FindViewer

LEMMA FindCurrentInv ==
  ASSUME EmailInv, NEW c \in Requests, NEW user \in Users,
         NEW email \in Addresses \cup {None}, FindCurrent(c, user, email)
  PROVE  EmailInv'
<1> DEFINE r == [Idle EXCEPT !.stage = "found", !.op = "update", !.user = user,
                             !.email = email, !.seen = accounts[user].email]
<1>1. r \in RequestRecord /\ requests' = [requests EXCEPT ![c] = r] /\ requests'[c] = r
  BY DEF FindCurrent, RequestRecord, Idle, EmailInv, EmailTypeOK
<1>2. r.stage = "found" /\ r.op = "update" /\ r.user = user /\ r.seen = accounts[user].email
  BY DEF Idle
<1>3. RequestSound(c)' /\ Knows(c)'
  BY <1>1, <1>2 DEF RequestSound, Knows, Asking, HasToken, FindCurrent
<1>4. QED
  BY <1>1, <1>3, RequestStep DEF FindCurrent

\* Only a token of the account's address is gone on with.
LEMMA FindTokenInv ==
  ASSUME EmailInv, NEW c \in Requests, NEW t \in Tokens, FindToken(c, t)
  PROVE  EmailInv'
<1> DEFINE user == tokens[t].user
           r == [Idle EXCEPT !.stage = IF Confirmable(tokens[t]) THEN "found" ELSE "refused",
                             !.op = "confirm", !.user = user, !.token = t]
<1>1. user \in Users /\ tokens[t].email \in Addresses
  BY DEF FindToken, EmailInv, EmailTypeOK, TokenSound
<1>2. r \in RequestRecord /\ requests' = [requests EXCEPT ![c] = r] /\ requests'[c] = r
  BY <1>1 DEF FindToken, RequestRecord, Idle, EmailInv
<1>3. r.stage \in {"refused", "found"} /\ r.op = "confirm" /\ r.user = user /\ r.token = t
      /\ (r.stage = "found" => accounts[user].email = tokens[t].email)
  BY DEF Idle, Confirmable
<1>4. accounts[user].email = tokens[t].email => accounts[user].there
  BY <1>1, NoneAssumption DEF EmailInv, AccountAbsent, NoAccount
<1>5. RequestSound(c)' /\ Knows(c)'
  BY <1>1, <1>2, <1>3, <1>4 DEF RequestSound, Knows, Asking, HasToken, FindToken
<1>6. QED
  BY <1>2, <1>5, RequestStep DEF FindToken

\* A refusal needs nothing of the request, but that it has no token in hand.
LEMMA RefusalStep ==
  ASSUME EmailInv, NEW c \in Requests, requests[c].stage \notin {"sending", "unsent"},
         Reject(c), UNCHANGED <<accounts, tokens, mailed, confirmed, raced>>
  PROVE  EmailInv'
<1> DEFINE r == [requests[c] EXCEPT !.stage = "refused"]
<1>1. r \in RequestRecord /\ requests' = [requests EXCEPT ![c] = r] /\ requests'[c] = r
      /\ r.stage = "refused"
  BY DEF Reject, Advance, RequestRecord, EmailInv
<1>2. RequestSound(c)' /\ Knows(c)'
  BY <1>1 DEF RequestSound, Knows, Asking, HasToken
<1>3. QED BY <1>1, <1>2, RequestStep

\* Nobody waits for an address that is not there yet: the account is new.
LEMMA CreateAccountInv ==
  ASSUME EmailInv, NEW c \in Requests, CreateAccount(c)
  PROVE  EmailInv'
<1> DEFINE user == requests[c].user
           email == requests[c].email
           r == [requests[c] EXCEPT !.stage = "issuing"]
<1>1. requests[c] \in RequestRecord /\ RequestSound(c) /\ requests[c].stage = "free"
      /\ user \in Users /\ email \in Addresses
  BY DEF CreateAccount, EmailInv, RequestSound, Asking
<1>2. CASE ~(~accounts[user].there /\ KeyHolds(user, email))
  BY <1>1, <1>2, RefusalStep DEF CreateAccount
<1>3. CASE ~accounts[user].there /\ KeyHolds(user, email)
  <2>1. /\ accounts' = [accounts EXCEPT
             ![user] = [there |-> TRUE, email |-> email, verified |-> FALSE]]
        /\ requests' = [requests EXCEPT ![c] = r]
        /\ UNCHANGED <<tokens, mailed, confirmed, raced>>
    BY <1>3 DEF CreateAccount, Advance
  <2>2. /\ requests' \in [Requests -> RequestRecord] /\ requests'[c] = r
        /\ r.stage = "issuing" /\ r.user = user /\ r.email = email
        /\ \A d \in Requests \ {c} : requests'[d] = requests[d]
    BY <1>1, <2>1 DEF EmailInv, RequestRecord
  <2>3. accounts[user] = NoAccount /\ confirmed[user] = None
    BY <1>1, <1>3 DEF EmailInv, AccountAbsent
  <2>4. /\ accounts'[user] = [there |-> TRUE, email |-> email, verified |-> FALSE]
        /\ \A u \in Users \ {user} : accounts'[u] = accounts[u]
    BY <1>1, <2>1 DEF EmailInv, EmailTypeOK
  <2>5. EmailTypeOK'
    BY <1>1, <2>1 DEF EmailInv, EmailTypeOK
  <2>6. (\A t \in Tokens : TokenSound(t)') /\ \A u \in Users : AccountAbsent(u)'
    BY <2>1, <2>4 DEF EmailInv, TokenSound, AccountAbsent
  <2>7. TablesGrow
    BY <2>1, <2>4 DEF TablesGrow
  <2>8. RequestSound(c)'
    BY <1>1, <2>2 DEF RequestSound, Asking, HasToken
  <2>9. \A d \in Requests : RequestSound(d)'
    BY <2>2, <2>7, <2>8, OthersSound
  <2>10. TokensKept'
    BY <1>1, <2>1, <2>2 DEF EmailInv, TokensKept, OnItsWay
  <2>11. VerifiedAsProved'
    BY <2>1, <2>3, <2>4 DEF EmailInv, VerifiedAsProved
  <2>12. ASSUME NEW d \in Requests, ~raced  PROVE Knows(d)'
    <3>1. CASE d = c
      BY <2>2, <3>1 DEF Knows
    <3>2. CASE d # c /\ requests[d].stage = "found"
      <4>1. requests[d].user \in Users \ {user}
        BY <1>3, <3>2 DEF EmailInv, RequestSound
      <4>2. QED BY <2>1, <2>2, <2>4, <2>12, <3>2, <4>1 DEF EmailInv, Knows
    <3>3. QED BY <2>2, <3>1, <3>2 DEF Knows
  <2>13. QED
    BY <2>1, <2>2, <2>5, <2>6, <2>9, <2>10, <2>11, <2>12 DEF EmailInv
<1>4. QED BY <1>2, <1>3

LEMMA FindPendingInv ==
  ASSUME EmailInv, NEW c \in Requests, FindPending(c)
  PROVE  EmailInv'
<1> DEFINE Q == requests[c]
           r == [Q EXCEPT !.stage = IF Pending(Q.user, Q.email) # {}
                                    THEN "answered" ELSE "tokenless"]
<1>1. Q \in RequestRecord /\ RequestSound(c) /\ Q.stage = "issuing"
      /\ Q.user \in Users /\ Q.email \in Addresses
  BY DEF FindPending, EmailInv, RequestSound, Asking
<1>2. r \in RequestRecord /\ requests' = [requests EXCEPT ![c] = r] /\ requests'[c] = r
      /\ r.user = Q.user /\ r.email = Q.email /\ r.stage \in {"answered", "tokenless"}
      /\ (r.stage = "answered" => Pending(Q.user, Q.email) # {})
  BY <1>1 DEF FindPending, Advance, RequestRecord, EmailInv
<1>3. r.stage = "answered" => \E t \in Tokens : TokenOf(t, Q.user, Q.email)
  BY <1>2 DEF Pending, TokenOf
<1>4. RequestSound(c)' /\ Knows(c)'
  BY <1>1, <1>2, <1>3 DEF RequestSound, Knows, Asking, HasToken, TokenOf, FindPending
<1>5. QED
  BY <1>1, <1>2, <1>4, RequestStep DEF FindPending

\* The token that is stored is in the hands of the request that will mail it.
LEMMA CreateTokenInv ==
  ASSUME EmailInv, NEW c \in Requests, CreateToken(c)
  PROVE  EmailInv'
<1> DEFINE Q == requests[c]
<1>1. Q \in RequestRecord /\ RequestSound(c) /\ Q.stage = "tokenless"
      /\ Q.user \in Users /\ Q.email \in Addresses
  BY DEF CreateToken, EmailInv, RequestSound, Asking
<1>2. PICK t \in Tokens :
        /\ tokens[t] = NoToken
        /\ tokens' = [tokens EXCEPT ![t] = [NoToken EXCEPT !.user = Q.user, !.email = Q.email]]
        /\ requests' = [requests EXCEPT ![c].token = t, ![c].stage = "sending"]
  BY DEF CreateToken
<1> DEFINE new == [NoToken EXCEPT !.user = Q.user, !.email = Q.email]
           r == [Q EXCEPT !.token = t, !.stage = "sending"]
<1>3. /\ requests' = [requests EXCEPT ![c] = r]
      /\ requests' \in [Requests -> RequestRecord] /\ requests'[c] = r
      /\ r.stage = "sending" /\ r.user = Q.user /\ r.email = Q.email /\ r.token = t
      /\ \A d \in Requests \ {c} : requests'[d] = requests[d]
  BY <1>1, <1>2 DEF EmailInv, RequestRecord
<1>4. /\ tokens'[t] = new /\ new.user = Q.user /\ new.email = Q.email
      /\ \A other \in Tokens \ {t} : tokens'[other] = tokens[other]
  BY <1>2 DEF EmailInv, EmailTypeOK, NoToken
<1>5. UNCHANGED <<accounts, mailed, confirmed, raced>>
  BY DEF CreateToken
<1>6. EmailTypeOK'
  <2>1. tokens' \in [Tokens -> [user: Users \cup {None}, email: Addresses \cup {None},
                                used: BOOLEAN, expired: BOOLEAN]]
    BY <1>1, <1>2 DEF EmailInv, EmailTypeOK, NoToken
  <2>2. mailed' \subseteq {x \in Tokens : tokens'[x] # NoToken}
    BY <1>2, <1>4, <1>5 DEF EmailInv, EmailTypeOK
  <2>3. QED BY <1>5, <2>1, <2>2 DEF EmailInv, EmailTypeOK
<1>7. (\A x \in Tokens : TokenSound(x)') /\ (\A u \in Users : AccountAbsent(u)') /\ TablesGrow
  BY <1>1, <1>2, <1>4, <1>5 DEF EmailInv, TokenSound, AccountAbsent, TablesGrow
<1>8. RequestSound(c)'
  <2>1. /\ requests'[c].stage = "sending" /\ requests'[c].token = t
        /\ requests'[c].user = Q.user /\ requests'[c].email = Q.email
    BY <1>3
  <2>2. tokens'[t].user = Q.user /\ tokens'[t].email = Q.email
    BY <1>4
  <2>3. QED BY <1>1, <2>1, <2>2 DEF RequestSound, Asking, HasToken
<1>9. \A d \in Requests : RequestSound(d)'
  BY <1>3, <1>7, <1>8, OthersSound
<1>10. TokensKept'
  <2>1. OnItsWay(t)'
    BY <1>3 DEF OnItsWay
  <2>2. ASSUME NEW x \in Tokens \ {t}, tokens'[x] # NoToken  PROVE OnItsWay(x)'
    <3>1. OnItsWay(x)
      BY <1>4, <2>2 DEF EmailInv, TokensKept
    <3>2. QED BY <1>1, <1>3, <1>5, <3>1 DEF OnItsWay
  <2>3. QED BY <2>1, <2>2 DEF TokensKept
<1>11. VerifiedAsProved'
  BY <1>5 DEF EmailInv, VerifiedAsProved
<1>12. ASSUME NEW d \in Requests, ~raced  PROVE Knows(d)'
  <2>1. CASE d = c
    BY <1>3, <2>1 DEF Knows
  <2>2. CASE d # c /\ requests[d].stage = "found"
    <3>1. requests[d].op = "confirm" =>
            requests[d].token \in Tokens /\ tokens[requests[d].token].user # None
      BY <2>2, NoneAssumption DEF EmailInv, RequestSound, HasToken
    <3>2. requests[d].op = "confirm" => requests[d].token \in Tokens \ {t}
      BY <1>2, <3>1 DEF NoToken
    <3>3. requests[d].op \in {"update", "confirm"}
      BY <2>2 DEF EmailInv, RequestSound
    <3>4. QED BY <1>3, <1>4, <1>5, <1>12, <2>2, <3>2, <3>3 DEF EmailInv, Knows
  <2>3. QED BY <1>3, <2>1, <2>2 DEF Knows
<1>13. QED
  BY <1>3, <1>5, <1>6, <1>7, <1>9, <1>10, <1>11, <1>12 DEF EmailInv

LEMMA SendMailInv ==
  ASSUME EmailInv, NEW c \in Requests, SendMail(c)
  PROVE  EmailInv'
<1> DEFINE Q == requests[c]
           r == [Q EXCEPT !.stage = "answered"]
<1>1. /\ Q \in RequestRecord /\ Q.stage = "sending" /\ Q.user \in Users /\ Q.email \in Addresses
      /\ Q.token \in Tokens /\ TokenOf(Q.token, Q.user, Q.email)
  BY DEF SendMail, EmailInv, RequestSound, Asking, HasToken, TokenOf
<1>2. /\ requests' = [requests EXCEPT ![c] = r]
      /\ requests' \in [Requests -> RequestRecord] /\ requests'[c] = r
      /\ r.stage = "answered" /\ r.user = Q.user /\ r.email = Q.email
      /\ \A d \in Requests \ {c} : requests'[d] = requests[d]
  BY <1>1 DEF SendMail, Advance, EmailInv, RequestRecord
<1>3. mailed' = mailed \cup {Q.token} /\ UNCHANGED <<accounts, tokens, confirmed, raced>>
  BY DEF SendMail
<1>4. tokens[Q.token] # NoToken
  BY <1>1, NoneAssumption DEF TokenOf, NoToken
<1>5. EmailTypeOK' /\ VerifiedAsProved' /\ TablesGrow
      /\ (\A x \in Tokens : TokenSound(x)') /\ \A u \in Users : AccountAbsent(u)'
  BY <1>1, <1>3, <1>4
  DEF EmailInv, EmailTypeOK, VerifiedAsProved, TokenSound, AccountAbsent, TablesGrow
<1>6. RequestSound(c)'
  BY <1>1, <1>2, <1>3 DEF RequestSound, Asking, HasToken, TokenOf
<1>7. \A d \in Requests : RequestSound(d)'
  BY <1>2, <1>5, <1>6, OthersSound
<1>8. TokensKept'
  BY <1>2, <1>3 DEF EmailInv, TokensKept, OnItsWay
<1>9. ~raced' => \A d \in Requests : Knows(d)'
  BY <1>2, <1>3 DEF EmailInv, Knows
<1>10. QED
  BY <1>2, <1>3, <1>5, <1>7, <1>8, <1>9 DEF EmailInv

\* The transport throws: the request keeps the token it could not mail.
LEMMA MailFailsInv ==
  ASSUME EmailInv, NEW c \in Requests, MailFails(c)
  PROVE  EmailInv'
<1> DEFINE r == [requests[c] EXCEPT !.stage = "unsent"]
<1>1. requests[c] \in RequestRecord /\ RequestSound(c) /\ requests[c].stage = "sending"
  BY DEF MailFails, EmailInv
<1>2. r \in RequestRecord /\ requests' = [requests EXCEPT ![c] = r] /\ requests'[c] = r
      /\ r.stage = "unsent" /\ r.user = requests[c].user /\ r.email = requests[c].email
      /\ r.token = requests[c].token
  BY <1>1 DEF MailFails, Advance, RequestRecord, EmailInv
<1>3. RequestSound(c)' /\ Knows(c)'
  BY <1>1, <1>2 DEF RequestSound, Knows, Asking, HasToken, MailFails
<1>4. QED BY <1>1, <1>2, <1>3, RequestStep DEF MailFails

\* Another request of the account has not looked yet, or a race is on record, or
\* the address is the one that is there: only then is a mark kept.
LEMMA UpdateAddressInv ==
  ASSUME EmailInv, NEW c \in Requests, UpdateAddress(c)
  PROVE  EmailInv'
<1> DEFINE Q == requests[c]
           user == Q.user
           changed == accounts[user].email # Q.email
           between == \E d \in Requests \ {c} :
                        requests[d].stage = "found" /\ requests[d].user = user
           r == [Q EXCEPT !.stage = "answered"]
<1>1. Q \in RequestRecord /\ Q.stage = "found" /\ Q.op = "update"
      /\ user \in Users /\ accounts[user].there
  BY DEF UpdateAddress, EmailInv, RequestSound
<1>2. CASE ~KeyHolds(user, Q.email)
  BY <1>1, <1>2, RefusalStep DEF UpdateAddress
<1>3. CASE KeyHolds(user, Q.email)
  <2>1. /\ accounts' = [accounts EXCEPT ![user].email = Q.email,
                                        ![user].verified = VerifiedAfter(Q)]
        /\ confirmed' = [confirmed EXCEPT ![user] = IF changed THEN None ELSE @]
        /\ raced' = (raced \/ (changed /\ between))
        /\ requests' = [requests EXCEPT ![c] = r]
        /\ UNCHANGED <<tokens, mailed>>
    BY <1>3 DEF UpdateAddress, Advance
  <2>2. /\ requests' \in [Requests -> RequestRecord] /\ requests'[c] = r
        /\ r.stage = "answered" /\ r.op = "update"
        /\ \A d \in Requests \ {c} : requests'[d] = requests[d]
    BY <1>1, <2>1 DEF EmailInv, RequestRecord
  <2>3. VerifiedAfter(Q) = (accounts[user].verified /\ Q.seen = Q.email)
        /\ VerifiedAfter(Q) \in BOOLEAN
    BY <1>1 DEF VerifiedAfter, EmailInv, EmailTypeOK
  <2>4. /\ accounts'[user].email = Q.email /\ accounts'[user].there
        /\ accounts'[user].verified = VerifiedAfter(Q)
        /\ \A u \in Users \ {user} : accounts'[u] = accounts[u] /\ confirmed'[u] = confirmed[u]
        /\ confirmed'[user] = IF changed THEN None ELSE confirmed[user]
    BY <1>1, <2>1 DEF EmailInv, EmailTypeOK
  <2>5. EmailTypeOK'
    BY <1>1, <2>1, <2>3 DEF EmailInv, EmailTypeOK, RequestRecord
  <2>6. (\A t \in Tokens : TokenSound(t)') /\ (\A u \in Users : AccountAbsent(u)') /\ TablesGrow
    BY <2>1, <2>4 DEF EmailInv, TokenSound, AccountAbsent, TablesGrow
  <2>7. RequestSound(c)'
    BY <2>2 DEF RequestSound, Asking, HasToken
  <2>8. \A d \in Requests : RequestSound(d)'
    BY <2>2, <2>6, <2>7, OthersSound
  <2>9. TokensKept'
    BY <1>1, <2>1, <2>2 DEF EmailInv, TokensKept, OnItsWay
  <2>10. VerifiedAsProved'
    <3>1. ASSUME ~raced'
          PROVE  accounts'[user].verified <=>
                   confirmed'[user] # None /\ confirmed'[user] = accounts'[user].email
      <4>1. Q.seen = accounts[user].email
        BY <1>1, <2>1, <3>1 DEF EmailInv, Knows
      <4>2. accounts[user].verified <=>
              confirmed[user] # None /\ confirmed[user] = accounts[user].email
        BY <1>1, <2>1, <3>1 DEF EmailInv, VerifiedAsProved
      <4> QED BY <2>3, <2>4, <4>1, <4>2
    <3>2. ASSUME ~raced', NEW u \in Users \ {user}
          PROVE  accounts'[u].verified <=>
                   confirmed'[u] # None /\ confirmed'[u] = accounts'[u].email
      <4>1. accounts[u].verified <=> confirmed[u] # None /\ confirmed[u] = accounts[u].email
        BY <2>1, <3>2 DEF EmailInv, VerifiedAsProved
      <4> QED BY <2>4, <4>1
    <3>3. ASSUME ~raced', NEW u \in Users
          PROVE  accounts'[u].verified <=>
                   confirmed'[u] # None /\ confirmed'[u] = accounts'[u].email
      <4>1. CASE u = user
        BY <3>1, <3>3, <4>1
      <4>2. CASE u # user
        BY <3>2, <3>3, <4>2
      <4> QED BY <4>1, <4>2
    <3> QED BY <3>3 DEF VerifiedAsProved
  <2>11. ASSUME NEW d \in Requests, ~raced'  PROVE Knows(d)'
    <3>1. CASE d = c
      BY <2>2, <3>1 DEF Knows
    <3>2. CASE d # c /\ requests[d].stage = "found"
      <4>1. Knows(d) /\ requests[d].user \in Users
        BY <2>1, <2>11, <3>2 DEF EmailInv, RequestSound
      <4>2. requests[d].user = user => accounts'[user].email = accounts[user].email
        BY <2>1, <2>4, <2>11, <3>2
      <4>3. /\ requests'[d] = requests[d] /\ tokens' = tokens
            /\ accounts'[requests[d].user].email = accounts[requests[d].user].email
        BY <2>1, <2>2, <2>4, <3>2, <4>1, <4>2
      <4>4. QED BY <4>1, <4>3 DEF Knows
    <3>3. QED BY <2>2, <3>1, <3>2 DEF Knows
  <2>12. QED
    BY <2>2, <2>5, <2>6, <2>8, <2>9, <2>10, <2>11 DEF EmailInv
<1>4. QED BY <1>2, <1>3

\* The token confirms its own address, which is the account's unless raced.
LEMMA ConfirmAddressInv ==
  ASSUME EmailInv, NEW c \in Requests, ConfirmAddress(c)
  PROVE  EmailInv'
<1> DEFINE Q == requests[c]
           user == Q.user
           r == [Q EXCEPT !.stage = "answered"]
<1>1. /\ Q \in RequestRecord /\ Q.stage = "found" /\ Q.op = "confirm"
      /\ user \in Users /\ accounts[user].there
      /\ Q.token \in Tokens /\ tokens[Q.token].user = user
  BY DEF ConfirmAddress, EmailInv, RequestSound, HasToken
<1>2. tokens[Q.token] # NoToken /\ tokens[Q.token].email \in Addresses
  BY <1>1, NoneAssumption DEF EmailInv, TokenSound, NoToken
<1>3. /\ accounts' = [accounts EXCEPT ![user].verified = TRUE]
      /\ tokens' = [tokens EXCEPT ![Q.token].used = TRUE]
      /\ confirmed' = [confirmed EXCEPT ![user] = tokens[Q.token].email]
      /\ requests' = [requests EXCEPT ![c] = r]
      /\ UNCHANGED <<mailed, raced>>
  BY DEF ConfirmAddress, Advance
<1>4. /\ requests' \in [Requests -> RequestRecord] /\ requests'[c] = r
      /\ r.stage = "answered" /\ r.op = "confirm"
      /\ \A d \in Requests \ {c} : requests'[d] = requests[d]
  BY <1>1, <1>3 DEF EmailInv, RequestRecord
<1>5. \A t \in Tokens : /\ tokens'[t].user = tokens[t].user
                        /\ tokens'[t].email = tokens[t].email
                        /\ tokens[t] = NoToken => tokens'[t] = NoToken
                        /\ tokens[t] # NoToken => tokens'[t] # NoToken
  <2>1. \A t \in Tokens : tokens[t] # NoToken => tokens[t].user # None
    BY NoneAssumption DEF EmailInv, TokenSound
  <2>2. \A t \in Tokens : /\ tokens'[t].user = tokens[t].user
                          /\ tokens'[t].email = tokens[t].email
                          /\ t # Q.token => tokens'[t] = tokens[t]
    BY <1>1, <1>3 DEF EmailInv, EmailTypeOK
  <2>3. ASSUME NEW t \in Tokens, tokens[t] # NoToken  PROVE tokens'[t] # NoToken
    <3>1. tokens[t].user # None
      BY <2>1, <2>3
    <3>2. tokens'[t].user # None
      BY <2>2, <3>1
    <3>3. QED BY <3>2 DEF NoToken
  <2>4. ASSUME NEW t \in Tokens, tokens[t] = NoToken  PROVE tokens'[t] = NoToken
    BY <1>2, <2>2, <2>4
  <2>5. QED BY <2>2, <2>3, <2>4
<1>6. /\ accounts'[user] = [accounts[user] EXCEPT !.verified = TRUE]
      /\ accounts'[user].verified /\ accounts'[user].there
      /\ confirmed'[user] = tokens[Q.token].email
      /\ \A u \in Users : accounts'[u].there = accounts[u].there
                          /\ accounts'[u].email = accounts[u].email
      /\ \A u \in Users \ {user} : accounts'[u] = accounts[u] /\ confirmed'[u] = confirmed[u]
  BY <1>1, <1>3 DEF EmailInv, EmailTypeOK
<1>7. EmailTypeOK'
  <2>1. accounts' \in [Users -> [there: BOOLEAN, email: Addresses \cup {None},
                                 verified: BOOLEAN]]
    <3> DEFINE a == [accounts[user] EXCEPT !.verified = TRUE]
    <3>0. accounts[user] \in [there: BOOLEAN, email: Addresses \cup {None},
                              verified: BOOLEAN]
      BY <1>1 DEF EmailInv, EmailTypeOK
    <3>1. a \in [there: BOOLEAN, email: Addresses \cup {None}, verified: BOOLEAN]
      BY <3>0
    <3>2. accounts' = [accounts EXCEPT ![user] = a]
      BY <1>3
    <3> HIDE DEF a
    <3>3. QED BY <3>1, <3>2 DEF EmailInv, EmailTypeOK
  <2>2. tokens' \in [Tokens -> [user: Users \cup {None}, email: Addresses \cup {None},
                                used: BOOLEAN, expired: BOOLEAN]]
    <3> DEFINE k == [tokens[Q.token] EXCEPT !.used = TRUE]
    <3>1. tokens[Q.token] \in [user: Users \cup {None}, email: Addresses \cup {None},
                               used: BOOLEAN, expired: BOOLEAN]
      BY <1>1 DEF EmailInv, EmailTypeOK
    <3>2. k \in [user: Users \cup {None}, email: Addresses \cup {None},
                 used: BOOLEAN, expired: BOOLEAN]
      BY <3>1
    <3>3. tokens' = [tokens EXCEPT ![Q.token] = k]
      BY <1>3
    <3> HIDE DEF k
    <3>4. QED BY <3>2, <3>3 DEF EmailInv, EmailTypeOK
  <2>3. confirmed' \in [Users -> Addresses \cup {None}]
    BY <1>1, <1>2, <1>3 DEF EmailInv, EmailTypeOK
  <2>4. mailed' \subseteq {t \in Tokens : tokens'[t] # NoToken}
    BY <1>3, <1>5 DEF EmailInv, EmailTypeOK
  <2>5. QED BY <1>3, <2>1, <2>2, <2>3, <2>4 DEF EmailInv, EmailTypeOK
<1>8. (\A t \in Tokens : TokenSound(t)') /\ (\A u \in Users : AccountAbsent(u)') /\ TablesGrow
  BY <1>1, <1>5, <1>6 DEF EmailInv, TokenSound, AccountAbsent, TablesGrow
<1>9. RequestSound(c)'
  BY <1>4 DEF RequestSound, Asking, HasToken
<1>10. \A d \in Requests : RequestSound(d)'
  BY <1>4, <1>8, <1>9, OthersSound
<1>11. TokensKept'
  BY <1>1, <1>3, <1>4, <1>5 DEF EmailInv, TokensKept, OnItsWay
<1>12. VerifiedAsProved'
  <2>1. SUFFICES ASSUME ~raced
                 PROVE  confirmed'[user] # None /\ confirmed'[user] = accounts'[user].email
    BY <1>3, <1>6 DEF EmailInv, VerifiedAsProved
  <2>2. accounts[user].email = tokens[Q.token].email
    BY <1>1, <2>1 DEF EmailInv, Knows
  <2>3. QED BY <1>1, <1>2, <1>6, <2>2, NoneAssumption
<1>13. ASSUME NEW d \in Requests, ~raced  PROVE Knows(d)'
  <2>1. CASE d = c
    BY <1>4, <2>1 DEF Knows
  <2>2. CASE d # c /\ requests[d].stage = "found"
    <3>1. Knows(d) /\ requests[d].user \in Users /\ requests[d].op \in {"update", "confirm"}
          /\ (requests[d].op = "confirm" => requests[d].token \in Tokens)
      BY <1>13, <2>2 DEF EmailInv, RequestSound, HasToken
    <3>2. QED BY <1>4, <1>5, <1>6, <2>2, <3>1 DEF Knows
  <2>3. QED BY <1>4, <2>1, <2>2 DEF Knows
<1>14. QED
  BY <1>3, <1>4, <1>7, <1>8, <1>10, <1>11, <1>12, <1>13 DEF EmailInv

LEMMA ExpireTokenInv ==
  ASSUME EmailInv, NEW t \in Tokens, ExpireToken(t)
  PROVE  EmailInv'
<1>1. /\ tokens[t].user # None
      /\ tokens' = [tokens EXCEPT ![t].expired = TRUE]
      /\ UNCHANGED <<accounts, mailed, requests, confirmed, raced>>
  BY DEF ExpireToken
<1>2. \A x \in Tokens : /\ tokens'[x].user = tokens[x].user
                        /\ tokens'[x].email = tokens[x].email
                        /\ x # t => tokens'[x] = tokens[x]
  BY <1>1 DEF EmailInv, EmailTypeOK
<1>3. tokens[t] # NoToken /\ tokens'[t] # NoToken
  BY <1>1, <1>2 DEF NoToken
<1>4. EmailTypeOK'
  <2>1. tokens' \in [Tokens -> [user: Users \cup {None}, email: Addresses \cup {None},
                                used: BOOLEAN, expired: BOOLEAN]]
    BY <1>1 DEF EmailInv, EmailTypeOK
  <2>2. mailed' \subseteq {x \in Tokens : tokens'[x] # NoToken}
    BY <1>1, <1>2, <1>3 DEF EmailInv, EmailTypeOK
  <2>3. QED BY <1>1, <2>1, <2>2 DEF EmailInv, EmailTypeOK
<1>5. (\A x \in Tokens : TokenSound(x)') /\ (\A u \in Users : AccountAbsent(u)') /\ TablesGrow
      /\ VerifiedAsProved' /\ TokensKept'
  BY <1>1, <1>2, <1>3
  DEF EmailInv, TokenSound, AccountAbsent, TablesGrow, VerifiedAsProved, TokensKept, OnItsWay
<1>6. \A d \in Requests : RequestSound(d)'
  BY <1>1, <1>5, OthersSound
<1>7. ~raced' => \A d \in Requests : Knows(d)'
  <2>1. SUFFICES ASSUME ~raced, NEW d \in Requests, requests[d].stage = "found"
                 PROVE  Knows(d)'
    BY <1>1 DEF Knows
  <2>2. Knows(d) /\ requests[d].op \in {"update", "confirm"}
        /\ (requests[d].op = "confirm" => requests[d].token \in Tokens)
    BY <2>1 DEF EmailInv, RequestSound, HasToken
  <2>3. QED BY <1>1, <1>2, <2>1, <2>2 DEF Knows
<1>8. QED
  BY <1>1, <1>4, <1>5, <1>6, <1>7 DEF EmailInv

LEMMA EmailInvNext == EmailInv /\ [EmailNext]_emailVars => EmailInv'
<1> SUFFICES ASSUME EmailInv, [EmailNext]_emailVars  PROVE EmailInv'
  OBVIOUS
<1>1. ASSUME NEW c \in Requests, Arrive(c)  PROVE EmailInv'
  BY <1>1, FindTakenInv, FindViewerInv, FindCurrentInv, FindTokenInv DEF Arrive
<1>2. ASSUME NEW c \in Requests, Serve(c)  PROVE EmailInv'
  BY <1>2, CreateAccountInv, FindPendingInv, CreateTokenInv, SendMailInv, MailFailsInv,
     UpdateAddressInv, ConfirmAddressInv DEF Serve
<1>3. CASE UNCHANGED emailVars
  BY <1>3 DEF emailVars, EmailInv, EmailTypeOK, TokenSound, AccountAbsent, RequestSound,
     Asking, HasToken, TokenOf, TokensKept, OnItsWay, VerifiedAsProved, Knows
<1>4. QED BY <1>1, <1>2, <1>3, ExpireTokenInv DEF EmailNext

\* The invariant of the addresses holds, for any accounts, tokens and requests.
THEOREM EmailInvariance == EmailSpec => []EmailInv
<1>1. QED BY EmailInvInit, EmailInvNext, PTL DEF EmailSpec

\* Every variable has its type, and only stored tokens are mailed.
THEOREM EmailTypeCorrect == EmailSpec => []EmailTypeOK
<1>1. EmailInv => EmailTypeOK
  BY DEF EmailInv
<1>2. QED BY <1>1, EmailInvariance, PTL

\* As long as no address was changed between another request's lookup and its
\* write, an account is verified exactly while it has the address it confirmed.
THEOREM VerificationIsProof == EmailSpec => []VerifiedAsProved
<1>1. EmailInv => VerifiedAsProved
  BY DEF EmailInv
<1>2. QED BY <1>1, EmailInvariance, PTL

\* Whoever was answered that a verification was asked for has a token for the
\* address of the request, and it was mailed, is on its way, or was lost by the
\* transport at the request that stored it.
THEOREM AnswersHaveTokens == EmailSpec => []AskedIsMailed
<1>1. ASSUME EmailInv  PROVE AskedIsMailed
  <2>1. SUFFICES ASSUME NEW c \in Requests, requests[c].stage = "answered",
                        requests[c].op \in {"register", "request"}
                 PROVE  \E t \in Tokens : /\ TokenOf(t, requests[c].user, requests[c].email)
                                          /\ OnItsWay(t)
    BY DEF AskedIsMailed, TokenOf, OnItsWay
  <2>2. PICK t \in Tokens : TokenOf(t, requests[c].user, requests[c].email)
    BY <1>1, <2>1 DEF EmailInv, RequestSound
  <2>3. requests[c].user \in Users
    BY <1>1, <2>1 DEF EmailInv, RequestSound, Asking
  <2>4. tokens[t] # NoToken
    BY <2>2, <2>3, NoneAssumption DEF TokenOf, NoToken
  <2>5. QED BY <1>1, <2>2, <2>4 DEF EmailInv, TokensKept
<1>2. QED BY <1>1, EmailInvariance, PTL


==========================================================================
