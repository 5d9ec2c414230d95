-------------------------- MODULE AccountEmail ---------------------------
(* The email addresses of the accounts: registration, the change of an    *)
(* address in the profile, and its verification by a token that is mailed *)
(* to it (auth.service.ts, users.service.ts).  Only an account with a     *)
(* verified address may publish.                                          *)
(*                                                                        *)
(* Every await is a step, and a request that takes no further step has    *)
(* died.  Hashes, sessions and audit records are left out: nothing here   *)
(* reads them.                                                            *)

CONSTANTS
  Users,      \* the accounts there may be, each with its username
  Addresses,  \* the email addresses, each with its mailbox
  Tokens,     \* the verification tokens there may be
  Requests,      \* the requests that may arrive; each runs once
  None        \* no user, address or token

ASSUME NoneAssumption == None \notin Users \cup Addresses \cup Tokens

VARIABLES
  accounts,   \* the table of users
  tokens,     \* the table of verification tokens
  mailed,     \* the tokens that have been mailed to their addresses
  requests,      \* the requests, with what each has read
  confirmed,     \* history: the address each account has confirmed since it was set
  raced       \* history: has an address been changed while another request of the
              \* account was between its lookup and its write?

emailVars == <<accounts, tokens, mailed, requests, confirmed, raced>>

--------------------------------------------------------------------------
(* Data.                                                                  *)

NoAccount == [there |-> FALSE, email |-> None, verified |-> FALSE]

NoToken == [user |-> None, email |-> None, used |-> FALSE, expired |-> FALSE]

\* "email" is the address asked for, found or mailed to; "seen" the one that
\* an edit of the profile has read.
Idle == [stage |-> "idle", op |-> "none", user |-> None, email |-> None,
         seen |-> None, token |-> None]

--------------------------------------------------------------------------
(* Helpers.  A "variant" is a plausible mistake in the code that nothing  *)
(* uses; in place of the helper after it, it must break a property.       *)

Held(email) == \E u \in Users : accounts[u].email = email

\* The unique key on the address; accounts without one do not meet.
KeyHolds(user, email) ==
  email = None \/ \A other \in Users \ {user} : accounts[other].email # email

\* Variant: the pending token of any address will do.
PendingForUser(user, email) ==
  {t \in Tokens : tokens[t].user = user /\ ~tokens[t].used /\ ~tokens[t].expired}

\* The lookup of issueEmailVerification.
Pending(user, email) ==
  {t \in Tokens : /\ tokens[t].user = user /\ tokens[t].email = email
                  /\ ~tokens[t].used /\ ~tokens[t].expired}

\* Variant: a token works for whatever address the account has.
AnyAddress(token) == ~token.used /\ ~token.expired

\* The conditions of confirmEmailVerification.
Confirmable(token) ==
  /\ ~token.used /\ ~token.expired
  /\ accounts[token.user].email = token.email

\* The verification of an account whose address is written.
VerifiedAfter(call) == accounts[call.user].verified /\ call.seen = call.email

--------------------------------------------------------------------------
EmailInit ==
  /\ accounts = [u \in Users |-> NoAccount]
  /\ tokens = [t \in Tokens |-> NoToken]
  /\ mailed = {}
  /\ requests = [c \in Requests |-> Idle]
  /\ confirmed = [u \in Users |-> None]
  /\ raced = FALSE

Advance(c, stage) == requests' = [requests EXCEPT ![c].stage = stage]

Reject(c) == Advance(c, "refused")

\* register looks for an account of the name or the address.
FindTaken(c, user, email) ==
  /\ requests[c].stage = "idle"
  /\ requests' = [requests EXCEPT
       ![c] = [Idle EXCEPT !.stage = IF accounts[user].there \/ Held(email)
                                     THEN "refused" ELSE "free",
                           !.op = "register", !.user = user, !.email = email]]
  /\ UNCHANGED <<accounts, tokens, mailed, confirmed, raced>>

\* After the password's hash, user.create; the unique keys may have been met.
CreateAccount(c) ==
  LET user == requests[c].user
  IN /\ requests[c].stage = "free"
     /\ IF ~accounts[user].there /\ KeyHolds(user, requests[c].email)
        THEN /\ accounts' = [accounts EXCEPT
                  ![user] = [there |-> TRUE, email |-> requests[c].email,
                             verified |-> FALSE]]
             /\ Advance(c, "issuing")
        ELSE UNCHANGED accounts /\ Reject(c)
     /\ UNCHANGED <<tokens, mailed, confirmed, raced>>

\* requestEmailVerification: without an address, or with a verified one, the
\* answer is true at once.
FindViewer(c, user) ==
  LET account == accounts[user]
  IN /\ requests[c].stage = "idle" /\ account.there
     /\ requests' = [requests EXCEPT
          ![c] = [Idle EXCEPT !.stage = IF account.email = None \/ account.verified
                                        THEN "unneeded" ELSE "issuing",
                              !.op = "request", !.user = user, !.email = account.email]]
     /\ UNCHANGED <<accounts, tokens, mailed, confirmed, raced>>

\* issueEmailVerification mails nothing while a token is pending ...
FindPending(c) ==
  LET call == requests[c]
  IN /\ call.stage = "issuing"
     /\ Advance(c, IF Pending(call.user, call.email) # {} THEN "answered" ELSE "tokenless")
     /\ UNCHANGED <<accounts, tokens, mailed, confirmed, raced>>

\* ... and otherwise stores one ...
CreateToken(c) ==
  /\ requests[c].stage = "tokenless"
  /\ \E t \in Tokens :
       /\ tokens[t] = NoToken
       /\ tokens' = [tokens EXCEPT
            ![t] = [NoToken EXCEPT !.user = requests[c].user, !.email = requests[c].email]]
       /\ requests' = [requests EXCEPT ![c].token = t, ![c].stage = "sending"]
  /\ UNCHANGED <<accounts, mailed, confirmed, raced>>

\* ... and mails it.
SendMail(c) ==
  /\ requests[c].stage = "sending"
  /\ mailed' = mailed \cup {requests[c].token}
  /\ Advance(c, "answered")
  /\ UNCHANGED <<accounts, tokens, confirmed, raced>>

\* The transport throws, and so does the handler; the token stays.
MailFails(c) ==
  /\ requests[c].stage = "sending"
  /\ Advance(c, "unsent")
  /\ UNCHANGED <<accounts, tokens, mailed, confirmed, raced>>

\* updateViewerProfile with an address in its input, or with null.
FindCurrent(c, user, email) ==
  /\ requests[c].stage = "idle" /\ accounts[user].there
  /\ requests' = [requests EXCEPT
       ![c] = [Idle EXCEPT !.stage = "found", !.op = "update", !.user = user,
                           !.email = email, !.seen = accounts[user].email]]
  /\ UNCHANGED <<accounts, tokens, mailed, confirmed, raced>>

\* user.update: the verification ends unless the address is the one read.
UpdateAddress(c) ==
  LET call == requests[c]
      changed == accounts[call.user].email # call.email
      between == \E d \in Requests \ {c} :
                   requests[d].stage = "found" /\ requests[d].user = call.user
  IN /\ call.stage = "found" /\ call.op = "update"
     /\ IF KeyHolds(call.user, call.email)
        THEN /\ accounts' = [accounts EXCEPT ![call.user].email = call.email,
                                             ![call.user].verified = VerifiedAfter(call)]
             /\ confirmed' = [confirmed EXCEPT ![call.user] = IF changed THEN None ELSE @]
             /\ raced' = (raced \/ (changed /\ between))
             /\ Advance(c, "answered")
        ELSE UNCHANGED <<accounts, confirmed, raced>> /\ Reject(c)
     /\ UNCHANGED <<tokens, mailed>>

\* confirmEmailVerification is given a token that somebody read in the mailbox.
FindToken(c, t) ==
  /\ requests[c].stage = "idle" /\ t \in mailed
  /\ requests' = [requests EXCEPT
       ![c] = [Idle EXCEPT !.stage = IF Confirmable(tokens[t]) THEN "found" ELSE "refused",
                           !.op = "confirm", !.user = tokens[t].user, !.token = t]]
  /\ UNCHANGED <<accounts, tokens, mailed, confirmed, raced>>

\* The transaction of confirmEmailVerification.
ConfirmAddress(c) ==
  LET call == requests[c]
  IN /\ call.stage = "found" /\ call.op = "confirm"
     /\ accounts' = [accounts EXCEPT ![call.user].verified = TRUE]
     /\ tokens' = [tokens EXCEPT ![call.token].used = TRUE]
     /\ confirmed' = [confirmed EXCEPT ![call.user] = tokens[call.token].email]
     /\ Advance(c, "answered")
     /\ UNCHANGED <<mailed, raced>>

\* 24 hours pass.
ExpireToken(t) ==
  /\ tokens[t].user # None /\ ~tokens[t].expired
  /\ tokens' = [tokens EXCEPT ![t].expired = TRUE]
  /\ UNCHANGED <<accounts, mailed, requests, confirmed, raced>>

Arrive(c) ==
  \/ \E user \in Users, email \in Addresses : FindTaken(c, user, email)
  \/ \E user \in Users : FindViewer(c, user)
  \/ \E user \in Users, email \in Addresses \cup {None} : FindCurrent(c, user, email)
  \/ \E t \in Tokens : FindToken(c, t)

Serve(c) ==
  \/ CreateAccount(c)
  \/ FindPending(c) \/ CreateToken(c) \/ SendMail(c) \/ MailFails(c)
  \/ UpdateAddress(c)
  \/ ConfirmAddress(c)

EmailNext == (\E c \in Requests : Arrive(c) \/ Serve(c)) \/ \E t \in Tokens : ExpireToken(t)

EmailSpec == EmailInit /\ [][EmailNext]_emailVars

--------------------------------------------------------------------------
(* Properties.                                                            *)

\* Every variable has its type, and tokens belong to accounts.
EmailTypeOK ==
  /\ accounts \in [Users -> [there: BOOLEAN, email: Addresses \cup {None}, verified: BOOLEAN]]
  /\ tokens \in [Tokens -> [user: Users \cup {None}, email: Addresses \cup {None},
                            used: BOOLEAN, expired: BOOLEAN]]
  /\ mailed \subseteq {t \in Tokens : tokens[t] # NoToken}
  /\ confirmed \in [Users -> Addresses \cup {None}]
  /\ raced \in BOOLEAN

\* An account is verified exactly as long as it has the address that a token
\* mailed to it has confirmed: a change of address ends it, also one and back,
\* saving the profile with the same address does not, and no token confirms
\* another address than its own.  A change between the lookup and the write of
\* another request of the account may break it, as both write by the user's
\* identifier alone.
VerifiedAsProved ==
  ~raced => \A u \in Users :
    accounts[u].verified <=> confirmed[u] # None /\ confirmed[u] = accounts[u].email

\* Whoever is answered that a verification was asked for has a token for the
\* very address the request found: in the mailbox, or on its way there, or lost
\* when the transport threw at the request that had stored it.
AskedIsMailed ==
  \A c \in Requests :
    (requests[c].stage = "answered" /\ requests[c].op \in {"register", "request"}) =>
    \E t \in Tokens :
      /\ tokens[t].user = requests[c].user /\ tokens[t].email = requests[c].email
      /\ \/ t \in mailed
         \/ \E d \in Requests :
              requests[d].token = t /\ requests[d].stage \in {"sending", "unsent"}

\* What the client says of the same answer, "Verification email sent.": a token
\* lost by the transport is not taken for one that was mailed.
SentAsTold ==
  \A c \in Requests :
    (requests[c].stage = "answered" /\ requests[c].op \in {"register", "request"}) =>
    \E t \in Tokens :
      /\ tokens[t].user = requests[c].user /\ tokens[t].email = requests[c].email
      /\ \/ t \in mailed
         \/ \E d \in Requests : requests[d].token = t /\ requests[d].stage = "sending"
==========================================================================
