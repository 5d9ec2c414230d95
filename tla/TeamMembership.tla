------------------------- MODULE TeamMembership --------------------------
(* The membership of one team, of a project or of an organisation: its    *)
(* managers add and remove members (project-members.service.ts and        *)
(* organization-management.service.ts), the invited users accept and      *)
(* decline (teams.service.ts), and its owner deletes the project or the   *)
(* organisation, and the team with it.                                    *)
(*                                                                        *)
(* Every handler is a sequence of awaited database calls, so that many    *)
(* requests interleave between them; each step below is one such call.    *)
(* A request can die at any await (a database error, a unique constraint  *)
(* met by the upsert, a restart of the server): it then takes no further  *)
(* step, which the specification allows, as it demands no progress.       *)
EXTENDS FiniteSets

CONSTANTS
  Users,      \* the users of the site
  Founder,    \* the user who created the team
  TargetKind, \* whether the team is a project's or an organisation's
  Calls,      \* the requests that may arrive; each runs once
  RowIds,     \* the row identifiers the database can hand out
  FounderId,  \* the identifier of the founder's row
  NoId        \* the identifier of no row

ASSUME FounderAssumption == Founder \in Users
ASSUME TargetKindAssumption == TargetKind \in {"PROJECT", "ORGANIZATION"}
ASSUME RowIdsAssumption == FounderId \in RowIds /\ NoId \notin RowIds

VARIABLES
  members,    \* the team's rows by user: (teamId, userId) is unique
  exists,     \* is the project or organisation, and so the team, there?
  usedIds,    \* the row identifiers handed out so far
  calls,      \* the requests, with what each has read
  auditLog,   \* the TEAM_MEMBERSHIP_CHANGED records
  inviteNotes \* the invitation notifications sent

vars == <<members, exists, usedIds, calls, auditLog, inviteNotes>>

--------------------------------------------------------------------------
(* Data.  "manager" stands for the permission MANAGE_MEMBERS; the other   *)
(* permissions and the role of a row do not influence these handlers.     *)

Row == [id: RowIds \cup {NoId}, accepted: BOOLEAN, owner: BOOLEAN,
        manager: BOOLEAN]

NoRow == [id |-> NoId, accepted |-> FALSE, owner |-> FALSE,
          manager |-> FALSE]

FounderRow == [id |-> FounderId, accepted |-> TRUE, owner |-> TRUE,
               manager |-> TRUE]

Operations == {"add", "remove", "accept", "decline", "delete"}

Stages == {"idle", "authorised", "read", "written", "audited", "done",
           "answered", "unanswered", "owned", "closed", "refused"}

Call == [stage: Stages, op: Operations, actor: Users, target: Users,
         grant: BOOLEAN, seen: Row, after: Row]

AuditRecord == [call: Calls, action: {"ADD", "UPDATE", "REMOVE", "ACCEPT", "DECLINE"},
                row: RowIds, target: Users]

InviteNote == [call: Calls, row: RowIds]

--------------------------------------------------------------------------
(* Helpers.  Those marked "variant" are plausible mistakes in the code;   *)
(* nothing uses them, and putting one in place of the helper that follows *)
(* it must break a property (see the README).                             *)

\* The membership test of findProjectForMemberManagement.
MayManageMembers(user) ==
  /\ members[user].accepted
  /\ members[user].owner \/ members[user].manager

\* The lookups of deleteProject and deleteOrganization: a project's owner is
\* told by its row in the team, an organisation's by the organisation itself.
Owns(user) ==
  IF TargetKind = "PROJECT"
  THEN members[user].accepted /\ members[user].owner
  ELSE exists /\ user = Founder

\* A row can only be created for a team that is there.
KeyHolds == exists

\* Does findViewerOrganization, which ends both handlers of an organisation,
\* find it for the caller?  The project's handlers end with a lookup that
\* cannot fail.
Answerable(user) == TargetKind = "PROJECT" \/ Owns(user)

\* A pending row: it exists and its acceptedAt is null.
Pending(row) == row # NoRow /\ ~row.accepted

\* Variant: nobody checks isOwner.
Unprotected(row) == FALSE

\* Rows of owners are neither updated nor removed nor declined.
Protected(row) == row.owner

\* "where: {id}" of the deletions and of the acceptance.
SameRow(row, seen) == row # NoRow /\ row.id = seen.id

\* Variant: the upsert creates an accepted row.
JoinedRow(id, grant) ==
  [id |-> id, accepted |-> TRUE, owner |-> FALSE, manager |-> grant]

\* The row that projectMemberSelect returns after the upsert.
InvitedRow(id, grant) ==
  [id |-> id, accepted |-> FALSE, owner |-> FALSE, manager |-> grant]
UpdatedRow(row, grant) == [row EXCEPT !.manager = grant]

\* Variants: the acceptance goes by the user alone; the refusal does not ask
\* for acceptedAt to be null.
AcceptMatchesUser(row, seen) == Pending(row)
DeclineMatchesId(row, seen) == SameRow(row, seen)

\* The where clauses of the three conditional writes.
RemoveMatches(row, seen) == SameRow(row, seen) /\ ~Protected(row)
AcceptMatches(row, seen) == SameRow(row, seen) /\ Pending(row)
DeclineMatches(row, seen) == SameRow(row, seen) /\ Pending(row)

\* An ADD is told from an UPDATE by the row read before the upsert.
AuditAction(call) ==
  IF call.op = "add"
  THEN IF call.seen = NoRow THEN "ADD" ELSE "UPDATE"
  ELSE IF call.op = "remove" THEN "REMOVE"
       ELSE IF call.op = "accept" THEN "ACCEPT" ELSE "DECLINE"

\* The row a request has changed, created or deleted.
ChangedRow(call) == IF call.op = "add" THEN call.after.id ELSE call.seen.id

InvitesOnAdd(call) ==
  call.op = "add" /\ call.seen = NoRow /\ ~call.after.accepted

\* A request before it arrives, and one that was refused: it has changed
\* nothing and what it has read no longer matters.
Blank(stage) ==
  [stage |-> stage, op |-> "add", actor |-> Founder, target |-> Founder,
   grant |-> FALSE, seen |-> NoRow, after |-> NoRow]

--------------------------------------------------------------------------
Init ==
  /\ members = [u \in Users |-> IF u = Founder THEN FounderRow ELSE NoRow]
  /\ exists = TRUE
  /\ usedIds = {FounderId}
  /\ calls = [c \in Calls |-> Blank("idle")]
  /\ auditLog = {}
  /\ inviteNotes = {}

Advance(c, stage) == calls' = [calls EXCEPT ![c].stage = stage]

\* The handler throws NotFoundException or ForbiddenException.
Refuse(c) == calls' = [calls EXCEPT ![c] = Blank("refused")]

\* Variant: the handler does not look at the count.
DeleteWhereUncounted(c, matches) ==
  /\ members' = IF matches THEN [members EXCEPT ![calls[c].target] = NoRow]
                ELSE members
  /\ Advance(c, "written")

\* deleteMany on the target's row: the handler goes on only if the count of
\* deleted rows is not zero.
DeleteWhere(c, matches) ==
  IF matches
  THEN /\ members' = [members EXCEPT ![calls[c].target] = NoRow]
       /\ Advance(c, "written")
  ELSE UNCHANGED members /\ Refuse(c)

\* addProjectTeamMember and removeProjectTeamMember look the project up
\* together with the caller's membership; a caller who does not manage the
\* members gets "Project not found".
Authorise(c, op, actor, target, grant) ==
  /\ calls[c].stage = "idle"
  /\ op \in {"add", "remove"}
  /\ IF MayManageMembers(actor)
     THEN calls' = [calls EXCEPT
            ![c] = [@ EXCEPT !.op = op, !.actor = actor, !.target = target,
                             !.grant = grant, !.stage = "authorised"]]
     ELSE Refuse(c)
  /\ UNCHANGED <<members, exists, usedIds, auditLog, inviteNotes>>

\* Both handlers then read the target's row; the owner's row is refused, and
\* a removal also needs a row.
ReadTarget(c) ==
  LET row == members[calls[c].target]
      refused == Protected(row) \/ (calls[c].op = "remove" /\ row = NoRow)
  IN /\ calls[c].stage = "authorised"
     /\ IF refused
        THEN Refuse(c)
        ELSE calls' = [calls EXCEPT ![c].seen = row, ![c].stage = "read"]
     /\ UNCHANGED <<members, exists, usedIds, auditLog, inviteNotes>>

\* acceptInvitation and declineInvitation look up the caller's own pending
\* row (findViewerInvitationOrThrow); an owner's row cannot be declined.
FindInvitation(c, op, actor) ==
  LET row == members[actor]
      found == Pending(row) /\ ~(op = "decline" /\ Protected(row))
  IN /\ calls[c].stage = "idle"
     /\ op \in {"accept", "decline"}
     /\ IF found
        THEN calls' = [calls EXCEPT
               ![c] = [@ EXCEPT !.op = op, !.actor = actor, !.target = actor,
                                !.seen = row, !.stage = "read"]]
        ELSE Refuse(c)
     /\ UNCHANGED <<members, exists, usedIds, auditLog, inviteNotes>>

\* The upsert on (teamId, userId): a row that is missing by now is created
\* unaccepted under a fresh identifier, unless the team is gone, and a row
\* that is there gets the new permissions, whatever ReadTarget saw.
UpsertMember(c) ==
  LET target == calls[c].target
      grant == calls[c].grant
      Store(row) == /\ members' = [members EXCEPT ![target] = row]
                    /\ calls' = [calls EXCEPT ![c].after = row,
                                              ![c].stage = "written"]
  IN /\ calls[c].stage = "read" /\ calls[c].op = "add"
     /\ \/ /\ members[target] = NoRow /\ KeyHolds
           /\ \E id \in RowIds \ usedIds :
                /\ Store(InvitedRow(id, grant))
                /\ usedIds' = usedIds \cup {id}
        \/ /\ members[target] # NoRow
           /\ Store(UpdatedRow(members[target], grant))
           /\ UNCHANGED usedIds
        \/ /\ members[target] = NoRow /\ ~KeyHolds
           /\ Refuse(c)
           /\ UNCHANGED <<members, usedIds>>
     /\ UNCHANGED <<exists, auditLog, inviteNotes>>

\* deleteMany of a removal: only the row that was read, and never an owner's;
\* a count of zero is "Team member not found".
DeleteMember(c) ==
  LET target == calls[c].target
  IN /\ calls[c].stage = "read" /\ calls[c].op = "remove"
     /\ DeleteWhere(c, RemoveMatches(members[target], calls[c].seen))
     /\ UNCHANGED <<exists, usedIds, auditLog, inviteNotes>>

\* updateMany of an acceptance: only the row that was found, still pending.
\* The answer and the audit record show the row as it was found.
AcceptRow(c) ==
  LET actor == calls[c].actor
  IN /\ calls[c].stage = "read" /\ calls[c].op = "accept"
     /\ IF AcceptMatches(members[actor], calls[c].seen)
        THEN /\ members' = [members EXCEPT ![actor].accepted = TRUE]
             /\ calls' = [calls EXCEPT
                  ![c] = [@ EXCEPT !.after = [calls[c].seen EXCEPT !.accepted = TRUE],
                                   !.stage = "written"]]
        ELSE UNCHANGED members /\ Refuse(c)
     /\ UNCHANGED <<exists, usedIds, auditLog, inviteNotes>>

\* deleteMany of a refusal: only the row that was found, still pending.
DeclineRow(c) ==
  LET actor == calls[c].actor
  IN /\ calls[c].stage = "read" /\ calls[c].op = "decline"
     /\ DeleteWhere(c, DeclineMatches(members[actor], calls[c].seen))
     /\ UNCHANGED <<exists, usedIds, auditLog, inviteNotes>>

\* recordTeamMembershipChange.
RecordAudit(c) ==
  LET call == calls[c]
  IN /\ call.stage = "written"
     /\ auditLog' = auditLog \cup
          {[call |-> c, action |-> AuditAction(call),
            row |-> ChangedRow(call), target |-> call.target]}
     /\ Advance(c, IF InvitesOnAdd(call) THEN "audited" ELSE "done")
     /\ UNCHANGED <<members, exists, usedIds, inviteNotes>>

\* sendTeamInviteNotification.
NotifyInvitee(c) ==
  /\ calls[c].stage = "audited"
  /\ inviteNotes' = inviteNotes \cup {[call |-> c, row |-> calls[c].after.id]}
  /\ Advance(c, "done")
  /\ UNCHANGED <<members, exists, usedIds, auditLog>>

\* The last lookup of an addition or removal, whose result is the answer: a
\* caller for whom it finds nothing gets "Organization not found".
Answer(c) ==
  /\ calls[c].stage = "done" /\ calls[c].op \in {"add", "remove"}
  /\ Advance(c, IF Answerable(calls[c].actor) THEN "answered" ELSE "unanswered")
  /\ UNCHANGED <<members, exists, usedIds, auditLog, inviteNotes>>

\* deleteProject and deleteOrganization look up what the caller owns.
FindOwned(c, actor) ==
  /\ calls[c].stage = "idle"
  /\ IF Owns(actor)
     THEN calls' = [calls EXCEPT
            ![c] = [@ EXCEPT !.op = "delete", !.actor = actor, !.stage = "owned"]]
     ELSE Refuse(c)
  /\ UNCHANGED <<members, exists, usedIds, auditLog, inviteNotes>>

\* Their transaction deletes the record and the team, whose members' rows go
\* with it; a record that is gone by now fails it.
DeleteTeam(c) ==
  /\ calls[c].stage = "owned"
  /\ IF exists
     THEN /\ exists' = FALSE
          /\ members' = [u \in Users |-> NoRow]
          /\ Advance(c, "closed")
     ELSE UNCHANGED <<members, exists>> /\ Refuse(c)
  /\ UNCHANGED <<usedIds, auditLog, inviteNotes>>

Begin(c) ==
  \/ \E op \in {"add", "remove"}, actor, target \in Users, grant \in BOOLEAN :
       Authorise(c, op, actor, target, grant)
  \/ \E op \in {"accept", "decline"}, actor \in Users :
       FindInvitation(c, op, actor)
  \/ \E actor \in Users : FindOwned(c, actor)

Proceed(c) ==
  \/ ReadTarget(c)
  \/ UpsertMember(c)
  \/ DeleteMember(c)
  \/ AcceptRow(c)
  \/ DeclineRow(c)
  \/ RecordAudit(c)
  \/ NotifyInvitee(c)
  \/ Answer(c)
  \/ DeleteTeam(c)

Next == \E c \in Calls : Begin(c) \/ Proceed(c)

Spec == Init /\ [][Next]_vars

--------------------------------------------------------------------------
(* Properties.                                                            *)

\* Has the request changed the table?
Wrote(c) ==
  calls[c].stage \in {"written", "audited", "done", "answered", "unanswered"}

Accepted(c, id) == Wrote(c) /\ calls[c].op = "accept" /\ ChangedRow(calls[c]) = id
Deleted(c, id) ==
  Wrote(c) /\ calls[c].op \in {"remove", "decline"} /\ ChangedRow(calls[c]) = id

\* The state has the shape the schema and the handlers give it.
TypeOK ==
  /\ members \in [Users -> Row]
  /\ exists \in BOOLEAN
  /\ usedIds \in SUBSET RowIds
  /\ calls \in [Calls -> Call]
  /\ auditLog \in SUBSET AuditRecord
  /\ inviteNotes \in SUBSET InviteNote

\* However additions, removals and answers interleave, the team keeps its
\* founder as its one owner, accepted, for as long as it exists (the isOwner
\* guards of the handlers act on rows read before the write).
FounderKept ==
  /\ exists => members[Founder] = FounderRow
  /\ \A u \in Users \ {Founder} : ~members[u].owner

\* Nobody is a member without having accepted this very invitation: the
\* row a member holds was accepted by a request of that member, so neither an
\* upsert over a pending row nor an answer to an earlier, withdrawn
\* invitation makes somebody a member.
ConsentGiven ==
  \A u \in Users \ {Founder} :
    members[u].accepted =>
      \E c \in Calls : Accepted(c, members[u].id) /\ calls[c].actor = u

\* Requests that race for one invitation do not both win: a row is accepted
\* by one request at most and deleted by one at most, and a row that was
\* declined was accepted by nobody.
ResolvedOnce ==
  \A c, d \in Calls : \A id \in RowIds :
    c # d =>
      /\ ~(Accepted(c, id) /\ Accepted(d, id))
      /\ ~(Deleted(c, id) /\ Deleted(d, id))
      /\ ~(Accepted(c, id) /\ Deleted(d, id) /\ calls[d].op = "decline")

\* A removal or refusal on record is final: the audit log never tells of a
\* row that is still (or again) in the team that it was removed or declined
\* ("rejects stale ... before auditing").
AuditedDepartures ==
  \A record \in auditLog :
    record.action \in {"REMOVE", "DECLINE"} =>
      \A u \in Users : members[u].id # record.row

\* A deleted team stays without members, whatever requests that found it are
\* still in flight: no addition puts a row back into it.
DeletedTeamEmpty == ~exists => \A u \in Users : members[u] = NoRow

\* What a manager's request has changed, it answers for: only the deletion of
\* the team leaves it without an answer (tests: "adds organization team
\* members for member managers", "removes non-owner organization team members
\* for member managers").
ManagersAnswered ==
  \A c \in Calls : calls[c].stage = "unanswered" => ~exists

\* A membership is never taken back to a pending invitation, and a row never
\* changes hands or loses its protection: an update touches permissions only.
UpdatesKeepStanding ==
  [][\A u \in Users :
       (members[u] # NoRow /\ members'[u].id = members[u].id) =>
         /\ members[u].accepted => members'[u].accepted
         /\ members'[u].owner = members[u].owner]_vars

\* The rows of the table, seen as the abstract life of invitations.
InvitedRows == {[id |-> members[u].id, user |-> u] :
                  u \in {v \in Users : Pending(members[v])}}
JoinedRows == {[id |-> members[u].id, user |-> u] :
                 u \in {v \in Users : members[v].accepted}}
EndedIds == usedIds \ {members[u].id : u \in Users}

Lifecycle == INSTANCE InvitationLifecycle
               WITH invited <- InvitedRows, joined <- JoinedRows, ended <- EndedIds

\* The requests together implement the abstract life of invitations.
LifecycleSpec == Lifecycle!Spec
==========================================================================
