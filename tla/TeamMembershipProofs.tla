---------------------- MODULE TeamMembershipProofs -----------------------
(* Proofs about TeamMembership, for any set of users, requests and row    *)
(* identifiers.  The inductive invariant is Inv: it adds to the stated    *)
(* properties where row identifiers come from and what a request in       *)
(* flight may still believe about the row it has read.                    *)
EXTENDS TeamMembership, TLAPS

\* Every row of the table has an identifier of its own, handed out before.
RowsIdentified ==
  /\ FounderId \in usedIds
  /\ \A u \in Users : members[u].id = NoId => members[u] = NoRow
  /\ \A u \in Users : members[u] # NoRow => members[u].id \in usedIds
  /\ \A u, v \in Users :
       (members[u] # NoRow /\ members[u].id = members[v].id) => u = v

\* A request that has read a row: the row had an identifier, was not an
\* owner's if it is to be deleted, and can be nobody's row but the target's.
ReadsIdentified ==
  \A c \in Calls :
    /\ calls[c].op \in {"accept", "decline"} => calls[c].actor = calls[c].target
    /\ calls[c].seen.id = NoId => calls[c].seen = NoRow
    /\ calls[c].seen.id \in usedIds \cup {NoId}
    /\ \A u \in Users :
         (members[u] # NoRow /\ members[u].id = calls[c].seen.id)
           => u = calls[c].target
    /\ ((Wrote(c) \/ calls[c].stage = "read") /\ calls[c].op # "add")
         => calls[c].seen # NoRow
    /\ (Wrote(c) /\ calls[c].op = "add") => calls[c].after # NoRow
    /\ calls[c].after.id = NoId => calls[c].after = NoRow

\* A row that was accepted is not pending, a row that was deleted is gone.
Settled ==
  \A c \in Calls : \A u \in Users :
    /\ Accepted(c, members[u].id) => members[u].accepted
    /\ (Deleted(c, members[u].id)) => members[u] = NoRow

\* What the stage of a request says about it: one that has read no row yet
\* remembers none, only additions send an invitation, none goes to the owner
\* while the team is there, and a deletion takes no other step.
StagesReached ==
  \A c \in Calls :
    /\ calls[c].stage \in {"idle", "authorised"} => calls[c].seen = NoRow
    /\ ~Wrote(c) => calls[c].after = NoRow
    /\ calls[c].stage = "authorised" => calls[c].op \in {"add", "remove"}
    /\ calls[c].stage = "audited" => calls[c].op = "add"
    /\ (calls[c].stage = "read" /\ calls[c].op = "add" /\ exists)
         => calls[c].target # Founder
    /\ calls[c].op = "delete" => calls[c].stage \in {"owned", "closed"}

\* A departure on record was carried out by the request that recorded it.
DeparturesCarriedOut ==
  \A record \in auditLog :
    record.action \in {"REMOVE", "DECLINE"} => Deleted(record.call, record.row)

Inv ==
  /\ TypeOK
  /\ FounderKept
  /\ DeletedTeamEmpty
  /\ RowsIdentified
  /\ StagesReached
  /\ ReadsIdentified
  /\ Settled
  /\ ConsentGiven
  /\ ResolvedOnce
  /\ DeparturesCarriedOut

--------------------------------------------------------------------------
(* Facts about rows and requests.                                         *)

LEMMA RowsTyped ==
  /\ NoRow \in Row
  /\ FounderRow \in Row
  /\ \A id \in RowIds, g \in BOOLEAN : InvitedRow(id, g) \in Row
  /\ \A row \in Row, g \in BOOLEAN : UpdatedRow(row, g) \in Row
BY RowIdsAssumption DEF Row, NoRow, FounderRow, InvitedRow, UpdatedRow

LEMMA BlankTyped ==
  /\ Blank("idle") \in Call
  /\ Blank("refused") \in Call
BY FounderAssumption, RowsTyped DEF Blank, Call, Stages, Operations

--------------------------------------------------------------------------
LEMMA InitInv == Init => Inv
<1> SUFFICES ASSUME Init PROVE Inv
  OBVIOUS
<1>1. TypeOK
  BY FounderAssumption, RowIdsAssumption, RowsTyped, BlankTyped DEF Init, TypeOK
<1>2. FounderKept /\ DeletedTeamEmpty
  BY FounderAssumption DEF Init, FounderKept, DeletedTeamEmpty, NoRow
<1>3. RowsIdentified
  BY FounderAssumption, RowIdsAssumption DEF Init, RowsIdentified, NoRow, FounderRow
<1>4. ReadsIdentified
  BY FounderAssumption DEF Init, ReadsIdentified, Blank, NoRow, FounderRow, Wrote
<1>5. Settled /\ ResolvedOnce
  BY DEF Init, Settled, ResolvedOnce, Accepted, Deleted, Wrote, Blank
<1>6. ConsentGiven
  BY DEF Init, ConsentGiven, NoRow
<1>7. DeparturesCarriedOut
  BY DEF Init, DeparturesCarriedOut
<1>8. StagesReached
  BY DEF Init, StagesReached, Blank
<1> QED BY <1>1, <1>2, <1>3, <1>4, <1>5, <1>6, <1>7, <1>8 DEF Inv

--------------------------------------------------------------------------
(* Steps that only read: the table stays as it is, and the request of the *)
(* step has not written before or after it.                               *)

LEMMA ReadingStep ==
  ASSUME Inv, NEW c \in Calls, NEW k \in Call,
         UNCHANGED <<members, exists, usedIds, auditLog, inviteNotes>>,
         calls' = [calls EXCEPT ![c] = k],
         ~Wrote(c),
         k.stage \in {"idle", "authorised", "read", "owned", "closed", "refused"},
         k.op \in {"accept", "decline"} => k.actor = k.target,
         k.seen = NoRow \/ (k.seen = members[k.target] /\ k.seen # NoRow),
         (k.stage = "read" /\ k.op # "add") => k.seen # NoRow,
         k.after = NoRow,
         k.stage \in {"idle", "authorised"} => k.seen = NoRow,
         k.stage = "authorised" => k.op \in {"add", "remove"},
         (k.stage = "read" /\ k.op = "add" /\ exists) => k.target # Founder,
         k.op = "delete" => k.stage = "owned"
  PROVE  Inv'
<1> USE DEF Inv, TypeOK
<1>1. TypeOK'
  OBVIOUS
<1>2. \A d \in Calls : Wrote(d)' => (Wrote(d) /\ calls'[d] = calls[d])
  BY DEF Wrote
<1>3. \A d \in Calls : Wrote(d) => (Wrote(d)' /\ calls'[d] = calls[d])
  BY DEF Wrote
<1>4. FounderKept' /\ DeletedTeamEmpty' /\ RowsIdentified'
  BY DEF FounderKept, DeletedTeamEmpty, RowsIdentified
<1>5. ReadsIdentified'
  <2>1. k.seen.id \in usedIds \cup {NoId} /\ (k.seen.id = NoId => k.seen = NoRow)
    BY DEF RowsIdentified, NoRow, Call
  <2>2. \A u \in Users : (members[u] # NoRow /\ members[u].id = k.seen.id)
                           => u = k.target
    BY RowsTyped DEF RowsIdentified, NoRow, Call
  <2>3. calls'[c] = k /\ \A d \in Calls \ {c} : calls'[d] = calls[d]
    OBVIOUS
  <2>4. ~Wrote(c)' /\ \A d \in Calls \ {c} : Wrote(d)' <=> Wrote(d)
    BY <2>3 DEF Wrote
  <2> QED BY <2>1, <2>2, <2>3, <2>4 DEF ReadsIdentified
<1>6. Settled' /\ ResolvedOnce'
  BY <1>2 DEF Settled, ResolvedOnce, Accepted, Deleted
<1>7. ConsentGiven'
  BY <1>3 DEF ConsentGiven, Accepted
<1>8. DeparturesCarriedOut'
  BY <1>3 DEF DeparturesCarriedOut, Deleted, AuditRecord
<1>9. StagesReached'
  BY DEF StagesReached, Wrote
<1> QED BY <1>1, <1>4, <1>5, <1>6, <1>7, <1>8, <1>9

LEMMA RefusedStep ==
  ASSUME Inv, NEW c \in Calls, ~Wrote(c), Refuse(c),
         UNCHANGED <<members, exists, usedIds, auditLog, inviteNotes>>
  PROVE  Inv'
<1>1. Blank("refused") \in Call
  BY BlankTyped
<1> QED BY <1>1, ReadingStep DEF Refuse, Blank

LEMMA AuthoriseStep ==
  ASSUME Inv, NEW c \in Calls, NEW op \in {"add", "remove"}, NEW actor \in Users,
         NEW target \in Users, NEW grant \in BOOLEAN,
         Authorise(c, op, actor, target, grant)
  PROVE  Inv'
<1>1. ~Wrote(c)
  BY DEF Authorise, Wrote
<1>2. CASE MayManageMembers(actor)
  <2> DEFINE k == [calls[c] EXCEPT !.op = op, !.actor = actor, !.target = target,
                                   !.grant = grant, !.stage = "authorised"]
  <2>1. calls[c] \in Call /\ calls[c].stage = "idle"
    BY DEF Authorise, Inv, TypeOK
  <2>2. k \in Call /\ k.op = op /\ k.stage = "authorised"
        /\ k.seen = calls[c].seen /\ k.after = calls[c].after
    BY <2>1 DEF Call, Stages, Operations
  <2>3. calls[c].seen = NoRow /\ calls[c].after = NoRow
    BY <1>1, <2>1 DEF Inv, StagesReached
  <2>4. calls' = [calls EXCEPT ![c] = k] /\ UNCHANGED <<members, exists, usedIds, auditLog, inviteNotes>>
    BY <1>2 DEF Authorise
  <2> HIDE DEF k
  <2> QED BY <1>1, <2>2, <2>3, <2>4, ReadingStep
<1>3. CASE ~MayManageMembers(actor)
  BY <1>1, <1>3, RefusedStep DEF Authorise
<1> QED BY <1>2, <1>3

LEMMA ReadTargetStep ==
  ASSUME Inv, NEW c \in Calls, ReadTarget(c)
  PROVE  Inv'
<1> DEFINE row == members[calls[c].target]
           k == [calls[c] EXCEPT !.seen = row, !.stage = "read"]
<1>1. ~Wrote(c)
  BY DEF ReadTarget, Wrote
<1>2. CASE Refuse(c)
  BY <1>1, <1>2, RefusedStep DEF ReadTarget
<1>3. CASE ~Refuse(c)
  <2>1. calls[c] \in Call /\ row \in Row /\ calls[c].stage = "authorised"
    BY DEF Call, ReadTarget, Inv, TypeOK
  <2>2. k \in Call /\ k.op = calls[c].op /\ k.actor = calls[c].actor /\ k.seen = row
        /\ k.target = calls[c].target /\ k.stage = "read" /\ k.after = calls[c].after
    BY <2>1 DEF Call, Stages
  <2>3. calls[c].after = NoRow /\ calls[c].op \in {"add", "remove"}
    BY <1>1, <2>1 DEF Inv, StagesReached
  <2>4. calls' = [calls EXCEPT ![c] = k] /\ (k.op = "remove" => k.seen # NoRow)
        /\ UNCHANGED <<members, exists, usedIds, auditLog, inviteNotes>>
    BY <1>3, <2>1, <2>2 DEF ReadTarget, Inv, TypeOK
  <2>5. exists => k.target # Founder
    BY <1>3, <2>2 DEF ReadTarget, Protected, Inv, FounderKept, FounderRow
  <2> HIDE DEF k
  <2> QED BY <1>1, <2>2, <2>3, <2>4, <2>5, ReadingStep
<1> QED BY <1>2, <1>3

LEMMA FindInvitationStep ==
  ASSUME Inv, NEW c \in Calls, NEW op \in {"accept", "decline"}, NEW actor \in Users,
         FindInvitation(c, op, actor)
  PROVE  Inv'
<1> DEFINE row == members[actor]
           k == [calls[c] EXCEPT !.op = op, !.actor = actor, !.target = actor,
                                 !.seen = row, !.stage = "read"]
<1>1. ~Wrote(c)
  BY DEF FindInvitation, Wrote
<1>2. CASE Refuse(c)
  BY <1>1, <1>2, RefusedStep DEF FindInvitation
<1>3. CASE ~Refuse(c)
  <2>1. calls[c] \in Call /\ row \in Row /\ calls[c].stage = "idle"
    BY DEF Call, FindInvitation, Inv, TypeOK
  <2>2. k \in Call /\ k.op = op /\ k.actor = actor /\ k.seen = row
        /\ k.target = actor /\ k.stage = "read" /\ k.after = calls[c].after
    BY <2>1 DEF Call, Stages, Operations
  <2>3. calls[c].after = NoRow
    BY <1>1, <2>1 DEF Inv, StagesReached
  <2>4. calls' = [calls EXCEPT ![c] = k] /\ row # NoRow
        /\ UNCHANGED <<members, exists, usedIds, auditLog, inviteNotes>>
    BY <1>3 DEF FindInvitation, Pending
  <2> HIDE DEF k
  <2> QED BY <1>1, <2>2, <2>3, <2>4, ReadingStep
<1> QED BY <1>2, <1>3

LEMMA FindOwnedStep ==
  ASSUME Inv, NEW c \in Calls, NEW actor \in Users, FindOwned(c, actor)
  PROVE  Inv'
<1> DEFINE k == [calls[c] EXCEPT !.op = "delete", !.actor = actor, !.stage = "owned"]
<1>1. ~Wrote(c)
  BY DEF FindOwned, Wrote
<1>2. CASE Owns(actor)
  <2>1. calls[c] \in Call /\ calls[c].stage = "idle"
    BY DEF FindOwned, Inv, TypeOK
  <2>2. k \in Call /\ k.op = "delete" /\ k.stage = "owned"
        /\ k.seen = calls[c].seen /\ k.after = calls[c].after
    BY <2>1 DEF Call, Stages, Operations
  <2>3. calls[c].seen = NoRow /\ calls[c].after = NoRow
    BY <1>1, <2>1 DEF Inv, StagesReached
  <2>4. calls' = [calls EXCEPT ![c] = k]
        /\ UNCHANGED <<members, exists, usedIds, auditLog, inviteNotes>>
    BY <1>2 DEF FindOwned
  <2> HIDE DEF k
  <2> QED BY <1>1, <2>2, <2>3, <2>4, ReadingStep
<1>3. CASE ~Owns(actor)
  BY <1>1, <1>3, RefusedStep DEF FindOwned
<1> QED BY <1>2, <1>3

--------------------------------------------------------------------------
(* Steps after the write: the request stays one that has written.         *)

LEMMA RecordAuditStep ==
  ASSUME Inv, NEW c \in Calls, RecordAudit(c)
  PROVE  Inv'
<1> DEFINE call == calls[c]
           stage == IF InvitesOnAdd(call) THEN "audited" ELSE "done"
           record == [call |-> c, action |-> AuditAction(call),
                      row |-> ChangedRow(call), target |-> call.target]
<1> USE DEF Inv, TypeOK
<1>1. /\ call \in Call /\ call.stage = "written" /\ Wrote(c)
      /\ calls' = [calls EXCEPT ![c].stage = stage]
      /\ auditLog' = auditLog \cup {record}
      /\ UNCHANGED <<members, exists, usedIds, inviteNotes>>
  BY DEF RecordAudit, Advance, Wrote
<1>2. stage \in {"audited", "done"} /\ (stage = "audited" => call.op = "add")
  BY DEF InvitesOnAdd
<1> HIDE DEF stage
<1>3. ChangedRow(call) \in RowIds
  BY <1>1, RowIdsAssumption DEF ChangedRow, ReadsIdentified, Call, Row, NoRow
<1>4. record \in AuditRecord
  BY <1>1, <1>3 DEF AuditRecord, AuditAction, Call
<1> HIDE DEF record
<1>5. TypeOK'
  BY <1>1, <1>2, <1>4 DEF Call, Stages
<1>6. \A d \in Calls :
        /\ Wrote(d)' = Wrote(d)
        /\ d # c => calls'[d] = calls[d]
        /\ d = c => calls'[d].stage = stage
        /\ calls'[d].op = calls[d].op /\ calls'[d].actor = calls[d].actor
        /\ calls'[d].target = calls[d].target
        /\ calls'[d].seen = calls[d].seen /\ calls'[d].after = calls[d].after
  BY <1>1, <1>2 DEF Wrote, Call
<1>7. /\ FounderKept' /\ DeletedTeamEmpty' /\ RowsIdentified'
      /\ StagesReached' /\ ReadsIdentified'
  <2>1. FounderKept' /\ DeletedTeamEmpty' /\ RowsIdentified'
    BY <1>1 DEF FounderKept, DeletedTeamEmpty, RowsIdentified
  <2>2. StagesReached'
    BY <1>1, <1>2, <1>6 DEF StagesReached
  <2>3. ReadsIdentified'
    BY <1>1, <1>6 DEF ReadsIdentified, Wrote
  <2> QED BY <2>1, <2>2, <2>3
<1>8. \A d \in Calls, id \in RowIds \cup {NoId} :
        Accepted(d, id)' = Accepted(d, id) /\ Deleted(d, id)' = Deleted(d, id)
  BY <1>6 DEF Accepted, Deleted, ChangedRow
<1>9. Settled' /\ ResolvedOnce' /\ ConsentGiven'
  BY <1>1, <1>6, <1>8 DEF Settled, ResolvedOnce, ConsentGiven, Row
<1>10. DeparturesCarriedOut'
  <2>1. record.action \in {"REMOVE", "DECLINE"} => Deleted(c, record.row)
    BY <1>1 DEF record, AuditAction, Deleted, ChangedRow, Call, Operations,
                StagesReached
  <2>2. record.call = c
    BY DEF record
  <2> QED BY <1>1, <1>4, <1>8, <2>1, <2>2 DEF DeparturesCarriedOut, AuditRecord
<1> QED BY <1>5, <1>7, <1>9, <1>10

LEMMA NotifyInviteeStep ==
  ASSUME Inv, NEW c \in Calls, NotifyInvitee(c)
  PROVE  Inv'
<1> USE DEF Inv, TypeOK
<1>1. /\ calls[c] \in Call /\ calls[c].stage = "audited"
      /\ calls' = [calls EXCEPT ![c].stage = "done"]
      /\ UNCHANGED <<members, exists, usedIds, auditLog>>
  BY DEF NotifyInvitee, Advance
<1>2. \A d \in Calls :
        /\ Wrote(d)' = Wrote(d)
        /\ d # c => calls'[d] = calls[d]
        /\ d = c => calls'[d].stage = "done"
        /\ calls'[d].op = calls[d].op /\ calls'[d].actor = calls[d].actor
        /\ calls'[d].target = calls[d].target
        /\ calls'[d].seen = calls[d].seen /\ calls'[d].after = calls[d].after
  BY <1>1 DEF Wrote, Call
<1>3. TypeOK'
  <2>1. calls' \in [Calls -> Call]
    BY <1>1 DEF Call, Stages
  <2>2. calls[c].after.id \in RowIds
    BY <1>1, RowIdsAssumption DEF ReadsIdentified, StagesReached, Wrote, Call, Row, NoRow
  <2> QED BY <1>1, <2>1, <2>2 DEF NotifyInvitee, InviteNote
<1>4. /\ FounderKept' /\ DeletedTeamEmpty' /\ RowsIdentified'
      /\ StagesReached' /\ ReadsIdentified'
  <2>1. FounderKept' /\ DeletedTeamEmpty' /\ RowsIdentified'
    BY <1>1 DEF FounderKept, DeletedTeamEmpty, RowsIdentified
  <2>2. StagesReached'
    BY <1>1, <1>2 DEF StagesReached
  <2>3. ReadsIdentified'
    BY <1>1, <1>2 DEF ReadsIdentified, Wrote
  <2> QED BY <2>1, <2>2, <2>3
<1>5. \A d \in Calls, id \in RowIds \cup {NoId} :
        Accepted(d, id)' = Accepted(d, id) /\ Deleted(d, id)' = Deleted(d, id)
  BY <1>2 DEF Accepted, Deleted, ChangedRow
<1>6. Settled' /\ ResolvedOnce' /\ ConsentGiven' /\ DeparturesCarriedOut'
  BY <1>1, <1>2, <1>5
     DEF Settled, ResolvedOnce, ConsentGiven, DeparturesCarriedOut, Row, AuditRecord
<1> QED BY <1>3, <1>4, <1>6

LEMMA AnswerStep ==
  ASSUME Inv, NEW c \in Calls, Answer(c)
  PROVE  Inv'
<1> DEFINE stage == IF Answerable(calls[c].actor) THEN "answered" ELSE "unanswered"
<1> USE DEF Inv, TypeOK
<1>1. /\ calls[c] \in Call /\ calls[c].stage = "done"
      /\ calls' = [calls EXCEPT ![c].stage = stage]
      /\ UNCHANGED <<members, exists, usedIds, auditLog, inviteNotes>>
  BY DEF Answer, Advance
<1>2. stage \in {"answered", "unanswered"}
  OBVIOUS
<1> HIDE DEF stage
<1>3. \A d \in Calls :
        /\ Wrote(d)' = Wrote(d)
        /\ d # c => calls'[d] = calls[d]
        /\ d = c => calls'[d].stage = stage
        /\ calls'[d].op = calls[d].op /\ calls'[d].actor = calls[d].actor
        /\ calls'[d].target = calls[d].target
        /\ calls'[d].seen = calls[d].seen /\ calls'[d].after = calls[d].after
  BY <1>1, <1>2 DEF Wrote, Call
<1>4. TypeOK'
  BY <1>1, <1>2 DEF Call, Stages
<1>5. FounderKept' /\ DeletedTeamEmpty' /\ RowsIdentified'
  BY <1>1 DEF FounderKept, DeletedTeamEmpty, RowsIdentified
<1>6. StagesReached'
  BY <1>1, <1>2, <1>3 DEF StagesReached
<1>7. ReadsIdentified'
  BY <1>1, <1>2, <1>3 DEF ReadsIdentified, Wrote
<1>8. \A d \in Calls, id \in RowIds \cup {NoId} :
        Accepted(d, id)' = Accepted(d, id) /\ Deleted(d, id)' = Deleted(d, id)
  BY <1>3 DEF Accepted, Deleted, ChangedRow
<1>9. Settled' /\ ResolvedOnce' /\ ConsentGiven' /\ DeparturesCarriedOut'
  BY <1>1, <1>3, <1>8
     DEF Settled, ResolvedOnce, ConsentGiven, DeparturesCarriedOut, Row, AuditRecord
<1> QED BY <1>4, <1>5, <1>6, <1>7, <1>9

--------------------------------------------------------------------------
(* The writes.                                                            *)

\* Both deletions: the row is gone, and nobody had deleted it before.
LEMMA DeletionStep ==
  ASSUME Inv, NEW c \in Calls,
         calls[c].stage = "read", calls[c].op \in {"remove", "decline"},
         members[calls[c].target] # NoRow,
         members[calls[c].target].id = calls[c].seen.id,
         ~members[calls[c].target].owner,
         calls[c].op = "decline" => ~members[calls[c].target].accepted,
         members' = [members EXCEPT ![calls[c].target] = NoRow],
         Advance(c, "written"),
         UNCHANGED <<exists, usedIds, auditLog, inviteNotes>>
  PROVE  Inv'
<1> DEFINE target == calls[c].target
           gone == calls[c].seen.id
<1> USE DEF Inv, TypeOK
<1>1. /\ calls[c] \in Call /\ target \in Users /\ ~Wrote(c)
      /\ gone \in RowIds /\ members[target].id = gone
      /\ calls' = [calls EXCEPT ![c].stage = "written"]
  BY DEF Advance, Call, Wrote, RowsIdentified, Row
<1>2. TypeOK'
  BY <1>1, RowsTyped DEF Call, Stages
<1>3. \A d \in Calls :
        /\ d # c => calls'[d] = calls[d] /\ Wrote(d)' = Wrote(d)
        /\ d = c => calls'[d].stage = "written" /\ Wrote(d)'
        /\ calls'[d].op = calls[d].op /\ calls'[d].actor = calls[d].actor
        /\ calls'[d].target = calls[d].target
        /\ calls'[d].seen = calls[d].seen /\ calls'[d].after = calls[d].after
  BY <1>1 DEF Wrote, Call
<1>4. \A u \in Users : members'[u] = IF u = target THEN NoRow ELSE members[u]
  BY <1>1
<1>5. /\ \A d \in Calls, id \in RowIds \cup {NoId} :
           /\ Accepted(d, id)' = Accepted(d, id)
           /\ d # c => Deleted(d, id)' = Deleted(d, id)
      /\ \A id \in RowIds \cup {NoId} : Deleted(c, id)' <=> id = gone
  BY <1>1, <1>3 DEF Accepted, Deleted, ChangedRow
<1>6. \A u \in Users : members[u] # NoRow /\ members[u].id = gone => u = target
  BY <1>1 DEF RowsIdentified
<1>7. FounderKept' /\ DeletedTeamEmpty'
  <2>1. exists /\ target # Founder
    BY <1>1 DEF FounderKept, DeletedTeamEmpty, FounderRow
  <2>2. ~NoRow.owner
    BY DEF NoRow
  <2> QED BY <1>1, <1>4, <2>1, <2>2, FounderAssumption DEF FounderKept, DeletedTeamEmpty
<1>8. RowsIdentified'
  BY <1>1, <1>4 DEF RowsIdentified, NoRow
<1>9. StagesReached'
  BY <1>1, <1>3 DEF StagesReached
<1>10. ReadsIdentified'
  BY <1>1, <1>3, <1>4 DEF ReadsIdentified, Wrote
<1>11. Settled'
  <2> SUFFICES ASSUME NEW d \in Calls, NEW u \in Users
               PROVE /\ Accepted(d, members[u].id)' => members'[u].accepted
                     /\ Deleted(d, members[u].id)' => members'[u] = NoRow
    BY DEF Settled
  <2>1. CASE u = target
    <3>1. members'[u] = NoRow /\ members'[u].id = NoId
      BY <1>4, <2>1 DEF NoRow
    <3>2. ~Accepted(d, NoId)
      BY RowIdsAssumption DEF Accepted, ChangedRow, ReadsIdentified, NoRow, Wrote
    <3> QED BY <1>5, <3>1, <3>2
  <2>2. CASE u # target
    <3>1. members'[u] = members[u] /\ members[u].id \in RowIds \cup {NoId}
      BY <1>4, <2>2 DEF Row
    <3>2. members[u].id # gone
      BY <1>1, <1>6, <2>2, RowIdsAssumption DEF RowsIdentified, NoRow
    <3> QED BY <1>5, <3>1, <3>2 DEF Settled
  <2> QED BY <2>1, <2>2
<1>12. ConsentGiven'
  BY <1>3, <1>4, <1>5 DEF ConsentGiven, NoRow, Row
<1>13. ResolvedOnce'
  <2>1. \A d \in Calls : ~Deleted(d, gone)
    BY <1>1 DEF Settled
  <2>2. calls[c].op = "decline" => \A d \in Calls : ~Accepted(d, gone)
    BY <1>1 DEF Settled
  <2> QED BY <1>1, <1>3, <1>5, <2>1, <2>2 DEF ResolvedOnce
<1>14. DeparturesCarriedOut'
  BY <1>3, <1>5 DEF DeparturesCarriedOut, AuditRecord, Deleted, ChangedRow
<1> QED BY <1>2, <1>7, <1>8, <1>9, <1>10, <1>11, <1>12, <1>13, <1>14

LEMMA DeleteMemberStep ==
  ASSUME Inv, NEW c \in Calls, DeleteMember(c)
  PROVE  Inv'
<1>1. CASE RemoveMatches(members[calls[c].target], calls[c].seen)
  BY <1>1, DeletionStep DEF DeleteMember, DeleteWhere, RemoveMatches, SameRow, Protected
<1>2. CASE ~RemoveMatches(members[calls[c].target], calls[c].seen)
  BY <1>2, RefusedStep DEF DeleteMember, DeleteWhere, Wrote
<1> QED BY <1>1, <1>2

LEMMA DeclineRowStep ==
  ASSUME Inv, NEW c \in Calls, DeclineRow(c)
  PROVE  Inv'
<1> DEFINE row == members[calls[c].actor]
<1>1. CASE DeclineMatches(row, calls[c].seen)
  <2>1. calls[c].actor = calls[c].target
    BY DEF DeclineRow, Inv, ReadsIdentified
  <2>2. row # NoRow /\ row.id = calls[c].seen.id /\ ~row.accepted
    BY <1>1 DEF DeclineMatches, SameRow, Pending
  <2>3. ~row.owner
    BY <2>2, FounderAssumption
       DEF Inv, FounderKept, DeletedTeamEmpty, FounderRow, TypeOK, Call
  <2> QED BY <1>1, <2>1, <2>2, <2>3, DeletionStep DEF DeclineRow, DeleteWhere
<1>2. CASE ~DeclineMatches(row, calls[c].seen)
  BY <1>2, RefusedStep DEF DeclineRow, DeleteWhere, Wrote
<1> QED BY <1>1, <1>2

LEMMA AcceptRowStep ==
  ASSUME Inv, NEW c \in Calls, AcceptRow(c)
  PROVE  Inv'
<1> DEFINE target == calls[c].target
           joined == calls[c].seen.id
<1> USE DEF Inv, TypeOK
<1>1. CASE ~AcceptMatches(members[calls[c].actor], calls[c].seen)
  BY <1>1, RefusedStep DEF AcceptRow, Wrote
<1>2. CASE AcceptMatches(members[calls[c].actor], calls[c].seen)
  <2> DEFINE after == [calls[c].seen EXCEPT !.accepted = TRUE]
             row == [members[target] EXCEPT !.accepted = TRUE]
  <2>1. /\ calls[c] \in Call /\ calls[c].op = "accept" /\ calls[c].stage = "read"
        /\ ~Wrote(c) /\ calls[c].actor = target /\ target \in Users
        /\ calls[c].seen \in Row /\ members[target] \in Row
    BY DEF AcceptRow, Wrote, ReadsIdentified, Call
  <2>2. /\ members[target] # NoRow /\ members[target].id = joined
        /\ ~members[target].accepted /\ joined \in RowIds
    BY <1>2, <2>1 DEF AcceptMatches, SameRow, Pending, RowsIdentified, Row
  <2>3. /\ after \in Row /\ after.id = joined /\ after # NoRow
        /\ row \in Row /\ row.id = joined /\ row.accepted /\ row # NoRow
        /\ row.owner = members[target].owner
    BY <2>1, <2>2, RowIdsAssumption DEF Row, NoRow
  <2>4. /\ members' = [members EXCEPT ![target] = row]
        /\ calls' = [calls EXCEPT ![c] = [@ EXCEPT !.after = after, !.stage = "written"]]
        /\ UNCHANGED <<exists, usedIds, auditLog, inviteNotes>>
    BY <1>2, <2>1 DEF AcceptRow
  <2> HIDE DEF after, row
  <2>5. \A d \in Calls :
          /\ d # c => calls'[d] = calls[d] /\ Wrote(d)' = Wrote(d)
          /\ d = c => calls'[d].stage = "written" /\ Wrote(d)' /\ calls'[d].after = after
          /\ calls'[d].op = calls[d].op /\ calls'[d].actor = calls[d].actor
          /\ calls'[d].target = calls[d].target
          /\ calls'[d].seen = calls[d].seen
    BY <2>1, <2>4 DEF Wrote, Call
  <2>6. \A u \in Users : members'[u] = IF u = target THEN row ELSE members[u]
    BY <2>4
  <2>7. TypeOK'
    BY <2>1, <2>3, <2>4 DEF Call, Stages
  <2>8. /\ \A d \in Calls, id \in RowIds \cup {NoId} :
             /\ Deleted(d, id)' = Deleted(d, id)
             /\ d # c => Accepted(d, id)' = Accepted(d, id)
        /\ \A id \in RowIds \cup {NoId} : Accepted(c, id)' <=> id = joined
    BY <2>1, <2>5 DEF Accepted, Deleted, ChangedRow
  <2>9. \A d \in Calls : ~Accepted(d, joined) /\ ~Deleted(d, joined)
    BY <2>1, <2>2 DEF Settled
  <2>10. FounderKept' /\ DeletedTeamEmpty'
    <3>1. exists /\ target # Founder
      BY <2>1, <2>2 DEF FounderKept, DeletedTeamEmpty, FounderRow
    <3> QED BY <2>1, <2>3, <2>4, <2>6, <3>1, FounderAssumption
        DEF FounderKept, DeletedTeamEmpty
  <2>11. RowsIdentified'
    BY <2>2, <2>3, <2>4, <2>6 DEF RowsIdentified
  <2>12. StagesReached'
    BY <2>1, <2>4, <2>5 DEF StagesReached
  <2>13. ReadsIdentified'
    BY <2>1, <2>2, <2>3, <2>4, <2>5, <2>6 DEF ReadsIdentified, Wrote
  <2>14. Settled'
    <3> SUFFICES ASSUME NEW d \in Calls, NEW u \in Users
                 PROVE /\ Accepted(d, members[u].id)' => members'[u].accepted
                       /\ Deleted(d, members[u].id)' => members'[u] = NoRow
      BY DEF Settled
    <3>1. CASE u = target
      BY <2>2, <2>3, <2>6, <2>8, <2>9, <3>1
    <3>2. CASE u # target
      <4>1. members'[u] = members[u] /\ members[u].id \in RowIds \cup {NoId}
        BY <2>6, <3>2 DEF Row
      <4>2. members[u].id # joined
        BY <2>1, <2>2, <3>2 DEF RowsIdentified
      <4> QED BY <2>8, <4>1, <4>2 DEF Settled
    <3> QED BY <3>1, <3>2
  <2>15. ConsentGiven'
    <3> SUFFICES ASSUME NEW u \in Users \ {Founder}, members'[u].accepted
                 PROVE \E d \in Calls : Accepted(d, members[u].id)' /\ calls'[d].actor = u
      BY DEF ConsentGiven
    <3>1. CASE u = target
      BY <2>1, <2>2, <2>3, <2>5, <2>6, <2>8, <3>1
    <3>2. CASE u # target
      <4>1. members'[u] = members[u] /\ members[u].id \in RowIds \cup {NoId}
        BY <2>6, <3>2 DEF Row
      <4>2. PICK d \in Calls : Accepted(d, members[u].id) /\ calls[d].actor = u
        BY <4>1 DEF ConsentGiven
      <4>3. d # c
        BY <2>1, <4>2 DEF Accepted
      <4> QED BY <2>5, <2>8, <4>1, <4>2, <4>3
    <3> QED BY <3>1, <3>2
  <2>16. ResolvedOnce'
    BY <2>2, <2>5, <2>8, <2>9 DEF ResolvedOnce
  <2>17. DeparturesCarriedOut'
    BY <2>4, <2>8 DEF DeparturesCarriedOut, AuditRecord
  <2> QED BY <2>7, <2>10, <2>11, <2>12, <2>13, <2>14, <2>15, <2>16, <2>17
<1> QED BY <1>1, <1>2

\* The deletion of the team: every row is gone, and what the requests say of
\* rows that are gone stays true.
LEMMA DeleteTeamStep ==
  ASSUME Inv, NEW c \in Calls, DeleteTeam(c)
  PROVE  Inv'
<1> USE DEF Inv, TypeOK
<1>1. CASE ~exists
  BY <1>1, RefusedStep DEF DeleteTeam, Wrote
<1>2. CASE exists
  <2>1. /\ calls[c] \in Call /\ calls[c].stage = "owned" /\ ~Wrote(c)
        /\ exists' = FALSE /\ members' = [u \in Users |-> NoRow]
        /\ calls' = [calls EXCEPT ![c].stage = "closed"]
        /\ UNCHANGED <<usedIds, auditLog, inviteNotes>>
    BY <1>2 DEF DeleteTeam, Advance, Wrote
  <2>2. TypeOK'
    BY <2>1, RowsTyped DEF Call, Stages
  <2>3. \A d \in Calls :
          /\ Wrote(d)' = Wrote(d)
          /\ d # c => calls'[d] = calls[d]
          /\ d = c => calls'[d].stage = "closed"
          /\ calls'[d].op = calls[d].op /\ calls'[d].actor = calls[d].actor
          /\ calls'[d].target = calls[d].target
          /\ calls'[d].seen = calls[d].seen /\ calls'[d].after = calls[d].after
    BY <2>1 DEF Wrote, Call
  <2>4. \A u \in Users : members'[u] = NoRow /\ members'[u].id = NoId
    BY <2>1 DEF NoRow
  <2>5. \A d \in Calls, id \in RowIds \cup {NoId} :
          Accepted(d, id)' = Accepted(d, id) /\ Deleted(d, id)' = Deleted(d, id)
    BY <2>3 DEF Accepted, Deleted, ChangedRow
  <2>6. FounderKept' /\ DeletedTeamEmpty' /\ RowsIdentified'
    BY <2>1, <2>4 DEF FounderKept, DeletedTeamEmpty, RowsIdentified, NoRow
  <2>7. StagesReached'
    BY <2>1, <2>3 DEF StagesReached
  <2>8. ReadsIdentified'
    BY <2>1, <2>3, <2>4 DEF ReadsIdentified, Wrote
  <2>9. Settled'
    <3>1. \A d \in Calls : ~Accepted(d, NoId)
      BY RowIdsAssumption DEF Accepted, ChangedRow, ReadsIdentified, NoRow, Wrote
    <3> QED BY <2>4, <2>5, <3>1 DEF Settled
  <2>10. ConsentGiven'
    BY <2>4 DEF ConsentGiven, NoRow
  <2>11. ResolvedOnce' /\ DeparturesCarriedOut'
    BY <2>1, <2>3, <2>5 DEF ResolvedOnce, DeparturesCarriedOut, AuditRecord
  <2> QED BY <2>2, <2>6, <2>7, <2>8, <2>9, <2>10, <2>11
<1> QED BY <1>1, <1>2

\* The upsert, whichever branch it takes, leaves an unaccepted new row or the
\* old row with other permissions.
LEMMA StoreStep ==
  ASSUME Inv, NEW c \in Calls, NEW row \in Row, NEW ids \in SUBSET RowIds,
         calls[c].stage = "read", calls[c].op = "add",
         members' = [members EXCEPT ![calls[c].target] = row],
         calls' = [calls EXCEPT ![c].after = row, ![c].stage = "written"],
         usedIds' = usedIds \cup ids,
         UNCHANGED <<exists, auditLog, inviteNotes>>,
         row # NoRow, row.id \in usedIds \cup ids, row.id # NoId,
         row.owner = members[calls[c].target].owner,
         row.accepted = members[calls[c].target].accepted,
         calls[c].target # Founder, exists,
         \/ members[calls[c].target] # NoRow /\ row.id = members[calls[c].target].id
         \/ members[calls[c].target] = NoRow /\ row.id \notin usedIds /\ row.id \in RowIds
  PROVE  Inv'
<1> DEFINE target == calls[c].target
<1> USE DEF Inv, TypeOK
<1>1. /\ calls[c] \in Call /\ target \in Users /\ ~Wrote(c)
  BY DEF Call, Wrote
<1>2. \A d \in Calls :
        /\ d # c => calls'[d] = calls[d] /\ Wrote(d)' = Wrote(d)
        /\ d = c => calls'[d].stage = "written" /\ Wrote(d)' /\ calls'[d].after = row
        /\ calls'[d].op = calls[d].op /\ calls'[d].actor = calls[d].actor
        /\ calls'[d].target = calls[d].target
        /\ calls'[d].seen = calls[d].seen
  BY <1>1 DEF Wrote, Call
<1>3. \A u \in Users : members'[u] = IF u = target THEN row ELSE members[u]
  BY <1>1
<1>4. TypeOK'
  BY <1>1 DEF Call, Stages
<1>5. \A d \in Calls, id \in RowIds \cup {NoId} :
        Deleted(d, id)' = Deleted(d, id) /\ Accepted(d, id)' = Accepted(d, id)
  BY <1>1, <1>2 DEF Accepted, Deleted, ChangedRow
<1>6. FounderKept' /\ DeletedTeamEmpty'
  BY <1>1, <1>3, FounderAssumption DEF FounderKept, DeletedTeamEmpty
<1>7. RowsIdentified'
  <2>1. \A u \in Users : u # target => (members[u] # NoRow => members[u].id # row.id)
    BY <1>1 DEF RowsIdentified
  <2>2. \A u, v \in Users :
          (members'[u] # NoRow /\ members'[u].id = members'[v].id) => u = v
    <3> SUFFICES ASSUME NEW u \in Users, NEW v \in Users, members'[u] # NoRow,
                        members'[u].id = members'[v].id, u # v
                 PROVE  FALSE
      OBVIOUS
    <3>1. CASE u = target
      BY <1>3, <2>1, <3>1 DEF RowsIdentified, NoRow
    <3>2. CASE v = target
      BY <1>3, <2>1, <3>2 DEF RowsIdentified
    <3>3. CASE u # target /\ v # target
      BY <1>3, <3>3 DEF RowsIdentified
    <3> QED BY <3>1, <3>2, <3>3
  <2>3. FounderId \in usedIds' /\ \A u \in Users : members'[u] # NoRow => members'[u].id \in usedIds'
    BY <1>3 DEF RowsIdentified
  <2>4. \A u \in Users : members'[u].id = NoId => members'[u] = NoRow
    BY <1>3 DEF RowsIdentified
  <2> QED BY <2>2, <2>3, <2>4 DEF RowsIdentified
<1>8. StagesReached'
  BY <1>1, <1>2 DEF StagesReached
<1>9. \A d \in Calls : calls[d].seen.id = row.id => calls[d].target = target
  <2> SUFFICES ASSUME NEW d \in Calls, calls[d].seen.id = row.id
               PROVE calls[d].target = target
    OBVIOUS
  <2>1. row.id \in usedIds
    BY DEF ReadsIdentified
  <2>2. members[target] # NoRow /\ row.id = members[target].id
    BY <2>1
  <2> QED BY <1>1, <2>2 DEF ReadsIdentified
<1>10. ReadsIdentified'
  <2>1. \A d \in Calls : calls'[d].seen.id \in usedIds' \cup {NoId}
    BY <1>2 DEF ReadsIdentified
  <2>2. \A d \in Calls, u \in Users :
          (members'[u] # NoRow /\ members'[u].id = calls'[d].seen.id)
            => u = calls'[d].target
    BY <1>2, <1>3, <1>9 DEF ReadsIdentified
  <2>3. calls[c].stage = "read" => ~Wrote(c)
    BY DEF Wrote
  <2>4. ReadsIdentified
    OBVIOUS
  <2> QED BY <1>1, <1>2, <2>1, <2>2, <2>3, <2>4 DEF ReadsIdentified
<1>11. \A d \in Calls : (Accepted(d, row.id) \/ Deleted(d, row.id))
                         => row.id = members[target].id /\ members[target] # NoRow
  BY DEF Accepted, Deleted, ChangedRow, ReadsIdentified
<1>12. Settled'
  BY <1>1, <1>3, <1>5, <1>11 DEF Settled, Row
<1>13. ConsentGiven'
  <2> SUFFICES ASSUME NEW u \in Users \ {Founder}, members'[u].accepted
               PROVE \E d \in Calls : Accepted(d, members[u].id)' /\ calls'[d].actor = u
    BY DEF ConsentGiven
  <2>1. members[u].accepted /\ members'[u].id = members[u].id
    BY <1>3 DEF NoRow
  <2>2. members[u].id \in RowIds \cup {NoId}
    BY DEF Row
  <2>3. PICK d \in Calls : Accepted(d, members[u].id) /\ calls[d].actor = u
    BY <2>1 DEF ConsentGiven
  <2> QED BY <1>2, <1>5, <2>1, <2>2, <2>3
<1>14. ResolvedOnce' /\ DeparturesCarriedOut'
  BY <1>2, <1>5 DEF ResolvedOnce, DeparturesCarriedOut, AuditRecord
<1> QED BY <1>4, <1>6, <1>7, <1>8, <1>10, <1>12, <1>13, <1>14

LEMMA UpsertMemberStep ==
  ASSUME Inv, NEW c \in Calls, UpsertMember(c)
  PROVE  Inv'
<1> DEFINE target == calls[c].target
           grant == calls[c].grant
<1>1. /\ calls[c].stage = "read" /\ calls[c].op = "add" /\ grant \in BOOLEAN
      /\ target \in Users /\ members[target] \in Row
  BY DEF UpsertMember, Inv, TypeOK, Call
<1>2. exists => target # Founder
  BY <1>1 DEF Inv, StagesReached
<1>3. CASE members[target] = NoRow /\ KeyHolds
  <2>1. PICK id \in RowIds \ usedIds :
          /\ members' = [members EXCEPT ![target] = InvitedRow(id, grant)]
          /\ calls' = [calls EXCEPT ![c].after = InvitedRow(id, grant),
                                     ![c].stage = "written"]
          /\ usedIds' = usedIds \cup {id}
          /\ UNCHANGED <<exists, auditLog, inviteNotes>>
          /\ exists
    BY <1>3 DEF UpsertMember, KeyHolds
  <2> DEFINE row == InvitedRow(id, grant)
  <2>2. row \in Row
    BY <1>1, RowsTyped
  <2>3. row.id = id /\ ~row.accepted /\ ~row.owner /\ row # NoRow
    BY RowIdsAssumption DEF InvitedRow, NoRow
  <2>4. ~members[target].owner /\ ~members[target].accepted
    BY <1>3 DEF NoRow
  <2>5. row.owner = members[target].owner /\ row.accepted = members[target].accepted
    BY <2>3, <2>4, <1>3 DEF InvitedRow, NoRow
  <2>6. {id} \in SUBSET RowIds /\ row.id # NoId /\ row.id \in usedIds \cup {id}
    BY <2>3, RowIdsAssumption
  <2> HIDE DEF row
  <2> QED BY <1>1, <1>2, <1>3, <2>1, <2>2, <2>3, <2>4, <2>5, <2>6, StoreStep DEF row
<1>4. CASE members[target] # NoRow
  <2> DEFINE row == UpdatedRow(members[target], grant)
  <2>1. /\ members' = [members EXCEPT ![target] = row]
        /\ calls' = [calls EXCEPT ![c].after = row, ![c].stage = "written"]
        /\ UNCHANGED <<exists, usedIds, auditLog, inviteNotes>>
    BY <1>4 DEF UpsertMember
  <2>2. row \in Row
    BY <1>1, RowsTyped
  <2>3. /\ row.id = members[target].id /\ row.owner = members[target].owner
        /\ row.accepted = members[target].accepted
    BY <1>1 DEF UpdatedRow, Row
  <2>4. row.id \in usedIds /\ row.id # NoId
    BY <1>1, <1>4, <2>3, RowIdsAssumption DEF Inv, RowsIdentified, TypeOK
  <2>5. usedIds = usedIds \cup {} /\ {} \in SUBSET RowIds /\ row # NoRow
    BY <1>4, <2>4 DEF NoRow
  <2> HIDE DEF row
  <2>6. exists
    BY <1>1, <1>4 DEF Inv, DeletedTeamEmpty
  <2> QED BY <1>1, <1>2, <1>4, <2>1, <2>2, <2>3, <2>4, <2>5, <2>6, StoreStep DEF NoRow
<1>5. CASE members[target] = NoRow /\ ~KeyHolds
  BY <1>1, <1>5, RefusedStep DEF UpsertMember, Wrote
<1> QED BY <1>3, <1>4, <1>5

--------------------------------------------------------------------------
(* The theorems.                                                          *)

LEMMA NextInv == Inv /\ [Next]_vars => Inv'
<1> SUFFICES ASSUME Inv, [Next]_vars PROVE Inv'
  OBVIOUS
<1>1. CASE UNCHANGED vars
  BY <1>1 DEF vars, Inv, TypeOK, FounderKept, DeletedTeamEmpty, RowsIdentified, StagesReached,
              ReadsIdentified, Settled, ConsentGiven, ResolvedOnce,
              DeparturesCarriedOut, Accepted, Deleted, Wrote
<1>2. ASSUME NEW c \in Calls, Begin(c) PROVE Inv'
  BY <1>2, AuthoriseStep, FindInvitationStep, FindOwnedStep DEF Begin
<1>3. ASSUME NEW c \in Calls, Proceed(c) PROVE Inv'
  BY <1>3, ReadTargetStep, UpsertMemberStep, DeleteMemberStep, AcceptRowStep,
     DeclineRowStep, RecordAuditStep, NotifyInviteeStep, AnswerStep, DeleteTeamStep
     DEF Proceed
<1> QED BY <1>1, <1>2, <1>3 DEF Next

THEOREM Invariance == Spec => []Inv
<1>1. Init => Inv
  BY InitInv
<1>2. Inv /\ [Next]_vars => Inv'
  BY NextInv
<1> QED BY <1>1, <1>2, PTL DEF Spec

\* The state keeps the shape of the schema: no record names a row that never
\* existed.
THEOREM TypeCorrect == Spec => []TypeOK
<1>1. Inv => TypeOK
  BY DEF Inv
<1> QED BY <1>1, Invariance, PTL

\* The team keeps its founder as its one owner.
THEOREM FounderSafe == Spec => []FounderKept
<1>1. Inv => FounderKept
  BY DEF Inv
<1> QED BY <1>1, Invariance, PTL

\* Every member other than the founder has accepted the row it holds.
THEOREM Consent == Spec => []ConsentGiven
<1>1. Inv => ConsentGiven
  BY DEF Inv
<1> QED BY <1>1, Invariance, PTL

\* No request in flight puts a row into a team that was deleted.
THEOREM DeletionFinal == Spec => []DeletedTeamEmpty
<1>1. Inv => DeletedTeamEmpty
  BY DEF Inv
<1> QED BY <1>1, Invariance, PTL

\* Racing answers and removals settle an invitation once.
THEOREM SettledOnce == Spec => []ResolvedOnce
<1>1. Inv => ResolvedOnce
  BY DEF Inv
<1> QED BY <1>1, Invariance, PTL

\* A departure on record is final.
THEOREM DeparturesFinal == Spec => []AuditedDepartures
<1>1. Inv => AuditedDepartures
  <2> SUFFICES ASSUME Inv, NEW record \in auditLog,
                      record.action \in {"REMOVE", "DECLINE"}, NEW u \in Users,
                      members[u].id = record.row
               PROVE  FALSE
    BY DEF AuditedDepartures
  <2>1. record.call \in Calls /\ record.row \in RowIds
    BY DEF Inv, TypeOK, AuditRecord
  <2>2. Deleted(record.call, members[u].id)
    BY DEF Inv, DeparturesCarriedOut
  <2>3. members[u] = NoRow
    BY <2>1, <2>2 DEF Inv, Settled
  <2> QED BY <2>1, <2>3, RowIdsAssumption DEF NoRow
<1> QED BY <1>1, Invariance, PTL
--------------------------------------------------------------------------
(* Implementation of the abstract life of invitations: every step of a    *)
(* request leaves the table alone, updates permissions, or is one of the  *)
(* four abstract steps.                                                   *)

Creation(u, id, grant) ==
  /\ exists /\ members[u] = NoRow
  /\ members' = [members EXCEPT ![u] = InvitedRow(id, grant)]
  /\ usedIds' = usedIds \cup {id}

Update(u, grant) ==
  /\ members[u] # NoRow
  /\ members' = [members EXCEPT ![u] = UpdatedRow(members[u], grant)]
  /\ UNCHANGED usedIds

Acceptance(u) ==
  /\ Pending(members[u])
  /\ members' = [members EXCEPT ![u].accepted = TRUE]
  /\ UNCHANGED usedIds

Departure(u) ==
  /\ u # Founder /\ members[u] # NoRow
  /\ members' = [members EXCEPT ![u] = NoRow]
  /\ UNCHANGED usedIds

Closure ==
  /\ exists
  /\ members' = [u \in Users |-> NoRow]
  /\ UNCHANGED usedIds

TableStep ==
  \/ UNCHANGED <<members, usedIds>>
  \/ Closure
  \/ \E u \in Users, id \in RowIds \ usedIds, grant \in BOOLEAN : Creation(u, id, grant)
  \/ \E u \in Users, grant \in BOOLEAN : Update(u, grant)
  \/ \E u \in Users : Acceptance(u) \/ Departure(u)

LEMMA TableSteps == Inv /\ [Next]_vars => TableStep
<1> SUFFICES ASSUME Inv, [Next]_vars PROVE TableStep
  OBVIOUS
<1> USE DEF Inv, TypeOK
<1>1. CASE UNCHANGED vars
  BY <1>1 DEF vars, TableStep
<1>2. ASSUME NEW c \in Calls, Begin(c) PROVE TableStep
  BY <1>2 DEF Begin, Authorise, FindInvitation, FindOwned, TableStep
<1>3. ASSUME NEW c \in Calls, Proceed(c) PROVE TableStep
  <2>1. calls[c].target \in Users /\ calls[c].actor \in Users /\ calls[c].grant \in BOOLEAN
    BY DEF Call
  <2>2. CASE ReadTarget(c) \/ RecordAudit(c) \/ NotifyInvitee(c) \/ Answer(c)
    BY <2>2 DEF ReadTarget, RecordAudit, NotifyInvitee, Answer, TableStep
  <2>3. CASE UpsertMember(c)
    BY <2>1, <2>3 DEF UpsertMember, KeyHolds, TableStep, Creation, Update
  <2>4. CASE DeleteMember(c)
    <3>1. RemoveMatches(members[calls[c].target], calls[c].seen)
            => calls[c].target # Founder /\ members[calls[c].target] # NoRow
      BY DEF RemoveMatches, SameRow, Protected, FounderKept, DeletedTeamEmpty,
             FounderRow, Call
    <3> QED BY <2>1, <2>4, <3>1 DEF DeleteMember, DeleteWhere, TableStep, Departure
  <2>5. CASE DeclineRow(c)
    <3>1. calls[c].actor = calls[c].target
      BY <2>5 DEF DeclineRow, ReadsIdentified
    <3>2. DeclineMatches(members[calls[c].actor], calls[c].seen)
            => calls[c].actor # Founder /\ members[calls[c].actor] # NoRow
      BY DEF DeclineMatches, SameRow, Pending, FounderKept, DeletedTeamEmpty,
             FounderRow, Call
    <3> QED BY <2>1, <2>5, <3>1, <3>2 DEF DeclineRow, DeleteWhere, TableStep, Departure
  <2>6. CASE AcceptRow(c)
    BY <2>1, <2>6 DEF AcceptRow, AcceptMatches, TableStep, Acceptance
  <2>7. CASE DeleteTeam(c)
    BY <2>7 DEF DeleteTeam, TableStep, Closure
  <2> QED BY <1>3, <2>2, <2>3, <2>4, <2>5, <2>6, <2>7 DEF Proceed
<1> QED BY <1>1, <1>2, <1>3 DEF Next

LEMMA UpdatesStep ==
  Inv /\ [Next]_vars =>
    \A u \in Users :
      (members[u] # NoRow /\ members'[u].id = members[u].id) =>
        /\ members[u].accepted => members'[u].accepted
        /\ members'[u].owner = members[u].owner
<1> SUFFICES ASSUME Inv, [Next]_vars, NEW u \in Users, members[u] # NoRow,
                    members'[u].id = members[u].id
             PROVE  /\ members[u].accepted => members'[u].accepted
                    /\ members'[u].owner = members[u].owner
  OBVIOUS
<1> USE DEF Inv, TypeOK
<1>1. TableStep /\ members[u] \in Row /\ members[u].id # NoId
  BY TableSteps DEF RowsIdentified
<1>2. CASE UNCHANGED members
  BY <1>2
<1>3. ASSUME NEW v \in Users, NEW id \in RowIds, NEW g \in BOOLEAN, Creation(v, id, g)
      PROVE  members'[u] = members[u]
  BY <1>3 DEF Creation
<1>4. ASSUME NEW v \in Users, NEW g \in BOOLEAN, Update(v, g)
      PROVE  /\ members[u].accepted => members'[u].accepted
             /\ members'[u].owner = members[u].owner
  <2>1. UpdatedRow(members[u], g).accepted = members[u].accepted
        /\ UpdatedRow(members[u], g).owner = members[u].owner
    BY <1>1 DEF UpdatedRow, Row
  <2> QED BY <1>4, <2>1 DEF Update
<1>5. ASSUME NEW v \in Users, Acceptance(v)
      PROVE  /\ members[u].accepted => members'[u].accepted
             /\ members'[u].owner = members[u].owner
  BY <1>1, <1>5 DEF Acceptance, Row
<1>6. ASSUME NEW v \in Users, Departure(v) PROVE members'[u] = members[u]
  BY <1>1, <1>6 DEF Departure, NoRow
<1>7. CASE Closure
  BY <1>1, <1>7 DEF Closure, NoRow
<1> QED BY <1>1, <1>2, <1>3, <1>4, <1>5, <1>6, <1>7 DEF TableStep

\* Updates touch permissions only.
THEOREM StandingKept == Spec => UpdatesKeepStanding
BY UpdatesStep, Invariance, PTL DEF Spec, UpdatesKeepStanding
LEMMA LifecycleInit == Init => Lifecycle!Init
<1> SUFFICES ASSUME Init PROVE Lifecycle!Init
  OBVIOUS
<1>1. \A u \in Users : /\ members[u].accepted <=> u = Founder
                       /\ ~Pending(members[u])
  BY DEF Init, Pending, FounderRow, NoRow
<1>2. members[Founder].id = FounderId
  BY FounderAssumption DEF Init, FounderRow
<1>3. InvitedRows = {}
  BY <1>1 DEF InvitedRows
<1>4. JoinedRows = {[id |-> FounderId, user |-> Founder]}
  BY <1>1, <1>2, FounderAssumption DEF JoinedRows
<1>5. EndedIds = {}
  BY <1>2, FounderAssumption DEF EndedIds, Init
<1> QED BY <1>3, <1>4, <1>5 DEF Lifecycle!Init, Lifecycle!FounderRow

LEMMA LifecycleStep == Inv /\ [Next]_vars => [Lifecycle!Next]_(Lifecycle!lifecycleVars)
<1> SUFFICES ASSUME Inv, [Next]_vars
             PROVE  Lifecycle!Next \/ UNCHANGED <<InvitedRows, JoinedRows, EndedIds>>
  BY DEF Lifecycle!lifecycleVars
<1> USE DEF Inv, TypeOK
<1> DEFINE entry(u) == [id |-> members[u].id, user |-> u]
<1>1. TableStep /\ RowsIdentified
  BY TableSteps
<1>2. CASE UNCHANGED <<members, usedIds>>
  BY <1>2 DEF InvitedRows, JoinedRows, EndedIds
<1>3. ASSUME NEW u \in Users, NEW id \in RowIds \ usedIds, NEW g \in BOOLEAN,
             Creation(u, id, g)
      PROVE  Lifecycle!Next
  <2> DEFINE row == [id |-> id, user |-> u]
  <2>1. \A v \in Users : members'[v] = IF v = u THEN InvitedRow(id, g) ELSE members[v]
    BY <1>3 DEF Creation
  <2>2. InvitedRow(id, g).id = id /\ ~InvitedRow(id, g).accepted
        /\ InvitedRow(id, g) # NoRow /\ members[u] = NoRow
    BY <1>3, RowIdsAssumption DEF Creation, InvitedRow, NoRow
  <2>3. InvitedRows' = InvitedRows \cup {row}
    BY <2>1, <2>2 DEF InvitedRows, Pending
  <2>4. JoinedRows' = JoinedRows
    BY <2>1, <2>2 DEF JoinedRows, NoRow
  <2>5. EndedIds' = EndedIds
    <3>1. {members'[v].id : v \in Users} \cup {NoId}
            = {members[v].id : v \in Users} \cup {id, NoId}
      BY <2>1, <2>2 DEF NoRow
    <3>2. \A v \in Users : members[v].id # id
      BY RowIdsAssumption DEF RowsIdentified, NoRow
    <3>3. usedIds' = usedIds \cup {id} /\ NoId \notin usedIds' /\ id \notin usedIds
      BY <1>3, RowIdsAssumption DEF Creation
    <3> DEFINE ids == {members[v].id : v \in Users}
    <3>4. \A x : x \in ids' \/ x = NoId <=> x \in ids \/ x \in {id, NoId}
      BY <3>1
    <3>5. EndedIds = usedIds \ ids /\ EndedIds' = usedIds' \ ids'
      BY DEF EndedIds
    <3> HIDE DEF ids
    <3>6. ASSUME NEW x PROVE x \in usedIds' \ ids' <=> x \in usedIds \ ids
      BY <3>3, <3>4
    <3> QED BY <3>5, <3>6
  <2>6. id \notin {r.id : r \in InvitedRows \cup JoinedRows} \cup EndedIds
    BY RowIdsAssumption DEF InvitedRows, JoinedRows, EndedIds, RowsIdentified, Pending, NoRow
  <2>7. \A other \in InvitedRows \cup JoinedRows : other.user # u
    <3>1. ~NoRow.accepted
      BY DEF NoRow
    <3> SUFFICES ASSUME NEW v \in Users, Pending(members[v]) \/ members[v].accepted
                 PROVE  v # u
      BY DEF InvitedRows, JoinedRows
    <3> QED BY <2>2, <3>1 DEF Pending
  <2>8. [id |-> FounderId, user |-> Founder] \in JoinedRows
    BY <1>3, FounderAssumption DEF Creation, JoinedRows, FounderKept, FounderRow
  <2>9. Lifecycle!Invite(row)
    BY <2>3, <2>4, <2>5, <2>6, <2>7, <2>8
       DEF Lifecycle!Invite, Lifecycle!Taken, Lifecycle!Open, Lifecycle!FounderRow
  <2> QED BY <2>9 DEF Lifecycle!Next, Lifecycle!Rows
<1>4. ASSUME NEW u \in Users, NEW g \in BOOLEAN, Update(u, g)
      PROVE  UNCHANGED <<InvitedRows, JoinedRows, EndedIds>>
  <2>1. /\ UpdatedRow(members[u], g).id = members[u].id
        /\ UpdatedRow(members[u], g).accepted = members[u].accepted
        /\ UpdatedRow(members[u], g) # NoRow
    BY <1>4, RowIdsAssumption DEF UpdatedRow, Update, Row, RowsIdentified, NoRow
  <2>2. \A v \in Users : /\ members'[v].id = members[v].id
                         /\ members'[v].accepted = members[v].accepted
                         /\ members'[v] # NoRow <=> members[v] # NoRow
    BY <1>4, <2>1 DEF Update
  <2> QED BY <1>4, <2>2 DEF InvitedRows, JoinedRows, EndedIds, Pending, Update
<1>5. ASSUME NEW u \in Users, Acceptance(u) PROVE Lifecycle!Next
  <2> DEFINE row == [members[u] EXCEPT !.accepted = TRUE]
  <2>1. members[u] \in Row /\ members[u] # NoRow /\ ~members[u].accepted
        /\ members[u].id \in RowIds
    BY <1>5 DEF Acceptance, Pending, RowsIdentified
  <2>2. row.id = members[u].id /\ row.accepted /\ row # NoRow
    BY <2>1 DEF Row, NoRow
  <2>3. \A v \in Users : members'[v] = IF v = u THEN row ELSE members[v]
    BY <1>5 DEF Acceptance
  <2> HIDE DEF row
  <2>4. entry(u) \in InvitedRows
    BY <2>1 DEF InvitedRows, Pending
  <2>5. InvitedRows' = InvitedRows \ {entry(u)}
    BY <2>1, <2>2, <2>3 DEF InvitedRows, Pending
  <2>6. JoinedRows' = JoinedRows \cup {entry(u)}
    BY <2>1, <2>2, <2>3 DEF JoinedRows
  <2>7. EndedIds' = EndedIds
    BY <1>5, <2>2, <2>3 DEF EndedIds, Acceptance
  <2>8. Lifecycle!Join(entry(u))
    BY <2>4, <2>5, <2>6, <2>7 DEF Lifecycle!Join
  <2> QED BY <2>1, <2>8 DEF Lifecycle!Next, Lifecycle!Rows
<1>6. ASSUME NEW u \in Users, Departure(u) PROVE Lifecycle!Next
  <2>1. u # Founder /\ members[u] # NoRow /\ members[u].id \in usedIds
        /\ usedIds' = usedIds /\ ~NoRow.accepted /\ NoRow.id = NoId
    BY <1>6 DEF Departure, RowsIdentified, NoRow
  <2>2. \A v \in Users : members'[v] = IF v = u THEN NoRow ELSE members[v]
    BY <1>6 DEF Departure
  <2>3. entry(u) \in (InvitedRows \cup JoinedRows) \ {[id |-> FounderId, user |-> Founder]}
    BY <2>1 DEF InvitedRows, JoinedRows, Pending
  <2>4. InvitedRows' = InvitedRows \ {entry(u)}
    BY <2>1, <2>2 DEF InvitedRows, Pending
  <2>5. JoinedRows' = JoinedRows \ {entry(u)}
    BY <2>1, <2>2 DEF JoinedRows
  <2>6. EndedIds' = EndedIds \cup {members[u].id}
    <3>1. \A v \in Users : v # u => members[v].id # members[u].id
      BY <2>1 DEF RowsIdentified
    <3>2. {members'[v].id : v \in Users} \cup {NoId}
            = ({members[v].id : v \in Users} \ {members[u].id}) \cup {NoId}
      BY <2>1, <2>2, <3>1
    <3> QED BY <2>1, <3>2, RowIdsAssumption DEF EndedIds
  <2>7. Lifecycle!End(entry(u))
    BY <2>3, <2>4, <2>5, <2>6
       DEF Lifecycle!End, Lifecycle!Open, Lifecycle!FounderRow
  <2> QED BY <2>1, <2>7 DEF Lifecycle!Next, Lifecycle!Rows
<1>7. CASE Closure
  <2> DEFINE open == {r.id : r \in InvitedRows \cup JoinedRows}
             held == {members[u].id : u \in Users}
  <2>1. [id |-> FounderId, user |-> Founder] \in JoinedRows
    BY <1>7, FounderAssumption DEF Closure, JoinedRows, FounderKept, FounderRow
  <2>2. InvitedRows' = {} /\ JoinedRows' = {}
    BY <1>7 DEF Closure, InvitedRows, JoinedRows, Pending, NoRow
  <2>3. \A u \in Users : members'[u].id = NoId
    BY <1>7 DEF Closure, NoRow
  <2>4. EndedIds' = usedIds
    BY <1>7, <2>3, RowIdsAssumption DEF Closure, EndedIds
  <2>5. \A x \in usedIds : x \in held <=> x \in open
    <3>1. \A u \in Users : members[u].id \in usedIds
                             => Pending(members[u]) \/ members[u].accepted
      BY RowIdsAssumption DEF Pending, NoRow
    <3>2. \A r \in InvitedRows \cup JoinedRows : r.user \in Users /\ r.id = members[r.user].id
      BY DEF InvitedRows, JoinedRows
    <3>3. \A u \in Users : members[u].id \in usedIds
                             => entry(u) \in InvitedRows \cup JoinedRows
      BY <3>1 DEF InvitedRows, JoinedRows
    <3>4. ASSUME NEW u \in Users, members[u].id \in usedIds
          PROVE  members[u].id \in open
      <4>1. entry(u) \in InvitedRows \cup JoinedRows /\ entry(u).id = members[u].id
        BY <3>3, <3>4
      <4> QED BY <4>1
    <3> QED BY <3>2, <3>4
  <2>6. open \in SUBSET usedIds
    <3>1. \A u \in Users : Pending(members[u]) \/ members[u].accepted
                             => members[u].id \in usedIds
      BY DEF Pending, RowsIdentified, NoRow
    <3> QED BY <3>1 DEF InvitedRows, JoinedRows
  <2>7. EndedIds = usedIds \ held
    BY DEF EndedIds
  <2> HIDE DEF open, held
  <2>8. EndedIds' = open \cup EndedIds
    BY <2>4, <2>5, <2>6, <2>7
  <2>9. Lifecycle!Close
    BY <2>1, <2>2, <2>8
       DEF open, Lifecycle!Close, Lifecycle!FounderRow, Lifecycle!Taken, Lifecycle!Open
  <2> QED BY <2>9 DEF Lifecycle!Next
<1> QED BY <1>1, <1>2, <1>3, <1>4, <1>5, <1>6, <1>7 DEF TableStep

\* The requests, however they interleave, implement the abstract life of
\* invitations: one open row per user, accepted once, ended once, never back.
THEOREM Implementation == Spec => LifecycleSpec
<1>1. Init => Lifecycle!Init
  BY LifecycleInit
<1>2. Inv /\ [Next]_vars => [Lifecycle!Next]_(Lifecycle!lifecycleVars)
  BY LifecycleStep
<1> QED BY <1>1, <1>2, Invariance, PTL DEF Spec, LifecycleSpec, Lifecycle!Spec
==========================================================================
