--------------------------- MODULE Friendships ---------------------------
(* Friend requests, acceptances, removals and blocks between users        *)
(* (user-friendship-actions service).                                     *)
(*                                                                        *)
(* What two users are to each other is a row of the table friends, with a *)
(* requester and an addressee; the table is unique in that ordered pair   *)
(* only.  Every handler looks for a row of the pair, in either order, and *)
(* then writes in a second statement that names the row by its identifier *)
(* or creates one.  Nothing orders two handlers, and one may die between  *)
(* its two statements: it then takes no further step.                     *)
CONSTANTS
  Calls,   \* the requests that may arrive; each runs once
  Users,   \* the users who send them
  RowIds,  \* the row identifiers the database can hand out
  Nobody,  \* no user
  NoId     \* the identifier of no row

ASSUME NobodyAssumption == Nobody \notin Users
ASSUME NoIdAssumption == NoId \notin RowIds

VARIABLES
  rows,      \* the table friends, by row identifier
  usedIds,   \* the row identifiers handed out so far
  calls,     \* the requests, with what each has read
  consents,  \* history: the users who asked for or accepted each row
  raced      \* history: has a request written while another one of the same
             \* two users was between its lookup and its write?

vars == <<rows, usedIds, calls, consents, raced>>

--------------------------------------------------------------------------
(* Data.  acceptedAt is set exactly in the state ACCEPTED.                *)

States == {"PENDING", "ACCEPTED", "BLOCKED"}
Row == [requester: Users, addressee: Users, state: States]
NoRow == [requester |-> Nobody, addressee |-> Nobody, state |-> "null"]

Ops == {"send", "accept", "remove", "block"}

\* "found" and "absent" are the outcomes of the lookup; a "send" may go on as
\* an "accept".
Call == [stage: {"idle", "looking", "found", "absent", "done", "refused"},
         op: Ops \cup {"none"},
         viewer: Users \cup {Nobody}, target: Users \cup {Nobody},
         id: RowIds \cup {NoId}]

Blank == [stage |-> "idle", op |-> "none", viewer |-> Nobody,
          target |-> Nobody, id |-> NoId]

Exists(id) == rows[id] # NoRow
Pair(id) == {rows[id].requester, rows[id].addressee}

\* Another row already has this requester and addressee.
Taken(id, requester, addressee) ==
  \E other \in RowIds \ {id} :
    rows[other].requester = requester /\ rows[other].addressee = addressee

--------------------------------------------------------------------------
(* Helpers.  A "variant" is a plausible mistake in the code that nothing  *)
(* uses; in place of the helper after it, it must break a property.       *)

\* The rows of two users.
RowsOf(u, v) == {id \in RowIds : Exists(id) /\ Pair(id) = {u, v}}

\* Variant: the row is looked for in one order only.
OutgoingOnly(viewer, target) ==
  {id \in RowIds : rows[id].requester = viewer /\ rows[id].addressee = target}

\* findFriendshipBetween; findFirst picks any of them.
Between(viewer, target) == RowsOf(viewer, target)

\* Variants: a request of the viewer's own is found too; so is a row that is
\* not pending.
PendingBetween(viewer, target) ==
  {id \in Between(viewer, target) : rows[id].state = "PENDING"}
IncomingInAnyState(viewer, target) ==
  {id \in RowIds : rows[id].requester = target /\ rows[id].addressee = viewer}

\* The lookup of acceptFriendRequest.
Incoming(viewer, target) ==
  {id \in RowIds : rows[id].requester = target /\ rows[id].addressee = viewer
                     /\ rows[id].state = "PENDING"}

\* Variant: what is left of a block when it is lifted is the request.
RequestAgain(row) ==
  IF row.state = "BLOCKED" THEN [row EXCEPT !.state = "PENDING"] ELSE NoRow

\* friend.delete.
Removed(row) == NoRow

\* The unique key of the table refuses a new row.
KeyTaken(viewer, target) == Taken(NoId, viewer, target)

--------------------------------------------------------------------------
Init ==
  /\ rows = [id \in RowIds |-> NoRow]
  /\ usedIds = {}
  /\ calls = [c \in Calls |-> Blank]
  /\ consents = [id \in RowIds |-> {}]
  /\ raced = FALSE

Advance(c, stage, id) ==
  calls' = [calls EXCEPT ![c] = [@ EXCEPT !.stage = stage, !.id = id]]

\* The handler ends, with an answer or with an error.
Finish(c, stage) ==
  /\ Advance(c, stage, NoId)
  /\ UNCHANGED <<rows, usedIds, consents, raced>>

\* Another request of the same two users has looked and not yet written.
Underway(c) ==
  \E d \in Calls \ {c} :
    /\ calls[d].stage \in {"found", "absent"}
    /\ {calls[d].viewer, calls[d].target} = {calls[c].viewer, calls[c].target}

Start(c, op, viewer, target) ==
  /\ calls[c].stage = "idle"
  /\ calls' = [calls EXCEPT ![c] =
       [@ EXCEPT !.op = op, !.viewer = viewer, !.target = target,
                 !.stage = IF viewer = target /\ op \in {"send", "block"}
                           THEN "refused" ELSE "looking"]]
  /\ UNCHANGED <<rows, usedIds, consents, raced>>

\* The lookup of sendFriendRequest: an incoming request is accepted instead,
\* any other row is answered as it is.
FindForSend(c) ==
  LET call == calls[c]
      found == Between(call.viewer, call.target)
  IN /\ call.stage = "looking" /\ call.op = "send"
     /\ \/ found = {} /\ Advance(c, "absent", NoId)
        \/ \E id \in found :
             IF rows[id].state = "PENDING" /\ rows[id].requester = call.target
             THEN calls' = [calls EXCEPT ![c] = [@ EXCEPT !.op = "accept"]]
             ELSE Advance(c, "done", NoId)
     /\ UNCHANGED <<rows, usedIds, consents, raced>>

FindForAccept(c) ==
  LET found == Incoming(calls[c].viewer, calls[c].target)
  IN /\ calls[c].stage = "looking" /\ calls[c].op = "accept"
     /\ \/ found = {} /\ Finish(c, "refused")
        \/ \E id \in found :
             Advance(c, "found", id) /\ UNCHANGED <<rows, usedIds, consents, raced>>

\* The lookup of removeFriend, which is content with no row, and of blockUser.
FindBetween(c) ==
  LET call == calls[c]
      found == Between(call.viewer, call.target)
  IN /\ call.stage = "looking" /\ call.op \in {"remove", "block"}
     /\ \/ found = {} /\ Advance(c, IF call.op = "block" THEN "absent" ELSE "done", NoId)
        \/ \E id \in found : Advance(c, "found", id)
     /\ UNCHANGED <<rows, usedIds, consents, raced>>

\* friend.create, of a request or of a block.
CreateRow(c) ==
  LET call == calls[c]
      row == [requester |-> call.viewer, addressee |-> call.target,
              state |-> IF call.op = "send" THEN "PENDING" ELSE "BLOCKED"]
  IN /\ call.stage = "absent"
     /\ IF KeyTaken(call.viewer, call.target)
        THEN Finish(c, "refused")
        ELSE \E id \in RowIds \ usedIds :
               /\ rows' = [rows EXCEPT ![id] = row]
               /\ usedIds' = usedIds \cup {id}
               /\ consents' = [consents EXCEPT
                    ![id] = IF call.op = "send" THEN {call.viewer} ELSE {}]
               /\ raced' = (raced \/ Underway(c))
               /\ Advance(c, "done", NoId)

\* The other writes name the row by its identifier and fail when it is gone.
RowGone(c) ==
  /\ calls[c].stage = "found" /\ ~Exists(calls[c].id)
  /\ Finish(c, "refused")

Writes(c, op) ==
  /\ calls[c].stage = "found" /\ calls[c].op = op
  /\ Exists(calls[c].id)

Wrote(c) ==
  /\ raced' = (raced \/ Underway(c))
  /\ Advance(c, "done", NoId)
  /\ UNCHANGED usedIds

AcceptRequest(c) ==
  /\ Writes(c, "accept")
  /\ rows' = [rows EXCEPT ![calls[c].id].state = "ACCEPTED"]
  /\ consents' = [consents EXCEPT ![calls[c].id] = @ \cup {calls[c].viewer}]
  /\ Wrote(c)

DeleteRow(c) ==
  /\ Writes(c, "remove")
  /\ rows' = [rows EXCEPT ![calls[c].id] = Removed(@)]
  /\ UNCHANGED consents
  /\ Wrote(c)

\* The block makes the viewer the requester of the row, which the unique key
\* forbids when the viewer has another row with the target.
BlockRow(c) ==
  LET call == calls[c]
  IN /\ Writes(c, "block")
     /\ IF Taken(call.id, call.viewer, call.target)
        THEN Finish(c, "refused")
        ELSE /\ rows' = [rows EXCEPT ![call.id] =
                  [requester |-> call.viewer, addressee |-> call.target,
                   state |-> "BLOCKED"]]
             /\ UNCHANGED consents
             /\ Wrote(c)

Handle(c) ==
  \/ \E op \in Ops, viewer, target \in Users : Start(c, op, viewer, target)
  \/ FindForSend(c) \/ FindForAccept(c) \/ FindBetween(c)
  \/ CreateRow(c) \/ RowGone(c) \/ AcceptRequest(c) \/ DeleteRow(c) \/ BlockRow(c)

Next == \E c \in Calls : Handle(c)

Spec == Init /\ [][Next]_vars

--------------------------------------------------------------------------
(* Properties.                                                            *)

\* The state has the shape of the schema, with its unique key; nobody has a
\* row with themselves.
TypeOK ==
  /\ rows \in [RowIds -> Row \cup {NoRow}]
  /\ usedIds \in SUBSET RowIds
  /\ calls \in [Calls -> Call]
  /\ consents \in [RowIds -> SUBSET Users]
  /\ raced \in BOOLEAN
  /\ \A id \in RowIds : Exists(id) =>
       /\ rows[id].requester # rows[id].addressee
       /\ ~Taken(id, rows[id].requester, rows[id].addressee)

\* Two users are friends only if each of them asked for it or accepted it,
\* in the life of this very row, however their requests interleave.
FriendsConsented ==
  \A id \in RowIds : rows[id].state = "ACCEPTED" => consents[id] = Pair(id)

\* As long as no two requests of a pair overlap, the pair has one row at most.
SerialPairsHaveOneRow ==
  ~raced => \A u, v \in Users : \A id, other \in RowsOf(u, v) : id = other

\* As long as no two requests of a pair overlap, a block ends by a removal
\* or by the other user's block, never in a friendship or a request.
SerialBlocksStand ==
  [][~raced' => \A id \in RowIds :
       rows[id].state = "BLOCKED" =>
         rows'[id] = NoRow \/ rows'[id].state = "BLOCKED"]_vars
==========================================================================
