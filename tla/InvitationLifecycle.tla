----------------------- MODULE InvitationLifecycle -----------------------
(* What a team promises about its membership rows, without requests,      *)
(* permissions or audit records.  A row is an invitation of one user; it  *)
(* is accepted at most once, it ends at most once, an ended row never     *)
(* comes back, and a user has at most one open row.  The founder's row    *)
(* is accepted from the start and ends with the team, when all rows end   *)
(* at once and nobody is invited any more.                                *)

CONSTANTS
  Users,      \* the users of the site
  RowIds,     \* the row identifiers the database can hand out
  Founder,    \* the owner of the team
  FounderId   \* the identifier of the owner's row

VARIABLES
  invited,    \* open rows nobody has accepted yet, each [id, user]
  joined,     \* accepted rows, each [id, user]
  ended       \* identifiers of the rows that were declined or removed

lifecycleVars == <<invited, joined, ended>>

Rows == [id: RowIds, user: Users]
FounderRow == [id |-> FounderId, user |-> Founder]

Open == invited \cup joined
Taken == {row.id : row \in Open} \cup ended

Init ==
  /\ invited = {}
  /\ joined = {FounderRow}
  /\ ended = {}

\* A user without an open row is invited under an identifier never used.
Invite(row) ==
  /\ FounderRow \in joined
  /\ row.id \notin Taken
  /\ \A other \in Open : other.user # row.user
  /\ invited' = invited \cup {row}
  /\ UNCHANGED <<joined, ended>>

\* The invitation becomes a membership.
Join(row) ==
  /\ row \in invited
  /\ invited' = invited \ {row}
  /\ joined' = joined \cup {row}
  /\ UNCHANGED ended

\* The invitation is declined or withdrawn, or the member is removed.
End(row) ==
  /\ row \in Open \ {FounderRow}
  /\ invited' = invited \ {row}
  /\ joined' = joined \ {row}
  /\ ended' = ended \cup {row.id}

\* The team is deleted: every row ends.
Close ==
  /\ FounderRow \in joined
  /\ invited' = {} /\ joined' = {}
  /\ ended' = Taken

Next == Close \/ \E row \in Rows : Invite(row) \/ Join(row) \/ End(row)

Spec == Init /\ [][Next]_lifecycleVars
==========================================================================
