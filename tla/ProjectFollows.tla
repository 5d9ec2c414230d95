------------------------- MODULE ProjectFollows --------------------------
(* The followers of one project (project-follows service): the table      *)
(* project_follows, the counter in the project's row, the follower number *)
(* in its search document and in its cached page.                         *)
(*                                                                        *)
(* A follow or unfollow is one interactive transaction of PostgreSQL      *)
(* under READ COMMITTED: each statement sees what is committed when it    *)
(* starts, and the transaction's own writes; two transactions that write  *)
(* one row wait for each other.  Nothing counts the followers again, so   *)
(* that a number computed too early stays.  After the commit, two calls   *)
(* in parallel write the search document and delete the cached page.      *)
(*                                                                        *)
(* The other writers of row, document and page are those of               *)
(* ProjectCatalog; here they matter for the follower number they carry.   *)
(* A request may stop between two calls; an open transaction is then      *)
(* rolled back.                                                           *)
EXTENDS Integers, FiniteSets

CONSTANTS
  Calls,   \* the requests that may arrive; each runs once
  Users,   \* the users who send them
  Nobody   \* no user

ASSUME UsersAssumption == IsFiniteSet(Users) /\ Nobody \notin Users

VARIABLES
  status,      \* the project: public, not public, or deleted
  follows,     \* the committed rows of project_follows
  followers,   \* the counter in the project's row
  doc,         \* the follower number in the search document
  page,        \* the follower number in the cached page
  calls,       \* the requests
  raced,       \* history: has a transaction committed while another one had
               \* counted and not yet committed?
  overlapped,  \* history: has one committed before another had brought
               \* document and page up to date?
  wishes       \* history: what the last committed request of each user asked
               \* for; "raced" once two of them have overlapped

vars == <<status, follows, followers, doc, page, calls, raced, overlapped, wishes>>

--------------------------------------------------------------------------
(* Data.                                                                  *)

Statuses == {"APPROVED", "hidden", "deleted"}
None == -1   \* there is no document, or no page
Number == Nat \cup {None}

FollowOps == {"follow", "unfollow"}
CatalogOps == {"edit", "approve", "hide", "delete"}

\* A transaction has found the project, written its follow row, counted.  "own"
\* is its uncommitted write, "count" the follower number it carries, "left" the
\* stores it has yet to bring up to date.  A "failed" one has been answered with
\* an error while the deletion of the page goes on.
Call == [stage: {"idle", "found", "written", "counted", "committed", "missed",
                 "read", "failed", "done", "refused"},
         op: FollowOps \cup CatalogOps \cup {"view"},
         user: Users \cup {Nobody},
         own: {"none", "added", "removed"},
         count: Number,
         left: SUBSET {"doc", "page"}]

Blank == [stage |-> "idle", op |-> "view", user |-> Nobody, own |-> "none",
          count |-> None, left |-> {}]

Open(c) == calls[c].stage \in {"found", "written", "counted"}

\* Another open transaction has written the follow row of this user.
Locked(c, user, writes) ==
  \E d \in Calls \ {c} :
    Open(d) /\ calls[d].user = user /\ calls[d].own \in writes

--------------------------------------------------------------------------
(* Helpers.  A "variant" is a plausible mistake in the code that nothing  *)
(* uses; in place of the helper after it, it must break a property.       *)

\* Variant: the unfollow names no user.
WithoutAnyone(own, user) ==
  IF own = "added" THEN follows \cup {user}
  ELSE IF own = "removed" THEN {} ELSE follows

\* The follow rows as a transaction with this write sees them.
Applied(own, user) ==
  CASE own = "added"   -> follows \cup {user}
    [] own = "removed" -> follows \ {user}
    [] own = "none"    -> follows

\* Variant: the count is asked of the client instead of the transaction.
CountedOutside(own, user) == Cardinality(follows)

\* projectFollow.count of the transaction.
Counted(own, user) == Cardinality(Applied(own, user))

\* Variant: an unfollow leaves the number in the document alone.
NumberAfterFollowOnly(op, number) == IF op = "unfollow" THEN doc ELSE number

\* updateProjectFollowers: the number in the document after the update.
NumberUpdated(op, number) == number

\* Variant: the update creates a document that is missing.
Upserts(op) == FALSE

\* client.update of a missing document throws.
UpdateThrows(op) == op \in FollowOps /\ doc = None

\* The page after redis.delete.
PageDropped == None

--------------------------------------------------------------------------
Init ==
  /\ status \in {"APPROVED", "hidden"}
  /\ follows \in SUBSET Users
  /\ followers = Cardinality(follows)
  /\ doc = IF status = "APPROVED" THEN followers ELSE None
  /\ page = None
  /\ calls = [c \in Calls |-> Blank]
  /\ raced = FALSE
  /\ overlapped = FALSE
  /\ wishes = [u \in Users |-> IF u \in follows THEN "follow" ELSE "unfollow"]

Tables == <<status, follows, followers, raced, overlapped, wishes>>

\* The handler has answered and nothing goes on.
Finished(call) ==
  [Blank EXCEPT !.stage = IF call.stage = "failed" THEN "refused" ELSE "done"]

\* The call to one of the two stores has ended; the request goes on as "call".
Leave(c, store, call) ==
  calls' = [calls EXCEPT ![c] =
    IF call.left = {store} THEN Finished(call)
    ELSE [call EXCEPT !.left = call.left \ {store}]]

\* The handler throws; an open transaction is rolled back.
Refuse(c) ==
  /\ calls' = [calls EXCEPT ![c] = [Blank EXCEPT !.stage = "refused"]]
  /\ UNCHANGED <<Tables, doc, page>>

\* A commit of the project's row; the follower number it carries is in the
\* request's hands until document and page are up to date.
Commit(c, call) ==
  /\ calls' = [calls EXCEPT ![c] =
       [call EXCEPT !.stage = "committed", !.user = Nobody, !.own = "none",
                    !.left = {"doc", "page"}]]
  /\ raced' = (raced \/ \E d \in Calls \ {c} : calls[d].stage = "counted")
  /\ overlapped' = (overlapped \/
       \E d \in Calls \ {c} : calls[d].left # {} \/ calls[d].stage = "read")
  /\ UNCHANGED <<doc, page>>

--------------------------------------------------------------------------
(* followProject and unfollowProject.                                     *)

FindProject(c, op, user) ==
  /\ calls[c].stage = "idle"
  /\ IF status = "APPROVED"
     THEN /\ calls' = [calls EXCEPT ![c] =
               [@ EXCEPT !.stage = "found", !.op = op, !.user = user]]
          /\ UNCHANGED <<Tables, doc, page>>
     ELSE Refuse(c)

\* projectFollow.upsert waits for a transaction that has written the same row;
\* of a deleted project it fails.
UpsertFollow(c) ==
  LET user == calls[c].user
  IN /\ calls[c].stage = "found" /\ calls[c].op = "follow"
     /\ ~Locked(c, user, {"added", "removed"})
     /\ IF status = "deleted"
        THEN Refuse(c)
        ELSE /\ calls' = [calls EXCEPT ![c] =
                  [@ EXCEPT !.stage = "written",
                            !.own = IF user \in follows THEN "none" ELSE "added"]]
             /\ UNCHANGED <<Tables, doc, page>>

\* projectFollow.deleteMany does not see a row that is not committed.
DeleteFollow(c) ==
  LET user == calls[c].user
  IN /\ calls[c].stage = "found" /\ calls[c].op = "unfollow"
     /\ ~Locked(c, user, {"removed"})
     /\ calls' = [calls EXCEPT ![c] =
          [@ EXCEPT !.stage = "written",
                    !.own = IF user \in follows THEN "removed" ELSE "none"]]
     /\ UNCHANGED <<Tables, doc, page>>

CountFollows(c) ==
  /\ calls[c].stage = "written"
  /\ calls' = [calls EXCEPT ![c] =
       [@ EXCEPT !.stage = "counted", !.count = Counted(calls[c].own, calls[c].user)]]
  /\ UNCHANGED <<Tables, doc, page>>

\* project.update and the commit: transactions that update the project's row
\* wait for each other until they commit, so that the two are one step.
CommitFollow(c) ==
  LET call == calls[c]
      rivals == \E d \in Calls \ {c} : Open(d) /\ calls[d].user = call.user
  IN /\ call.stage = "counted"
     /\ IF status = "deleted"
        THEN Refuse(c)
        ELSE /\ follows' = Applied(call.own, call.user)
             /\ followers' = call.count
             /\ wishes' = [wishes EXCEPT
                  ![call.user] = IF rivals THEN "raced" ELSE IF @ = "raced" THEN @ ELSE call.op]
             /\ Commit(c, call)
             /\ UNCHANGED status

\* The transaction times out, or its process dies.
RollBack(c) == Open(c) /\ Refuse(c)

--------------------------------------------------------------------------
(* The rest of the catalog, and the two stores.                           *)

\* updateProject and moderateProject: the snapshot they index carries the
\* counter as it is when they commit.
ChangeProject(c, op) ==
  /\ calls[c].stage = "idle"
  /\ op \in {"edit", "approve", "hide"}
  /\ status # "deleted"
  /\ status' = CASE op = "edit" -> status [] op = "approve" -> "APPROVED"
                 [] op = "hide" -> "hidden"
  /\ Commit(c, [calls[c] EXCEPT !.op = op,
                  !.count = IF status' = "APPROVED" THEN followers ELSE None])
  /\ UNCHANGED <<follows, followers, wishes>>

\* deleteProject cascades to the follow rows, and waits for those who have
\* written one.
DeleteProject(c) ==
  /\ calls[c].stage = "idle"
  /\ status # "deleted"
  /\ \A d \in Calls : ~(Open(d) /\ calls[d].own # "none")
  /\ status' = "deleted" /\ follows' = {} /\ followers' = 0
  /\ wishes' = [u \in Users |-> "unfollow"]
  /\ Commit(c, [calls[c] EXCEPT !.op = "delete"])

\* A follow updates one number of the document, the others write or delete
\* the whole of it.
WriteDocument(c) ==
  LET call == calls[c]
  IN /\ call.stage = "committed" /\ "doc" \in call.left
     /\ ~UpdateThrows(call.op)
     /\ doc' = IF call.op \in FollowOps THEN NumberUpdated(call.op, call.count)
               ELSE call.count
     /\ Leave(c, "doc", call)
     /\ UNCHANGED <<Tables, page>>

\* The update of the number throws: Promise.all rejects and the request fails,
\* although the follow is committed; a deletion of the page that is under way
\* goes on.
UpdateFails(c) ==
  LET call == calls[c]
  IN /\ call.stage = "committed" /\ "doc" \in call.left
     /\ UpdateThrows(call.op)
     /\ Leave(c, "doc", [call EXCEPT !.stage = "failed"])
     /\ UNCHANGED <<Tables, doc, page>>

\* The others delete the page after they have written the document.
DropPage(c) ==
  LET call == calls[c]
  IN /\ call.stage \in {"committed", "failed"} /\ "page" \in call.left
     /\ call.op \in FollowOps \/ "doc" \notin call.left
     /\ page' = PageDropped
     /\ Leave(c, "page", call)
     /\ UNCHANGED <<Tables, doc>>

\* findProjectBySlug: the cached page, or the row, which is then cached.
MissPage(c) ==
  /\ calls[c].stage = "idle" /\ page = None
  /\ calls' = [calls EXCEPT ![c] = [@ EXCEPT !.stage = "missed"]]
  /\ UNCHANGED <<Tables, doc, page>>

ReadRow(c) ==
  /\ calls[c].stage = "missed"
  /\ IF status = "APPROVED"
     THEN /\ calls' = [calls EXCEPT ![c] = [@ EXCEPT !.stage = "read", !.count = followers]]
          /\ UNCHANGED <<Tables, doc, page>>
     ELSE Refuse(c)

FillPage(c) ==
  /\ calls[c].stage = "read"
  /\ page' = calls[c].count
  /\ calls' = [calls EXCEPT ![c] = Finished(calls[c])]
  /\ UNCHANGED <<Tables, doc>>

\* The time to live of the cached page runs out.
ExpirePage ==
  /\ page # None
  /\ page' = None
  /\ UNCHANGED <<Tables, doc, calls>>

Handle(c) ==
  \/ \E op \in FollowOps, user \in Users : FindProject(c, op, user)
  \/ UpsertFollow(c) \/ DeleteFollow(c) \/ CountFollows(c) \/ CommitFollow(c)
  \/ RollBack(c)
  \/ \E op \in CatalogOps : ChangeProject(c, op)
  \/ DeleteProject(c)
  \/ WriteDocument(c) \/ UpdateFails(c) \/ DropPage(c)
  \/ MissPage(c) \/ ReadRow(c) \/ FillPage(c)

Next == (\E c \in Calls : Handle(c)) \/ ExpirePage

Spec == Init /\ [][Next]_vars

--------------------------------------------------------------------------
(* Properties.                                                            *)

\* The state has the shape of the tables; no counter is negative.
TypeOK ==
  /\ status \in Statuses
  /\ follows \in SUBSET Users
  /\ followers \in Nat
  /\ doc \in Number
  /\ page \in Number
  /\ calls \in [Calls -> Call]
  /\ raced \in BOOLEAN
  /\ overlapped \in BOOLEAN
  /\ wishes \in [Users -> FollowOps \cup {"raced"}]

\* The counter is the number of followers as long as no transaction commits
\* between another one's count and its commit: rollbacks, waiting writers and
\* earlier overlaps do no harm.
CounterExact == ~raced => followers = Cardinality(follows)

\* A user follows exactly if the last of their requests that was carried out
\* says so, whatever the other users do at the same time, unless two requests
\* of their own overlapped.
OwnRequestsCount ==
  \A u \in Users : wishes[u] # "raced" => (u \in follows <=> wishes[u] = "follow")

Settled == \A c \in Calls : calls[c].left = {} /\ calls[c].stage # "read"

\* When all is written, the search document of a public project has the
\* counter of its row, no other document is there, and a page that is still
\* cached shows the same number, unless a commit fell between another one and
\* its writes.
StoresShowCounter ==
  Settled /\ ~overlapped =>
    /\ doc = IF status = "APPROVED" THEN followers ELSE None
    /\ page = None \/ (status = "APPROVED" /\ page = followers)

\* A follower update, however late, does not bring back the document of a
\* project that was hidden or deleted meanwhile.
OnlyPublishingIndexes ==
  [][doc = None /\ doc' # None =>
       \E c \in Calls : calls[c].op \in {"edit", "approve"} /\ "doc" \in calls[c].left]_vars
==========================================================================
