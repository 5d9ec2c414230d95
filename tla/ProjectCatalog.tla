------------------------- MODULE ProjectCatalog --------------------------
(* One public slug: the project row in PostgreSQL, its document in the    *)
(* search index, its page in the Redis cache, and the requests that keep  *)
(* the three in step (project-management, project-moderation, catalog and *)
(* versions services).                                                    *)
(*                                                                        *)
(* A handler reads the row, commits a transaction and then, in further    *)
(* awaited calls, writes the index and deletes the cached page.  Nothing  *)
(* ties the three stores together and nothing orders two handlers, so     *)
(* that a handler may bring the index up to date with a row that another  *)
(* one has changed since.  A request may die between any two calls: it    *)
(* then takes no further step.                                            *)
(*                                                                        *)
(* Who may call a handler is left out: a caller without permission is     *)
(* refused before anything changes.                                       *)
EXTENDS Naturals

CONSTANTS
  Calls,       \* the requests that may arrive; each runs once
  ProjectIds,  \* the project identifiers the database can hand out
  NoId         \* the identifier of no project

ASSUME NoIdAssumption == NoId \notin ProjectIds

VARIABLES
  row,         \* the project under the slug (the slug is unique)
  usedIds,     \* the project identifiers handed out so far
  docs,        \* the search index: the document of each project
  cache,       \* the cached page of the slug
  calls,       \* the requests, with what each has read
  published,   \* history: the row versions that were committed as APPROVED
  decided,     \* history: the projects a moderator has approved or restored
  overlapped   \* history: has a commit fallen between another request's
               \* read of the row and its write to the index or the cache?

vars == <<row, usedIds, docs, cache, calls, published, decided, overlapped>>

--------------------------------------------------------------------------
(* Data.  "rev" stands for the content of the row: every commit gives it  *)
(* a new value.  "asked" is requestedStatus.                              *)

Statuses == {"PENDING_REVIEW", "APPROVED", "REJECTED", "ARCHIVED"}
ModerationActions == {"APPROVE", "REJECT", "ARCHIVE", "RESTORE"}

Project == [id: ProjectIds, status: Statuses, asked: {"APPROVED", "null"}, rev: Nat]
NoProject == [id |-> NoId, status |-> "null", asked |-> "null", rev |-> 0]
Snapshot == Project \cup {NoProject}

Writes == {"create", "update", "moderate", "delete", "version"}
Reads == {"view", "search"}

\* A handler finds its project, commits, has its decision audited, writes the
\* index, deletes the cached page, and notifies the team.  A version handler
\* reads the row again between its commit ("touched") and its last two calls,
\* which run in parallel.
Stages == {"idle", "found", "touched", "committed", "audited", "synced",
           "cleared", "invalidated", "missed", "read", "queried",
           "done", "refused"}

Call == [stage: Stages, op: Writes \cup Reads, action: ModerationActions,
         seen: Snapshot, hits: SUBSET ProjectIds, answer: SUBSET Project]

Blank(stage) ==
  [stage |-> stage, op |-> "view", action |-> "APPROVE", seen |-> NoProject,
   hits |-> {}, answer |-> {}]

--------------------------------------------------------------------------
(* Helpers.  A "variant" is a plausible mistake in the code that nothing  *)
(* uses; in place of the helper after it, it must break a property.       *)

\* createProject queues the project for review.
NewProject(id) ==
  [id |-> id, status |-> "PENDING_REVIEW", asked |-> "APPROVED", rev |-> 0]

\* updateProject and the version handlers change the content of the row only.
Edited(project) == [project EXCEPT !.rev = @ + 1]

DecidedStatus(action) ==
  IF action \in {"APPROVE", "RESTORE"} THEN "APPROVED"
  ELSE IF action = "REJECT" THEN "REJECTED" ELSE "ARCHIVED"

\* moderationProjectData.
Moderated(project, action) ==
  [Edited(project) EXCEPT !.status = DecidedStatus(action), !.asked = "null"]

Visible(project) == project.status = "APPROVED"

\* Variant: the row is looked up by its slug alone.
ReadableBySlug(project) == project # NoProject

\* "where: {status: 'APPROVED'}" of the public reads.
Readable(project) == Visible(project)

\* Variant: a document is written for approved projects and never removed.
DocumentKept(op, snapshot, old) ==
  IF op # "delete" /\ snapshot.status = "APPROVED" THEN snapshot ELSE old

\* indexProjects for an approved snapshot, deleteProject otherwise.
DocumentAfter(op, snapshot, old) ==
  IF op # "delete" /\ snapshot.status = "APPROVED" THEN snapshot ELSE NoProject

\* Variant: the page stays in the cache.
PageKept(page) == page

\* The cached page after redis.delete.
PageAfterDelete(page) == NoProject

\* Variant: setJson without ttlSeconds.
ExpiresNever(page) == FALSE

\* Every page in the cache was stored with a time to live.
Expires(page) == page # NoProject

\* Does the request hold a snapshot that it has yet to write out?
Pending(c) ==
  \/ calls[c].op \in {"update", "moderate", "delete"}
       /\ calls[c].stage \in {"committed", "audited"}
  \/ calls[c].op = "version" /\ calls[c].stage \in {"committed", "cleared"}
  \/ calls[c].op = "view" /\ calls[c].stage = "read"

--------------------------------------------------------------------------
(* The initial states: nothing under the slug, or a project that earlier  *)
(* requests have left behind, its document up to date.                    *)

Settled(id, status) ==
  [id |-> id, status |-> status,
   asked |-> IF status = "PENDING_REVIEW" THEN "APPROVED" ELSE "null", rev |-> 0]

Established(project) ==
  /\ row = project
  /\ usedIds = {project.id} \ {NoId}
  /\ docs = [id \in ProjectIds |->
               IF id = project.id /\ Visible(project) THEN project ELSE NoProject]
  /\ published = IF Visible(project) THEN {project} ELSE {}
  /\ decided = IF Visible(project) THEN {project.id} ELSE {}

Init ==
  /\ \/ Established(NoProject)
     \/ \E id \in ProjectIds, status \in Statuses : Established(Settled(id, status))
  /\ cache = NoProject
  /\ calls = [c \in Calls |-> Blank("idle")]
  /\ overlapped = FALSE

\* The request goes on to "stage"; once done, only its answer remains.
Advance(c, stage) ==
  calls' = [calls EXCEPT ![c] = IF stage = "done" THEN Blank("done")
                                ELSE [@ EXCEPT !.stage = stage]]

\* The handler throws, or answers that there is nothing.
Refuse(c) == calls' = [calls EXCEPT ![c] = Blank("refused")]

Answer(c, projects) ==
  calls' = [calls EXCEPT ![c] = [Blank("done") EXCEPT !.answer = projects]]

Stores == <<row, usedIds, published, decided, overlapped>>

--------------------------------------------------------------------------
(* Writing requests.                                                      *)

\* The lookup every write starts with: createProject needs the slug to be
\* free, the others need a project.
FindProject(c, op, action) ==
  /\ calls[c].stage = "idle"
  /\ op \in Writes
  /\ op # "moderate" => action = "APPROVE"   \* of no meaning
  /\ IF (op = "create") = (row = NoProject)
     THEN calls' = [calls EXCEPT
            ![c] = [@ EXCEPT !.stage = "found", !.op = op, !.action = action,
                             !.seen = row]]
     ELSE Refuse(c)
  /\ UNCHANGED <<Stores, docs, cache>>

\* A transaction commits "project" as the row; the request goes on to
\* "stage" with what the transaction returned.
Commit(c, project, stage) ==
  /\ row' = project
  /\ published' = published \cup (IF Visible(project) THEN {project} ELSE {})
  /\ overlapped' = (overlapped \/ \E d \in Calls \ {c} : Pending(d))
  /\ calls' = [calls EXCEPT
       ![c] = [@ EXCEPT !.stage = stage,
                        !.seen = IF project = NoProject THEN calls[c].seen
                                 ELSE project]]
  /\ UNCHANGED <<docs, cache>>

\* The transaction of createProject; a slug taken meanwhile is a unique
\* constraint error.
CreateProject(c) ==
  /\ calls[c].stage = "found" /\ calls[c].op = "create"
  /\ IF row = NoProject
     THEN \E id \in ProjectIds \ usedIds :
            /\ Commit(c, NewProject(id), "committed")
            /\ usedIds' = usedIds \cup {id}
     ELSE Refuse(c) /\ UNCHANGED <<row, usedIds, docs, cache, published, overlapped>>
  /\ UNCHANGED decided

\* The other transactions address the project by the identifier that was
\* found; when it was deleted meanwhile they fail.
Changes(c, op) ==
  /\ calls[c].stage = "found" /\ calls[c].op = op
  /\ row.id = calls[c].seen.id
  /\ UNCHANGED usedIds

UpdateProject(c) ==
  /\ Changes(c, "update")
  /\ Commit(c, Edited(row), "committed")
  /\ UNCHANGED decided

ModerateProject(c) ==
  /\ Changes(c, "moderate")
  /\ Commit(c, Moderated(row, calls[c].action), "committed")
  /\ decided' = IF DecidedStatus(calls[c].action) = "APPROVED"
                THEN decided \cup {row.id} ELSE decided

DeleteProject(c) ==
  /\ Changes(c, "delete")
  /\ Commit(c, NoProject, "committed")
  /\ UNCHANGED decided

\* createVersion, updateVersion, moderateVersion and updateVersionDependencies
\* touch the project's updatedAt in their own transaction.
TouchProject(c) ==
  /\ Changes(c, "version")
  /\ Commit(c, Edited(row), "touched")
  /\ UNCHANGED decided

\* refreshProjectAfterVersionChange reads the row again.
RereadProject(c) ==
  /\ calls[c].stage = "touched"
  /\ row.id = calls[c].seen.id
  /\ calls' = [calls EXCEPT ![c] = [@ EXCEPT !.seen = row, !.stage = "committed"]]
  /\ UNCHANGED <<Stores, docs, cache>>

\* The project has been deleted since it was found.
ProjectGone(c) ==
  /\ calls[c].stage \in {"found", "touched"} /\ calls[c].op # "create"
  /\ row.id # calls[c].seen.id
  /\ Refuse(c)
  /\ UNCHANGED <<Stores, docs, cache>>

\* recordProjectModeration.
RecordDecision(c) ==
  /\ calls[c].stage = "committed" /\ calls[c].op = "moderate"
  /\ Advance(c, "audited")
  /\ UNCHANGED <<Stores, docs, cache>>

\* The index gets the document of the request's snapshot.
SyncIndex(c) ==
  LET call == calls[c]
  IN /\ \/ call.op \in {"update", "delete", "version"} /\ call.stage = "committed"
        \/ call.op = "moderate" /\ call.stage = "audited"
        \/ call.op = "version" /\ call.stage = "cleared"
     /\ docs' = [docs EXCEPT ![call.seen.id] = DocumentAfter(call.op, call.seen, @)]
     /\ Advance(c, IF call.stage = "cleared" THEN "done" ELSE "synced")
     /\ UNCHANGED <<Stores, cache>>

\* redis.delete of the slug's page.
InvalidatePage(c) ==
  LET call == calls[c]
  IN /\ \/ call.op = "create" /\ call.stage = "committed"
        \/ call.op # "create" /\ call.stage = "synced"
        \/ call.op = "version" /\ call.stage = "committed"
     /\ cache' = PageAfterDelete(cache)
     /\ Advance(c, IF call.op = "moderate" THEN "invalidated"
                   ELSE IF call.op = "version" /\ call.stage = "committed"
                        THEN "cleared" ELSE "done")
     /\ UNCHANGED <<Stores, docs>>

\* notifyProjectReviewDecision.
NotifyTeam(c) ==
  /\ calls[c].stage = "invalidated"
  /\ Advance(c, "done")
  /\ UNCHANGED <<Stores, docs, cache>>

--------------------------------------------------------------------------
(* Public reads.                                                          *)

\* findProjectBySlug looks into the cache first.
ReadCache(c) ==
  /\ calls[c].stage = "idle"
  /\ calls' = [calls EXCEPT ![c] =
       IF Visible(cache)
       THEN [Blank("done") EXCEPT !.answer = {cache}]
       ELSE [@ EXCEPT !.op = "view", !.stage = "missed"]]
  /\ UNCHANGED <<Stores, docs, cache>>

ReadRow(c) ==
  /\ calls[c].stage = "missed"
  /\ IF Readable(row)
     THEN calls' = [calls EXCEPT ![c] = [@ EXCEPT !.seen = row, !.stage = "read"]]
     ELSE Answer(c, {})
  /\ UNCHANGED <<Stores, docs, cache>>

\* setJson stores what ReadRow saw.
FillCache(c) ==
  /\ calls[c].stage = "read"
  /\ cache' = calls[c].seen
  /\ Answer(c, {calls[c].seen})
  /\ UNCHANGED <<Stores, docs>>

\* searchProjects takes identifiers from the index and then loads the rows
\* among them that are approved.
QueryIndex(c) ==
  /\ calls[c].stage = "idle"
  /\ calls' = [calls EXCEPT
       ![c] = [@ EXCEPT !.op = "search", !.stage = "queried",
                        !.hits = {id \in ProjectIds : docs[id] # NoProject}]]
  /\ UNCHANGED <<Stores, docs, cache>>

HydrateHits(c) ==
  /\ calls[c].stage = "queried"
  /\ Answer(c, {project \in {row} : project.id \in calls[c].hits /\ Readable(project)})
  /\ UNCHANGED <<Stores, docs, cache>>

\* The time to live of the cached page runs out.
ExpirePage ==
  /\ Expires(cache)
  /\ cache' = NoProject
  /\ UNCHANGED <<Stores, docs, calls>>

--------------------------------------------------------------------------
Begin(c) ==
  \/ \E op \in Writes, action \in ModerationActions : FindProject(c, op, action)
  \/ ReadCache(c)
  \/ QueryIndex(c)

Proceed(c) ==
  \/ CreateProject(c) \/ UpdateProject(c) \/ ModerateProject(c)
  \/ DeleteProject(c) \/ TouchProject(c) \/ RereadProject(c) \/ ProjectGone(c)
  \/ RecordDecision(c) \/ SyncIndex(c) \/ InvalidatePage(c) \/ NotifyTeam(c)
  \/ ReadRow(c) \/ FillCache(c) \/ HydrateHits(c)

Next == (\E c \in Calls : Begin(c) \/ Proceed(c)) \/ ExpirePage

Spec == Init /\ [][Next]_vars

\* Requests that have started go on, and pages expire.
FairSpec == Spec /\ (\A c \in Calls : WF_vars(Proceed(c))) /\ WF_vars(ExpirePage)

--------------------------------------------------------------------------
(* Properties.                                                            *)

\* The state has the shape of the schema and of the cached contracts.
TypeOK ==
  /\ row \in Snapshot
  /\ usedIds \in SUBSET ProjectIds
  /\ docs \in [ProjectIds -> Snapshot]
  /\ cache \in Snapshot
  /\ calls \in [Calls -> Call]
  /\ published \in SUBSET Project
  /\ decided \in SUBSET ProjectIds
  /\ overlapped \in BOOLEAN

\* The public sees nothing that was never public: a page, a cached page, a
\* search document or a search result, however stale, is a version of the
\* row that was once committed as approved.
OnlyPublishedShown ==
  /\ cache # NoProject => cache \in published
  /\ \A id \in ProjectIds : docs[id] # NoProject => docs[id] \in published
  /\ \A c \in Calls : calls[c].answer \subseteq published

\* A project waits for a review exactly while a status is requested for it:
\* no decision leaves a decided project in the queue, no edit takes a
\* project out of it.
ReviewCoherent ==
  row # NoProject => (row.status = "PENDING_REVIEW" <=> row.asked = "APPROVED")

\* Nobody but a moderator makes a project public.
PublicByDecision ==
  /\ Visible(row) => row.id \in decided
  /\ \A project \in published : project.id \in decided

Quiet == \A c \in Calls : calls[c].stage \in {"idle", "done", "refused"}

IndexAgrees ==
  \A id \in ProjectIds :
    docs[id] = IF row.id = id /\ Visible(row) THEN row ELSE NoProject

\* Handlers that do not overlap leave the index in step with the row: the
\* document of an approved project is there with its latest content, and no
\* other document is.
IndexFollowsRow == Quiet /\ ~overlapped => IndexAgrees

\* Likewise a page that is still cached when all is quiet shows the row as it
\* is, unless a commit overlapped with a page load.
CacheFollowsRow == Quiet /\ ~overlapped => cache \in {NoProject, row}

\* When requests stop arriving, the cache ends up empty or right, even after
\* a page load that raced with a commit has stored an outdated page.
CacheSettles == <>[](cache \in {NoProject, row})
==========================================================================
