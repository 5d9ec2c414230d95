------------------------- MODULE ModerationLocks -------------------------
(* The moderation lock of one project (project-moderation-locks service). *)
(*                                                                        *)
(* A moderator who works on a project takes its lock, whoever holds it,   *)
(* and only the holder may release it.  The holder is checked in a lookup *)
(* of its own: the statement that deletes the lock names the project and  *)
(* nothing else.  The lock is part of the project's public page, so that  *)
(* both handlers delete the cached page as their last call.  The stored   *)
(* expiry is shown and never looked at.  A request may die between any    *)
(* two calls: it then takes no further step.                              *)
EXTENDS Naturals

CONSTANTS
  Calls,       \* the requests that may arrive; each runs once
  Moderators,  \* the moderators who send them
  Nobody       \* no moderator

ASSUME NobodyAssumption == Nobody \notin Moderators

VARIABLES
  project,  \* "public", "queued" (has no public page) or "gone"
  lock,     \* the row of moderation_locks, one at most per project
  page,     \* the cached page of the project
  calls,    \* the requests, with what each has read
  terms     \* how many locks have been taken

vars == <<project, lock, page, calls, terms>>

--------------------------------------------------------------------------
(* Data.  "term" numbers the locks in the order of their upserts; it      *)
(* stands for expiresAt and updatedAt.  Of the page only the lock counts; *)
(* "behind" is history: the page was deleted from the cache between the   *)
(* read that made it and its storing.                                     *)

Lock == [by: Moderators, term: Nat \ {0}]
NoLock == [by |-> Nobody, term |-> 0]

Page == [cached: {TRUE}, lock: Lock \cup {NoLock}, behind: BOOLEAN]
NoPage == [cached |-> FALSE, lock |-> NoLock, behind |-> FALSE]

\* A lock or a release is looked up ("found"), written and read again; a
\* deletion is found and committed ("reread"); a page load misses the cache
\* and reads the row.
Stages == {"idle", "found", "written", "reread", "missed", "read", "done", "refused"}

\* "seen" is the lock as last read, "since" the number of locks taken before
\* that: for a release the check of the holder, for a lock its own upsert.
Call == [stage: Stages, op: {"lock", "release", "delete", "view"},
         by: Moderators \cup {Nobody}, seen: Lock \cup {NoLock},
         since: Nat, behind: BOOLEAN]

Blank(stage) ==
  [stage |-> stage, op |-> "view", by |-> Nobody, seen |-> NoLock,
   since |-> 0, behind |-> FALSE]

--------------------------------------------------------------------------
(* Helpers.  A "variant" is a plausible mistake in the code that nothing  *)
(* uses; in place of the helper after it, it must break a property.       *)

\* Variant: any moderator may release.
AnyoneReleases(moderator, held) == TRUE

\* The check of releaseProjectModerationLock.
MayRelease(moderator, held) == held = NoLock \/ held.by = moderator

\* Deleting a project deletes its lock.
LockCascaded(held) == NoLock

\* Variant: the answer is made from the project as it was found.
AnswerAsFound(found, now) == found

\* The handlers answer what they read after the write.
LockAnswered(found, now) == now

\* Variant: the page stays in the cache.
PageKept(cached) == cached

\* The cached page after redis.delete.
PageAfterDelete(cached) == NoPage

--------------------------------------------------------------------------
Init ==
  /\ project \in {"public", "queued", "gone"}
  /\ lock = NoLock
  /\ page = NoPage
  /\ calls = [c \in Calls |-> Blank("idle")]
  /\ terms = 0

\* The handler throws, or answers that there is nothing.
Refuse(c) ==
  /\ calls' = [calls EXCEPT ![c] = Blank("refused")]
  /\ UNCHANGED <<project, lock, page, terms>>

\* lockProjectForModeration looks the project up by its slug.
FindForLock(c, moderator) ==
  /\ calls[c].stage = "idle"
  /\ IF project = "gone" THEN Refuse(c)
     ELSE /\ calls' = [calls EXCEPT
               ![c] = [@ EXCEPT !.stage = "found", !.op = "lock", !.by = moderator]]
          /\ UNCHANGED <<project, lock, page, terms>>

\* The upsert takes the lock from whoever holds it; on a deleted project it
\* is a foreign key error.
UpsertLock(c) ==
  /\ calls[c].stage = "found" /\ calls[c].op = "lock"
  /\ IF project = "gone" THEN Refuse(c)
     ELSE /\ lock' = [by |-> calls[c].by, term |-> terms + 1]
          /\ terms' = terms + 1
          /\ calls' = [calls EXCEPT
               ![c] = [@ EXCEPT !.stage = "written", !.since = terms]]
          /\ UNCHANGED <<project, page>>

\* releaseProjectModerationLock reads the project with its lock and checks
\* the holder.
FindForRelease(c, moderator) ==
  /\ calls[c].stage = "idle"
  /\ IF project = "gone" \/ ~MayRelease(moderator, lock) THEN Refuse(c)
     ELSE /\ calls' = [calls EXCEPT
               ![c] = [@ EXCEPT !.stage = "found", !.op = "release", !.by = moderator,
                                !.seen = lock, !.since = terms]]
          /\ UNCHANGED <<project, lock, page, terms>>

\* deleteMany by projectId: whatever lock the project has.
DeleteLock(c) ==
  /\ calls[c].stage = "found" /\ calls[c].op = "release"
  /\ lock' = NoLock
  /\ calls' = [calls EXCEPT ![c] = [@ EXCEPT !.stage = "written"]]
  /\ UNCHANGED <<project, page, terms>>

\* findUniqueOrThrow, from which both handlers make their answer.
RereadProject(c) ==
  /\ calls[c].stage = "written"
  /\ IF project = "gone" THEN Refuse(c)
     ELSE /\ calls' = [calls EXCEPT
               ![c] = [@ EXCEPT !.stage = "reread",
                                !.seen = LockAnswered(calls[c].seen, lock)]]
          /\ UNCHANGED <<project, lock, page, terms>>

\* redis.delete; a page load that has read the row will store a page that
\* this call can no longer remove.
InvalidatePage(c) ==
  /\ calls[c].stage = "reread"
  /\ page' = PageAfterDelete(page)
  /\ calls' = [d \in Calls |->
       IF d = c THEN [calls[c] EXCEPT !.stage = "done"]
       ELSE IF calls[d].stage = "read" THEN [calls[d] EXCEPT !.behind = TRUE]
       ELSE calls[d]]
  /\ UNCHANGED <<project, lock, terms>>

--------------------------------------------------------------------------
(* The other requests that meet the lock.                                 *)

\* deleteProject, of which the index is left out.
FindForDelete(c) ==
  /\ calls[c].stage = "idle"
  /\ IF project = "gone" THEN Refuse(c)
     ELSE /\ calls' = [calls EXCEPT ![c] = [@ EXCEPT !.stage = "found", !.op = "delete"]]
          /\ UNCHANGED <<project, lock, page, terms>>

DeleteProject(c) ==
  /\ calls[c].stage = "found" /\ calls[c].op = "delete"
  /\ IF project = "gone" THEN Refuse(c)
     ELSE /\ project' = "gone"
          /\ lock' = LockCascaded(lock)
          /\ calls' = [calls EXCEPT ![c] = [@ EXCEPT !.stage = "reread"]]
          /\ UNCHANGED <<page, terms>>

\* findProjectBySlug answers a cached page as it is.
ReadCache(c) ==
  /\ calls[c].stage = "idle"
  /\ calls' = [calls EXCEPT ![c] =
       IF page.cached THEN [@ EXCEPT !.stage = "done", !.seen = page.lock]
       ELSE [@ EXCEPT !.stage = "missed"]]
  /\ UNCHANGED <<project, lock, page, terms>>

ReadRow(c) ==
  /\ calls[c].stage = "missed"
  /\ IF project = "public"
     THEN /\ calls' = [calls EXCEPT ![c] = [@ EXCEPT !.stage = "read", !.seen = lock]]
          /\ UNCHANGED <<project, lock, page, terms>>
     ELSE Refuse(c)

FillCache(c) ==
  /\ calls[c].stage = "read"
  /\ page' = [cached |-> TRUE, lock |-> calls[c].seen, behind |-> calls[c].behind]
  /\ calls' = [calls EXCEPT ![c] = [@ EXCEPT !.stage = "done"]]
  /\ UNCHANGED <<project, lock, terms>>

\* The time to live of the cached page runs out.
ExpirePage ==
  /\ page # NoPage
  /\ page' = NoPage
  /\ UNCHANGED <<project, lock, calls, terms>>

Handle(c) ==
  \/ \E moderator \in Moderators : FindForLock(c, moderator) \/ FindForRelease(c, moderator)
  \/ UpsertLock(c) \/ DeleteLock(c) \/ RereadProject(c) \/ InvalidatePage(c)
  \/ FindForDelete(c) \/ DeleteProject(c)
  \/ ReadCache(c) \/ ReadRow(c) \/ FillCache(c)

Next == (\E c \in Calls : Handle(c)) \/ ExpirePage

Spec == Init /\ [][Next]_vars

--------------------------------------------------------------------------
(* Properties.                                                            *)

\* The state has the shape of the schema, and no lock is left of a project
\* that is gone, also when it is deleted between a lookup and the upsert.
TypeOK ==
  /\ project \in {"public", "queued", "gone"}
  /\ lock \in Lock \cup {NoLock}
  /\ page \in Page \cup {NoPage}
  /\ calls \in [Calls -> Call]
  /\ terms \in Nat
  /\ project = "gone" => lock = NoLock

Removed == lock # NoLock /\ lock' = NoLock /\ project' # "gone"

\* The request that just wrote.
Writing(c) == calls[c].stage = "found" /\ calls'[c].stage = "written"

\* A lock that was there when a moderator asked for its release goes only if
\* it was the moderator's: what the check misses are locks taken after it.
OthersLocksStay ==
  [][Removed => \E c \in Calls :
       Writing(c) /\ (lock.by = calls[c].by \/ lock.term > calls[c].since)]_vars

\* A moderator is never answered with a lock from before the request's own
\* step: not with the one just released, not with the one just taken over.
AnswersAfterWrite ==
  \A c \in Calls :
    calls[c].stage \in {"reread", "done"} /\ calls[c].op \in {"lock", "release"} =>
      calls[c].seen = NoLock \/ calls[c].seen.term > calls[c].since

\* The cached page shows the lock as it is, unless a request has yet to
\* delete the page or the page was stored after a deletion it had missed.
StalePageOwed ==
  page.cached /\ (project = "gone" \/ page.lock # lock) =>
    page.behind \/ \E c \in Calls : calls[c].stage \in {"written", "reread"}
==========================================================================
