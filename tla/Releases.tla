---------------------------- MODULE Releases -----------------------------
(* The versions of one project: their creation behind a malware scan,     *)
(* their moderation, edition and removal, later scans of their files, and *)
(* the downloads that are served and counted (versions, version-file-     *)
(* scans and analytics services).                                         *)
(*                                                                        *)
(* A handler reads, scans or checks first and commits a transaction       *)
(* later, in another call; the project and the versions may change in     *)
(* between.  A request may die between any two calls: it then takes no    *)
(* further step.  Permissions are left out: a caller without one is       *)
(* refused before anything changes.                                       *)
EXTENDS FiniteSets, Naturals

CONSTANTS
  Calls,       \* the requests that may arrive; each runs once
  VersionIds,  \* the version identifiers the database can hand out
  Files,       \* the files a version may come with
  Numbers,     \* version numbers
  EmptyNumber, \* the number of no characters, one of them
  NoId, NoNumber

ASSUME NoIdAssumption == NoId \notin VersionIds
ASSUME NumbersAssumption == NoNumber \notin Numbers /\ EmptyNumber \in Numbers

VARIABLES
  project,     \* the status of the project, "deleted" when it is gone
  downloads,   \* the download counter of the project
  versions,    \* the version rows
  usedIds,     \* the version identifiers handed out so far
  events,      \* the download event rows; each still names its version after
               \* the version is gone, where the row has null
  auditLog,    \* the requests whose moderation is on the audit log
  calls,       \* the requests, with what each has read
  ruling,      \* history: the last decision committed on each version
  decisions,   \* history: the requests that have committed a decision
  rescanned,   \* history: the files with a scan after their creation
  outage       \* history: has a refresh failed with the index or the cache?

rows == <<project, downloads, versions, usedIds, events>>
history == <<ruling, decisions, rescanned, outage>>
vars == <<rows, auditLog, calls, history>>

--------------------------------------------------------------------------
(* Data.  "asked" is requestedStatus, "published" says that publishedAt   *)
(* is set, "verdicts" is the outcome of the latest scan of each file      *)
(* ("CLEAN": complete and clean).                                         *)

Statuses == {"PENDING_REVIEW", "APPROVED", "REJECTED", "ARCHIVED"}
ModerationActions == {"APPROVE", "REJECT", "ARCHIVE", "RESTORE"}
Verdicts == {"absent", "CLEAN", "MALWARE", "other"}
Scans == [Files -> Verdicts]
NoScans == [f \in Files |-> "absent"]

Version == [number: Numbers, status: Statuses, asked: {"APPROVED", "null"},
            published: BOOLEAN, verdicts: Scans, downloads: Nat]
NoVersion == [number |-> NoNumber, status |-> "null", asked |-> "null",
              published |-> FALSE, verdicts |-> NoScans, downloads |-> 0]
VersionOrNone == Version \cup {NoVersion}

Ops == {"create", "moderate", "update", "delete", "scan", "download"}
Stages == {"idle", "found", "committed", "refreshed", "audited", "done", "refused"}

Call == [stage: Stages, op: Ops, id: VersionIds \cup {NoId},
         number: Numbers \cup {NoNumber}, action: ModerationActions,
         todo: SUBSET Files, scans: Scans, seen: VersionOrNone]

Blank(stage) ==
  [stage |-> stage, op |-> "create", id |-> NoId, number |-> NoNumber,
   action |-> "APPROVE", todo |-> {}, scans |-> NoScans, seen |-> NoVersion]

Event == [call: Calls, version: VersionIds]

--------------------------------------------------------------------------
(* Helpers.  A "variant" is a plausible mistake in the code that nothing  *)
(* uses; in place of the helper after it, it must break a property.       *)

\* createVersion queues the version for review, with the scans it has run.
NewVersion(number, scans) ==
  [number |-> number, status |-> "PENDING_REVIEW", asked |-> "APPROVED",
   published |-> FALSE, verdicts |-> scans, downloads |-> 0]

\* A restored version goes back to the review queue.
DecidedStatus(action) ==
  IF action = "APPROVE" THEN "APPROVED"
  ELSE IF action = "REJECT" THEN "REJECTED"
  ELSE IF action = "ARCHIVE" THEN "ARCHIVED" ELSE "PENDING_REVIEW"

\* moderationVersionData.
Decided(version, action) ==
  [version EXCEPT !.status = DecidedStatus(action),
                  !.asked = IF action = "RESTORE" THEN "APPROVED" ELSE "null",
                  !.published = @ \/ action = "APPROVE"]

\* The number is kept when the update does not name one; null becomes the
\* empty number, which the validation of the input only refuses as a string.
Renumbered(version, number) ==
  [version EXCEPT !.number = IF number = NoNumber THEN @ ELSE number]

\* Variant: the update writes back the whole version it had read.
UpdatedWhole(version, seen, number) == Renumbered(seen, number)

\* versionUpdateData: an update names the fields it changes, the number perhaps
\* among them and the status never.
Updated(version, seen, number) == Renumbered(version, number)

\* Variant: a scan with a finding does not stop the creation.
ScanAcceptedAny(verdict) == verdict # "absent"

\* scanVersionFiles goes on after a clean scan only.
ScanAccepted(verdict) == verdict = "CLEAN"

\* Variant: only the project has to be public.
DownloadableAnyVersion(version, file) ==
  project = "APPROVED" /\ version.verdicts[file] = "CLEAN"

\* What prepareFileDownload asks of the file, its version and its project.
Downloadable(version, file) ==
  /\ project = "APPROVED" /\ version.status = "APPROVED"
  /\ version.verdicts[file] = "CLEAN"

\* Variant: the counter is written back from the version that was read.
CountedFromRead(version, seen) == [version EXCEPT !.downloads = seen.downloads + 1]

\* "downloads: {increment: 1}".
Counted(version, seen) == [version EXCEPT !.downloads = @ + 1]

\* Variant: search.deleteProject does not ignore a missing document.
RefreshWorksIndexed(status) == status = "APPROVED"

\* refreshProjectAfterVersionChange needs the project; it removes the document
\* of one that is not approved, and a missing document is no error.
RefreshWorks(status) == status # "deleted"

--------------------------------------------------------------------------
\* The project is approved; it has no version yet, or one that was just
\* created or approved.
Init ==
  /\ project = "APPROVED" /\ downloads = 0 /\ events = {} /\ auditLog = {}
  /\ \/ versions = [id \in VersionIds |-> NoVersion] /\ usedIds = {}
        /\ ruling = [id \in VersionIds |-> "none"]
     \/ \E id \in VersionIds, number \in Numbers \ {EmptyNumber}, approved \in BOOLEAN :
          /\ usedIds = {id}
          /\ versions = [v \in VersionIds |->
               IF v # id THEN NoVersion
               ELSE [number |-> number,
                     status |-> IF approved THEN "APPROVED" ELSE "PENDING_REVIEW",
                     asked |-> IF approved THEN "null" ELSE "APPROVED",
                     published |-> approved,
                     verdicts |-> [f \in Files |-> "CLEAN"], downloads |-> 0]]
          /\ ruling = [v \in VersionIds |->
                         IF v = id /\ approved THEN "APPROVE" ELSE "none"]
  /\ decisions = {} /\ rescanned = {} /\ outage = FALSE
  /\ calls = [c \in Calls |-> Blank("idle")]

Exists(id) == versions[id] # NoVersion

\* The unique constraint on the project and the version number.
NumberFree(number, id) ==
  number # NoNumber =>
    \A other \in VersionIds \ {id} : versions[other].number # number

Become(c, call) == calls' = [calls EXCEPT ![c] = call]
Refuse(c) == Become(c, Blank("refused"))
Done(c) == Become(c, Blank("done"))

--------------------------------------------------------------------------
(* createVersion.                                                         *)

\* The project is looked up and has to be approved; the input names a number.
BeginCreate(c, number, files) ==
  /\ calls[c].stage = "idle"
  /\ files # {} /\ number # EmptyNumber
  /\ IF project = "APPROVED"
     THEN Become(c, [Blank("found") EXCEPT !.number = number, !.todo = files])
     ELSE Refuse(c)
  /\ UNCHANGED <<rows, auditLog, history>>

\* The scanner's answer on the next file.
ScanFile(c, file, verdict) ==
  /\ calls[c].stage = "found" /\ calls[c].op = "create"
  /\ file \in calls[c].todo
  /\ IF ScanAccepted(verdict)
     THEN Become(c, [calls[c] EXCEPT !.todo = calls[c].todo \ {file},
                                     !.scans = [calls[c].scans EXCEPT ![file] = verdict]])
     ELSE Refuse(c)
  /\ UNCHANGED <<rows, auditLog, history>>

\* The transaction; it fails when the number is taken or the project is gone.
CommitCreate(c) ==
  /\ calls[c].stage = "found" /\ calls[c].op = "create" /\ calls[c].todo = {}
  /\ IF project # "deleted" /\ NumberFree(calls[c].number, NoId)
     THEN \E id \in VersionIds \ usedIds :
            /\ versions' = [versions EXCEPT
                              ![id] = NewVersion(calls[c].number, calls[c].scans)]
            /\ usedIds' = usedIds \cup {id}
            /\ Become(c, [Blank("committed") EXCEPT !.id = id])
     ELSE Refuse(c) /\ UNCHANGED <<versions, usedIds>>
  /\ UNCHANGED <<project, downloads, events, auditLog, history>>

--------------------------------------------------------------------------
(* The requests on an existing version.                                   *)

\* The version is looked up; an update needs an approved project.
FindVersion(c, op, id, number, action) ==
  /\ calls[c].stage = "idle"
  /\ op \in {"moderate", "update", "delete"}
  /\ op # "moderate" => action = "APPROVE"   \* of no meaning
  /\ op # "update" => number = NoNumber
  /\ IF Exists(id) /\ (op = "update" => project = "APPROVED")
     THEN Become(c, [Blank("found") EXCEPT !.op = op, !.id = id, !.action = action,
                       !.number = number, !.seen = versions[id]])
     ELSE Refuse(c)
  /\ UNCHANGED <<rows, auditLog, history>>

\* A scan or a download looks up one file of a version.
FindFile(c, op, id, file) ==
  /\ calls[c].stage = "idle"
  /\ op \in {"scan", "download"}
  /\ IF /\ Exists(id) /\ versions[id].verdicts[file] # "absent"
        /\ op = "download" => Downloadable(versions[id], file)
     THEN Become(c, [Blank("found") EXCEPT !.op = op, !.id = id, !.todo = {file},
                       !.seen = versions[id]])
     ELSE Refuse(c)
  /\ UNCHANGED <<rows, auditLog, history>>

\* The handler writes to the version it has found, if it is still there; the
\* request goes on as "call".
Writes(c, op, version, call) ==
  /\ calls[c].stage = "found" /\ calls[c].op = op
  /\ Exists(calls[c].id)
  /\ versions' = [versions EXCEPT ![calls[c].id] = version]
  /\ Become(c, call)
  /\ UNCHANGED <<project, usedIds, auditLog, outage>>

Committed(c) == [calls[c] EXCEPT !.stage = "committed"]

CommitDecision(c) ==
  LET call == calls[c]
  IN /\ Writes(c, "moderate", Decided(versions[call.id], call.action), Committed(c))
     /\ ruling' = [ruling EXCEPT ![call.id] = call.action]
     /\ decisions' = decisions \cup {c}
     /\ UNCHANGED <<downloads, events, rescanned>>

\* A number that another version of the project has is a constraint error.
\* updateVersionDependencies is an update that names no number.
CommitUpdate(c) ==
  LET call == calls[c]
  IN /\ NumberFree(call.number, call.id)
     /\ Writes(c, "update", Updated(versions[call.id], call.seen, call.number),
               Committed(c))
     /\ UNCHANGED <<downloads, events, ruling, decisions, rescanned>>

NumberTaken(c) ==
  /\ calls[c].stage = "found" /\ calls[c].op = "update"
  /\ ~NumberFree(calls[c].number, calls[c].id)
  /\ Refuse(c)
  /\ UNCHANGED <<rows, auditLog, history>>

\* The files, their scans and their download counter go with the version.
CommitDelete(c) ==
  /\ Writes(c, "delete", NoVersion, Committed(c))
  /\ UNCHANGED <<downloads, events, ruling, decisions, rescanned>>

\* scanVersionFile and recordFileScan add a scan of the file, whatever has
\* been recorded since the request began.
StoreScan(c, verdict) ==
  LET call == calls[c]
  IN \E file \in call.todo :
       /\ Writes(c, "scan", [versions[call.id] EXCEPT !.verdicts =
                   [versions[call.id].verdicts EXCEPT ![file] = verdict]],
                 Blank("done"))
       /\ rescanned' = rescanned \cup {<<call.id, file>>}
       /\ UNCHANGED <<downloads, events, ruling, decisions>>

\* prepareFileDownload counts the download in one transaction.
CountDownload(c) ==
  LET call == calls[c]
  IN /\ Writes(c, "download", Counted(versions[call.id], call.seen), Committed(c))
     /\ downloads' = downloads + 1
     /\ events' = events \cup {[call |-> c, version |-> call.id]}
     /\ UNCHANGED <<ruling, decisions, rescanned>>

\* The version has been deleted since it was found.
VersionGone(c) ==
  /\ calls[c].stage = "found" /\ calls[c].op # "create"
  /\ ~Exists(calls[c].id)
  /\ Refuse(c)
  /\ UNCHANGED <<rows, auditLog, history>>

--------------------------------------------------------------------------
(* After the commit.                                                      *)

\* refreshProjectAfterVersionChange.
Refresh(c) ==
  /\ calls[c].stage = "committed" /\ calls[c].op # "download"
  /\ IF ~RefreshWorks(project) THEN Refuse(c)
     ELSE IF calls[c].op = "moderate"
          THEN Become(c, [calls[c] EXCEPT !.stage = "refreshed"])
     ELSE Done(c)
  /\ UNCHANGED <<rows, auditLog, history>>

\* The call to the index or to the cache throws.
RefreshFails(c) ==
  /\ calls[c].stage = "committed" /\ calls[c].op # "download"
  /\ outage' = TRUE
  /\ Refuse(c)
  /\ UNCHANGED <<rows, auditLog, ruling, decisions, rescanned>>

\* A counted download is told to the analytics store, the cache and the index,
\* and the file served; or one of them throws, an index without the document
\* among them: the file is then not served, and the download remains counted.
AnnounceDownload(c) ==
  /\ calls[c].stage = "committed" /\ calls[c].op = "download"
  /\ Done(c) \/ Refuse(c)
  /\ UNCHANGED <<rows, auditLog, history>>

\* recordVersionModeration.
RecordModeration(c) ==
  /\ calls[c].stage = "refreshed"
  /\ auditLog' = auditLog \cup {c}
  /\ Become(c, [calls[c] EXCEPT !.stage = "audited"])
  /\ UNCHANGED <<rows, history>>

\* notifyVersionReviewDecision.
NotifyAuthor(c) ==
  /\ calls[c].stage = "audited"
  /\ Done(c)
  /\ UNCHANGED <<rows, auditLog, history>>

--------------------------------------------------------------------------
(* What happens to the project (ProjectCatalog models how).               *)

ModerateProject(status) ==
  /\ project # "deleted" /\ status # "PENDING_REVIEW"
  /\ project' = status
  /\ UNCHANGED <<downloads, versions, usedIds, events, auditLog, calls, history>>

\* Versions and events are deleted with the project.
DeleteProject ==
  /\ project # "deleted"
  /\ project' = "deleted"
  /\ downloads' = 0 /\ events' = {}
  /\ versions' = [id \in VersionIds |-> NoVersion]
  /\ UNCHANGED <<usedIds, auditLog, calls, history>>

--------------------------------------------------------------------------
Begin(c) ==
  \/ \E number \in Numbers, files \in SUBSET Files : BeginCreate(c, number, files)
  \/ \E op \in Ops, id \in VersionIds, number \in Numbers \cup {NoNumber},
        action \in ModerationActions : FindVersion(c, op, id, number, action)
  \/ \E op \in Ops, id \in VersionIds, file \in Files : FindFile(c, op, id, file)

Proceed(c) ==
  \/ \E file \in Files, verdict \in Verdicts \ {"absent"} : ScanFile(c, file, verdict)
  \/ \E verdict \in Verdicts \ {"absent"} : StoreScan(c, verdict)
  \/ CommitCreate(c) \/ CommitDecision(c) \/ CommitUpdate(c) \/ NumberTaken(c)
  \/ CommitDelete(c) \/ CountDownload(c) \/ VersionGone(c)
  \/ Refresh(c) \/ RefreshFails(c) \/ AnnounceDownload(c)
  \/ RecordModeration(c) \/ NotifyAuthor(c)

Next ==
  \/ \E c \in Calls : Begin(c) \/ Proceed(c)
  \/ \E status \in Statuses : ModerateProject(status)
  \/ DeleteProject

Spec == Init /\ [][Next]_vars

--------------------------------------------------------------------------
(* Properties.                                                            *)

\* The rows have the shape of the schema.
TypeOK ==
  /\ project \in Statuses \cup {"deleted"}
  /\ downloads \in Nat
  /\ versions \in [VersionIds -> VersionOrNone]
  /\ usedIds \in SUBSET VersionIds
  /\ events \in SUBSET Event
  /\ auditLog \in SUBSET Calls
  /\ calls \in [Calls -> Call]
  /\ ruling \in [VersionIds -> ModerationActions \cup {"none"}]
  /\ decisions \in SUBSET Calls
  /\ rescanned \in SUBSET (VersionIds \X Files)
  /\ outage \in BOOLEAN

\* A version waits for a review exactly while a status is requested for it,
\* and one that is public has a publication date: whatever decisions follow
\* each other, none leaves a decided version in the queue or an undated one
\* in the directory, which is sorted by that date.
VersionReviewCoherent ==
  \A id \in VersionIds : Exists(id) =>
    /\ versions[id].status = "PENDING_REVIEW" <=> versions[id].asked = "APPROVED"
    /\ versions[id].status = "APPROVED" => versions[id].published

\* The last decision that was committed on a version stands: no edit, scan or
\* download that began before it brings an earlier status back.
RulingStands ==
  \A id \in VersionIds : Exists(id) =>
    versions[id].status = IF ruling[id] = "none" THEN "PENDING_REVIEW"
                          ELSE DecidedStatus(ruling[id])

\* A version is created with clean files only: one whose latest scan says
\* otherwise has been scanned again since.
VettedOnArrival ==
  \A id \in VersionIds, f \in Files :
    versions[id].verdicts[f] \in {"MALWARE", "other"} => <<id, f>> \in rescanned

\* Only versions that were published at some time have been downloaded.
DownloadedWasPublished ==
  /\ \A id \in VersionIds : versions[id].downloads > 0 => versions[id].published
  /\ \A e \in events : Exists(e.version) => versions[e.version].published

\* The counters of the project and of its versions agree with the download
\* events, however many downloads run at once.
CountersAgree ==
  /\ downloads = Cardinality(events)
  /\ \A id \in VersionIds : Exists(id) =>
       versions[id].downloads = Cardinality({e \in events : e.version = id})

Quiet == \A c \in Calls : calls[c].stage \in {"idle", "done", "refused"}

\* When all is quiet every decision is on the audit log, unless the index or
\* the cache failed or the project was deleted under the request: the log is
\* written after them.
DecisionsRecorded ==
  Quiet /\ ~outage /\ project # "deleted" => decisions \subseteq auditLog
==========================================================================
