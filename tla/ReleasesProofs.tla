------------------------- MODULE ReleasesProofs --------------------------
(* Proofs about Releases, for any set of requests, identifiers, files and *)
(* numbers.  The inductive invariant is Inv: the stated properties of the *)
(* rows, where identifiers come from, and what a request in flight may    *)
(* still rely on.                                                         *)
EXTENDS Releases, FiniteSetTheorems, TLAPS

\* What a version row has to be, given its last decision and its events.
RowSound(id, version, decision, scanned, counted) ==
  /\ version \in VersionOrNone
  /\ version # NoVersion =>
       /\ version.status = "PENDING_REVIEW" <=> version.asked = "APPROVED"
       /\ version.status = "APPROVED" => version.published
       /\ version.status = IF decision = "none" THEN "PENDING_REVIEW"
                           ELSE DecidedStatus(decision)
       /\ version.downloads = Cardinality(counted)
       /\ counted # {} => version.published
  /\ \A f \in Files :
       version.verdicts[f] \in {"MALWARE", "other"} => <<id, f>> \in scanned

EventsOf(id) == {e \in events : e.version = id}

\* The rows and their counters.
RowsSound ==
  /\ project \in Statuses \cup {"deleted"}
  /\ versions \in [VersionIds -> VersionOrNone]
  /\ usedIds \in SUBSET VersionIds
  /\ events \in SUBSET Event /\ IsFiniteSet(events)
  /\ downloads = Cardinality(events)
  /\ auditLog \in SUBSET Calls
  /\ ruling \in [VersionIds -> ModerationActions \cup {"none"}]
  /\ decisions \in SUBSET Calls
  /\ rescanned \in SUBSET (VersionIds \X Files)
  /\ outage \in BOOLEAN
  /\ \A id \in VersionIds :
       RowSound(id, versions[id], ruling[id], rescanned, EventsOf(id))
  /\ \A id \in VersionIds \ usedIds :
       versions[id] = NoVersion /\ ruling[id] = "none" /\ EventsOf(id) = {}

\* What a request relies on: its files were found clean, the version it has
\* found to be public was public, it has not counted its download yet, and its
\* decision is on its way to the audit log.
CallSound(c) ==
  LET call == calls[c]
  IN /\ (call.stage = "found" /\ call.op = "create") =>
          /\ call.number \in Numbers
          /\ \A f \in Files : call.scans[f] \in {"absent", "CLEAN"}
     /\ (call.stage = "found" /\ call.op # "create") => call.id \in usedIds
     /\ (call.stage = "found" /\ call.op = "download" /\ Exists(call.id))
          => versions[call.id].published
     /\ call.stage \in {"idle", "found"} => \A e \in events : e.call # c
     /\ c \in decisions =>
          \/ c \in auditLog \/ outage \/ project = "deleted"
          \/ call.stage = "committed" /\ call.op = "moderate"
          \/ call.stage = "refreshed"

CallsSound ==
  /\ calls \in [Calls -> Call]
  /\ \A c \in Calls : CallSound(c)

Inv == RowsSound /\ CallsSound

--------------------------------------------------------------------------
(* Lemmas about the data.                                                 *)

\* The placeholder is not a version.
LEMMA NoVersionFacts ==
  /\ NoScans \in Scans /\ \A f \in Files : NoScans[f] = "absent"
  /\ NoVersion \notin Version /\ NoVersion \in VersionOrNone
  /\ NoVersion.verdicts = NoScans /\ NoVersion.downloads = 0
  /\ \A v \in VersionOrNone : v # NoVersion => v \in Version
  /\ \A v \in VersionOrNone : v.downloads \in Nat /\ v.verdicts \in Scans
<1>1. NoScans \in Scans /\ \A f \in Files : NoScans[f] = "absent"
  BY DEF NoScans, Scans, Verdicts
<1>2. NoVersion.number = NoNumber /\ NoVersion.verdicts = NoScans
        /\ NoVersion.downloads = 0
  BY DEF NoVersion
<1>3. \A v \in Version : v.number \in Numbers /\ v.downloads \in Nat
                           /\ v.verdicts \in Scans
  BY DEF Version
<1> QED
  BY <1>1, <1>2, <1>3, NumbersAssumption DEF VersionOrNone

\* A new version is queued, uncounted and has the scans of its request.
LEMMA NewVersionFacts ==
  ASSUME NEW number \in Numbers, NEW scans \in Scans
  PROVE LET v == NewVersion(number, scans)
        IN /\ v \in Version /\ v.status = "PENDING_REVIEW" /\ v.asked = "APPROVED"
           /\ v.downloads = 0 /\ v.verdicts = scans
BY DEF NewVersion, Version, Statuses

\* A decision sets the review fields and nothing else.
LEMMA DecidedFacts ==
  ASSUME NEW version \in Version, NEW action \in ModerationActions
  PROVE LET v == Decided(version, action)
        IN /\ v \in Version
           /\ v.status = DecidedStatus(action)
           /\ v.status = "PENDING_REVIEW" <=> v.asked = "APPROVED"
           /\ v.status = "APPROVED" => v.published
           /\ version.published => v.published
           /\ v.downloads = version.downloads /\ v.verdicts = version.verdicts
<1> DEFINE asked == IF action = "RESTORE" THEN "APPROVED" ELSE "null"
           published == version.published \/ action = "APPROVE"
<1>1. /\ DecidedStatus(action) \in Statuses
      /\ DecidedStatus(action) = "PENDING_REVIEW" <=> action = "RESTORE"
      /\ DecidedStatus(action) = "APPROVED" <=> action = "APPROVE"
  BY DEF DecidedStatus, Statuses, ModerationActions
<1>2. Decided(version, action) =
        [version EXCEPT !.status = DecidedStatus(action), !.asked = asked,
                        !.published = published]
  BY DEF Decided
<1>3. asked \in {"APPROVED", "null"} /\ (asked = "APPROVED" <=> action = "RESTORE")
        /\ published \in BOOLEAN
  BY DEF Version
<1> HIDE DEF asked, published
<1>4. LET v == Decided(version, action)
      IN /\ v \in Version
         /\ v.status = DecidedStatus(action) /\ v.asked = asked
         /\ v.published = published
         /\ v.downloads = version.downloads /\ v.verdicts = version.verdicts
  BY <1>1, <1>2, <1>3 DEF Version
<1> QED
  BY <1>1, <1>3, <1>4 DEF published

\* An update leaves everything but the number alone.
LEMMA UpdatedFacts ==
  ASSUME NEW version \in Version, NEW seen, NEW number \in Numbers \cup {NoNumber}
  PROVE LET v == Updated(version, seen, number)
        IN /\ v \in Version
           /\ v.status = version.status /\ v.asked = version.asked
           /\ v.published = version.published
           /\ v.downloads = version.downloads /\ v.verdicts = version.verdicts
BY DEF Updated, Renumbered, Version

\* A scan changes the verdict of one file.
LEMMA ScannedFacts ==
  ASSUME NEW version \in Version, NEW file \in Files, NEW verdict \in Verdicts
  PROVE LET v == [version EXCEPT !.verdicts = [version.verdicts EXCEPT ![file] = verdict]]
        IN /\ v \in Version
           /\ v.status = version.status /\ v.asked = version.asked
           /\ v.published = version.published
           /\ v.downloads = version.downloads
           /\ \A f \in Files \ {file} : v.verdicts[f] = version.verdicts[f]
<1> DEFINE scans == [version.verdicts EXCEPT ![file] = verdict]
<1>1. scans \in Scans /\ \A f \in Files \ {file} : scans[f] = version.verdicts[f]
  BY DEF Scans, Version
<1> HIDE DEF scans
<1>2. LET v == [version EXCEPT !.verdicts = scans]
      IN /\ v \in Version
         /\ v.status = version.status /\ v.asked = version.asked
         /\ v.published = version.published
         /\ v.downloads = version.downloads /\ v.verdicts = scans
  BY <1>1 DEF Version
<1> QED
  BY <1>1, <1>2 DEF scans

\* A counted download changes the counter.
LEMMA CountedFacts ==
  ASSUME NEW version \in Version, NEW seen
  PROVE LET v == Counted(version, seen)
        IN /\ v \in Version
           /\ v.status = version.status /\ v.asked = version.asked
           /\ v.published = version.published
           /\ v.downloads = version.downloads + 1 /\ v.verdicts = version.verdicts
<1>1. version.downloads + 1 \in Nat
  BY DEF Version
<1> QED
  BY <1>1 DEF Counted, Version

\* A blank request is a request.
LEMMA BlankFacts ==
  ASSUME NEW stage \in Stages
  PROVE Blank(stage) \in Call /\ Blank(stage).stage = stage /\ Blank(stage).op = "create"
BY NoVersionFacts DEF Blank, Call, Ops, ModerationActions

--------------------------------------------------------------------------
(* Steps.                                                                 *)

\* The step of one request: what another request relies on stays true as long
\* as identifiers are not reused, versions stay published, only the request
\* itself counts and decides, and what spoils the audit log cannot be undone.
LEMMA CallsStep ==
  ASSUME CallsSound, NEW c \in Calls, NEW call \in Call,
         calls' = [calls EXCEPT ![c] = call],
         usedIds \subseteq usedIds',
         \A id \in usedIds : Exists(id)' =>
           Exists(id) /\ (versions[id].published => versions'[id].published),
         \A e \in events' : e \in events \/ e.call = c,
         auditLog \subseteq auditLog',
         decisions' \subseteq decisions \cup {c},
         outage => outage',
         project = "deleted" => project' = "deleted",
         (calls'[c] = call) => CallSound(c)'
  PROVE CallsSound'
<1>1. calls' \in [Calls -> Call] /\ calls'[c] = call
  BY DEF CallsSound
<1>2. ASSUME NEW d \in Calls, d # c PROVE CallSound(d)'
  <2>1. calls'[d] = calls[d]
    BY <1>2 DEF CallsSound
  <2>2. CallSound(d)
    BY DEF CallsSound
  <2> QED
    BY <1>2, <2>1, <2>2 DEF CallSound
<1> QED
  BY <1>1, <1>2 DEF CallsSound

\* A step that changes neither rows nor logs.
LEMMA QuietStep ==
  ASSUME Inv, NEW c \in Calls, NEW call \in Call,
         calls' = [calls EXCEPT ![c] = call],
         UNCHANGED <<rows, auditLog, history>>,
         (calls'[c] = call) => CallSound(c)'
  PROVE Inv'
<1>1. UNCHANGED <<project, downloads, versions, usedIds, events, auditLog,
                  ruling, decisions, rescanned, outage>>
  BY DEF rows, history
<1>2. RowsSound'
  BY <1>1 DEF Inv, RowsSound, EventsOf
<1>3. CallsSound'
  <2>1. \A id \in usedIds : Exists(id)' =>
          Exists(id) /\ (versions[id].published => versions'[id].published)
    BY <1>1 DEF Exists
  <2> QED
    BY <1>1, <2>1, CallsStep DEF Inv
<1> QED
  BY <1>2, <1>3 DEF Inv

\* A request without further plans is sound when its decision is accounted for.
LEMMA RestingCall ==
  ASSUME NEW c \in Calls, calls[c].stage \in {"done", "refused"},
         c \in decisions => c \in auditLog \/ outage \/ project = "deleted"
  PROVE CallSound(c)
BY DEF CallSound

\* The step that writes one version.
LEMMA RowStep ==
  ASSUME RowsSound, NEW id \in VersionIds, NEW version,
         versions' = [versions EXCEPT ![id] = version],
         usedIds' = usedIds \cup {id},
         project' = project,
         events' \in SUBSET Event, IsFiniteSet(events'),
         downloads' = Cardinality(events'),
         \A e \in Event : e.version # id => (e \in events' <=> e \in events),
         auditLog' \in SUBSET Calls, decisions' \in SUBSET Calls,
         ruling' \in [VersionIds -> ModerationActions \cup {"none"}],
         \A other \in VersionIds \ {id} : ruling'[other] = ruling[other],
         rescanned' \in SUBSET (VersionIds \X Files), rescanned \subseteq rescanned',
         outage' = outage,
         RowSound(id, version, ruling'[id], rescanned', EventsOf(id)')
  PROVE RowsSound'
<1>1. /\ versions'[id] = version
      /\ \A other \in VersionIds \ {id} : versions'[other] = versions[other]
  BY DEF RowsSound
<1>2. \A other \in VersionIds \ {id} : EventsOf(other)' = EventsOf(other)
  <2> SUFFICES ASSUME NEW other \in VersionIds \ {id}
               PROVE EventsOf(other)' = EventsOf(other)
    OBVIOUS
  <2>1. \A e : e \in EventsOf(other)' <=> e \in EventsOf(other)
    BY DEF EventsOf, RowsSound
  <2> QED
    BY <2>1
<1>3. version \in VersionOrNone
  BY DEF RowSound
<1>4. versions' \in [VersionIds -> VersionOrNone]
  BY <1>3 DEF RowsSound
<1>5. ASSUME NEW other \in VersionIds
      PROVE RowSound(other, versions'[other], ruling'[other], rescanned', EventsOf(other)')
  <2>1. CASE other = id
    BY <1>1, <2>1
  <2>2. CASE other # id
    <3>1. RowSound(other, versions[other], ruling[other], rescanned, EventsOf(other))
      BY DEF RowsSound
    <3>2. /\ versions'[other] = versions[other] /\ ruling'[other] = ruling[other]
          /\ EventsOf(other)' = EventsOf(other)
      BY <1>1, <1>2, <2>2
    <3> QED
      BY <3>1, <3>2 DEF RowSound
  <2> QED
    BY <2>1, <2>2
<1>6. \A other \in VersionIds \ usedIds' :
        versions'[other] = NoVersion /\ ruling'[other] = "none" /\ EventsOf(other)' = {}
  BY <1>1, <1>2 DEF RowsSound
<1> QED
  BY <1>4, <1>5, <1>6 DEF RowsSound

\* A handler's write to a version that it has found.
LEMMA WritesFacts ==
  ASSUME Inv, NEW c \in Calls, NEW op \in Ops \ {"create"}, NEW version, NEW call,
         Writes(c, op, version, call)
  PROVE LET id == calls[c].id
        IN /\ id \in VersionIds /\ id \in usedIds /\ usedIds' = usedIds \cup {id}
           /\ versions[id] \in Version
           /\ RowSound(id, versions[id], ruling[id], rescanned, EventsOf(id))
           /\ versions' = [versions EXCEPT ![id] = version]
           /\ versions'[id] = version
           /\ \A other \in VersionIds \ {id} : versions'[other] = versions[other]
           /\ calls' = [calls EXCEPT ![c] = call]
           /\ calls[c] \in Call /\ CallSound(c)
           /\ calls[c].stage = "found" /\ calls[c].op = op
           /\ UNCHANGED <<project, usedIds, auditLog, outage>>
<1>1. /\ calls[c].stage = "found" /\ calls[c].op = op /\ Exists(calls[c].id)
      /\ versions' = [versions EXCEPT ![calls[c].id] = version]
      /\ calls' = [calls EXCEPT ![c] = call]
      /\ UNCHANGED <<project, usedIds, auditLog, outage>>
  BY DEF Writes, Become
<1>2. CallSound(c) /\ calls[c] \in Call
  BY DEF Inv, CallsSound
<1>3. calls[c].id \in usedIds /\ calls[c].id \in VersionIds
  BY <1>1, <1>2 DEF CallSound, Inv, RowsSound
<1>4. versions[calls[c].id] \in Version
  BY <1>1, <1>3, NoVersionFacts DEF Exists, Inv, RowsSound
<1>5. RowSound(calls[c].id, versions[calls[c].id], ruling[calls[c].id], rescanned,
               EventsOf(calls[c].id))
  BY <1>3 DEF Inv, RowsSound
<1>6. /\ versions'[calls[c].id] = version
      /\ \A other \in VersionIds \ {calls[c].id} : versions'[other] = versions[other]
  BY <1>1, <1>3 DEF Inv, RowsSound
<1> QED
  BY <1>1, <1>2, <1>3, <1>4, <1>5, <1>6

--------------------------------------------------------------------------
(* Every step preserves the invariant.                                    *)

\* The seeded version is sound.
LEMMA InitInv == Init => Inv
<1> SUFFICES ASSUME Init PROVE Inv
  OBVIOUS
<1>1. /\ project \in Statuses /\ events = {} /\ decisions = {} /\ downloads = 0
      /\ auditLog = {} /\ rescanned = {} /\ outage = FALSE
      /\ calls = [c \in Calls |-> Blank("idle")]
  BY DEF Init, Statuses
<1>2. IsFiniteSet({}) /\ Cardinality({}) = 0
  BY FS_EmptySet
<1>3. \A id \in VersionIds : EventsOf(id) = {}
  BY <1>1 DEF EventsOf
<1>4. \A id \in VersionIds : \A decision : RowSound(id, NoVersion, decision, rescanned, {})
  BY NoVersionFacts DEF RowSound
<1>5. ASSUME versions = [id \in VersionIds |-> NoVersion], usedIds = {},
             ruling = [id \in VersionIds |-> "none"]
      PROVE RowsSound
  BY <1>1, <1>2, <1>3, <1>4, <1>5, NoVersionFacts DEF RowsSound
<1>6. ASSUME NEW id \in VersionIds, NEW number \in Numbers, NEW approved \in BOOLEAN,
             NEW version,
             version = [number |-> number,
                     status |-> IF approved THEN "APPROVED" ELSE "PENDING_REVIEW",
                     asked |-> IF approved THEN "null" ELSE "APPROVED",
                     published |-> approved,
                     verdicts |-> [f \in Files |-> "CLEAN"], downloads |-> 0],
             usedIds = {id},
             versions = [v \in VersionIds |-> IF v # id THEN NoVersion ELSE version],
             ruling = [v \in VersionIds |->
                         IF v = id /\ approved THEN "APPROVE" ELSE "none"]
      PROVE RowsSound
  <2>1. /\ version \in Version
        /\ version.status = IF approved THEN "APPROVED" ELSE "PENDING_REVIEW"
        /\ version.asked = IF approved THEN "null" ELSE "APPROVED"
        /\ version.published = approved /\ version.downloads = 0
        /\ \A f \in Files : version.verdicts[f] = "CLEAN"
    BY <1>6 DEF Version, Statuses, Scans, Verdicts
  <2>2. ruling \in [VersionIds -> ModerationActions \cup {"none"}]
          /\ ruling[id] = IF approved THEN "APPROVE" ELSE "none"
    BY <1>6 DEF ModerationActions
  <2>3. RowSound(id, version, ruling[id], rescanned, {})
    BY <1>2, <2>1, <2>2 DEF RowSound, VersionOrNone, DecidedStatus
  <2>4. \A v \in VersionIds : RowSound(v, versions[v], ruling[v], rescanned, {})
    BY <1>4, <1>6, <2>3
  <2>5. versions \in [VersionIds -> VersionOrNone]
    BY <1>6, <2>1, NoVersionFacts DEF VersionOrNone
  <2>6. usedIds \in SUBSET VersionIds
          /\ \A v \in VersionIds \ usedIds : versions[v] = NoVersion /\ ruling[v] = "none"
    BY <1>6
  <2> QED
    BY <1>1, <1>2, <1>3, <2>2, <2>4, <2>5, <2>6 DEF RowsSound
<1>7. RowsSound
  <2>1. CASE versions = [id \in VersionIds |-> NoVersion] /\ usedIds = {}
               /\ ruling = [id \in VersionIds |-> "none"]
    BY <1>5, <2>1
  <2>2. CASE ~(versions = [id \in VersionIds |-> NoVersion] /\ usedIds = {}
               /\ ruling = [id \in VersionIds |-> "none"])
    BY <1>6, <2>2 DEF Init
  <2> QED
    BY <2>1, <2>2
<1>8. CallsSound
  <2>1. \A c \in Calls : calls[c] = Blank("idle")
    BY <1>1
  <2>2. Blank("idle") \in Call /\ Blank("idle").stage = "idle"
    BY BlankFacts DEF Stages
  <2>3. \A c \in Calls : CallSound(c)
    BY <1>1, <2>1, <2>2 DEF CallSound
  <2> QED
    BY <1>1, <2>2, <2>3 DEF CallsSound
<1> QED
  BY <1>7, <1>8 DEF Inv

\* A refused request changes nothing else.
LEMMA RefuseInv ==
  ASSUME Inv, NEW c \in Calls, Refuse(c), UNCHANGED <<rows, auditLog, history>>,
         c \in decisions => c \in auditLog \/ outage \/ project = "deleted"
  PROVE Inv'
<1>1. Blank("refused") \in Call /\ Blank("refused").stage = "refused"
  BY BlankFacts DEF Stages
<1>2. calls' = [calls EXCEPT ![c] = Blank("refused")]
  BY DEF Refuse, Become
<1>3. UNCHANGED <<auditLog, decisions, outage, project>>
  BY DEF rows, history
<1>4. (calls'[c] = Blank("refused")) => CallSound(c)'
  BY <1>1, <1>3 DEF CallSound
<1> QED
  BY <1>1, <1>2, <1>4, QuietStep

\* A request that has committed nothing yet owes nothing to the audit log.
LEMMA OwesNothing ==
  ASSUME Inv, NEW c \in Calls, calls[c].stage \in {"idle", "found"}
  PROVE c \in decisions => c \in auditLog \/ outage \/ project = "deleted"
BY DEF Inv, CallsSound, CallSound

\* Looking something up.
LEMMA BeginInv ==
  ASSUME Inv, NEW c \in Calls, Begin(c)
  PROVE Inv'
<1>0. CallSound(c) /\ calls[c] \in Call
  BY DEF Inv, CallsSound
<1>1. ASSUME NEW call \in Call, calls[c].stage = "idle",
             call.stage = "found", UNCHANGED <<rows, auditLog, history>>,
             calls' = [calls EXCEPT ![c] = call],
             call.op = "create" => call.number \in Numbers /\ call.scans = NoScans,
             call.op # "create" => call.id \in usedIds,
             call.op = "download" => versions[call.id].published
      PROVE Inv'
  <2>1. UNCHANGED <<project, versions, usedIds, events, auditLog, decisions, outage>>
    BY <1>1 DEF rows, history
  <2>2. (calls'[c] = call) => CallSound(c)'
    BY <1>0, <1>1, <2>1, NoVersionFacts DEF CallSound
  <2> QED
    BY <1>1, <2>2, QuietStep
<1>2. ASSUME NEW number \in Numbers, NEW files \in SUBSET Files,
             BeginCreate(c, number, files)
      PROVE Inv'
  <2>1. calls[c].stage = "idle" /\ UNCHANGED <<rows, auditLog, history>>
    BY <1>2 DEF BeginCreate
  <2>2. CASE project = "APPROVED"
    <3> DEFINE call == [Blank("found") EXCEPT !.number = number, !.todo = files]
    <3>1. /\ call \in Call /\ call.stage = "found" /\ call.op = "create"
          /\ call.number = number /\ call.scans = NoScans
      BY NoVersionFacts DEF Blank, Call, Ops, Stages, ModerationActions
    <3>2. calls' = [calls EXCEPT ![c] = call]
      BY <1>2, <2>2 DEF BeginCreate, Become
    <3> HIDE DEF call
    <3> QED
      BY <1>1, <2>1, <3>1, <3>2
  <2>3. CASE project # "APPROVED"
    BY <1>2, <2>1, <2>3, OwesNothing, RefuseInv DEF BeginCreate
  <2> QED
    BY <2>2, <2>3
<1>3. ASSUME NEW op \in Ops, NEW id \in VersionIds, NEW action \in ModerationActions,
             NEW number \in Numbers \cup {NoNumber}, FindVersion(c, op, id, number, action)
      PROVE Inv'
  <2>1. calls[c].stage = "idle" /\ UNCHANGED <<rows, auditLog, history>>
          /\ op \in {"moderate", "update", "delete"}
    BY <1>3 DEF FindVersion
  <2>2. CASE Exists(id) /\ (op = "update" => project = "APPROVED")
    <3> DEFINE call == [Blank("found") EXCEPT !.op = op, !.id = id, !.action = action,
                       !.number = number, !.seen = versions[id]]
    <3>1. /\ call \in Call /\ call.stage = "found" /\ call.op = op /\ call.id = id
      BY NoVersionFacts DEF Blank, Call, Ops, Stages, Inv, RowsSound
    <3>2. calls' = [calls EXCEPT ![c] = call]
      BY <1>3, <2>2 DEF FindVersion, Become
    <3>3. id \in usedIds
      BY <2>2 DEF Exists, Inv, RowsSound
    <3> HIDE DEF call
    <3> QED
      BY <1>1, <2>1, <3>1, <3>2, <3>3
  <2>3. CASE ~(Exists(id) /\ (op = "update" => project = "APPROVED"))
    BY <1>3, <2>1, <2>3, OwesNothing, RefuseInv DEF FindVersion
  <2> QED
    BY <2>2, <2>3
<1>4. ASSUME NEW op \in Ops, NEW id \in VersionIds, NEW file \in Files,
             FindFile(c, op, id, file)
      PROVE Inv'
  <2> DEFINE ok == /\ Exists(id) /\ versions[id].verdicts[file] # "absent"
                   /\ op = "download" => Downloadable(versions[id], file)
  <2>1. calls[c].stage = "idle" /\ UNCHANGED <<rows, auditLog, history>>
          /\ op \in {"scan", "download"}
    BY <1>4 DEF FindFile
  <2>2. CASE ok
    <3> DEFINE call == [Blank("found") EXCEPT !.op = op, !.id = id, !.todo = {file},
                       !.seen = versions[id]]
    <3>1. /\ call \in Call /\ call.stage = "found" /\ call.op = op /\ call.id = id
      BY NoVersionFacts DEF Blank, Call, Ops, Stages, ModerationActions, Inv, RowsSound
    <3>2. calls' = [calls EXCEPT ![c] = call]
      BY <1>4, <2>2 DEF FindFile, Become
    <3>3. id \in usedIds
      BY <2>2 DEF Exists, Inv, RowsSound
    <3>4. op = "download" => versions[id].published
      <4>1. RowSound(id, versions[id], ruling[id], rescanned, EventsOf(id))
        BY DEF Inv, RowsSound
      <4> QED
        BY <2>2, <4>1 DEF RowSound, Downloadable, Exists
    <3> HIDE DEF call
    <3> QED
      BY <1>1, <2>1, <3>1, <3>2, <3>3, <3>4
  <2>3. CASE ~ok
    BY <1>4, <2>1, <2>3, OwesNothing, RefuseInv DEF FindFile
  <2> QED
    BY <2>2, <2>3
<1> QED
  BY <1>2, <1>3, <1>4 DEF Begin

\* A write that neither counts nor decides; "version" keeps the review, the
\* date and the counter of the version it replaces, or removes it.
LEMMA PlainWriteInv ==
  ASSUME Inv, NEW c \in Calls, NEW op \in {"update", "delete", "scan"}, NEW version,
         NEW call \in Call, Writes(c, op, version, call),
         call.stage \in {"committed", "done"},
         UNCHANGED <<downloads, events, ruling, decisions>>,
         rescanned' \in SUBSET (VersionIds \X Files), rescanned \subseteq rescanned',
         version = NoVersion \/
           LET old == versions[calls[c].id]
           IN /\ version \in Version
              /\ version.status = old.status /\ version.asked = old.asked
              /\ version.published = old.published
              /\ version.downloads = old.downloads
              /\ \A f \in Files : version.verdicts[f] \in {"MALWARE", "other"} =>
                   <<calls[c].id, f>> \in rescanned' \/ version.verdicts[f] = old.verdicts[f]
  PROVE Inv'
<1> PICK id \in VersionIds : id = calls[c].id
  BY WritesFacts DEF Ops
<1> DEFINE old == versions[id]
<1>1. /\ id \in VersionIds /\ id \in usedIds /\ usedIds' = usedIds \cup {id}
      /\ old \in Version
      /\ RowSound(id, old, ruling[id], rescanned, EventsOf(id))
      /\ versions' = [versions EXCEPT ![id] = version]
      /\ versions'[id] = version
      /\ \A other \in VersionIds \ {id} : versions'[other] = versions[other]
      /\ calls' = [calls EXCEPT ![c] = call]
      /\ CallSound(c) /\ calls[c].stage = "found"
      /\ UNCHANGED <<project, usedIds, auditLog, outage>>
  BY WritesFacts DEF Ops
<1>2. old # NoVersion
  BY <1>1, NoVersionFacts
<1>3. EventsOf(id)' = EventsOf(id)
  BY DEF EventsOf
<1> HIDE DEF old
<1>4. RowSound(id, version, ruling'[id], rescanned', EventsOf(id)')
  <2>1. CASE version = NoVersion
    BY <2>1, NoVersionFacts DEF RowSound
  <2>2. CASE version # NoVersion
    <3>1. /\ version \in Version
          /\ version.status = old.status /\ version.asked = old.asked
          /\ version.published = old.published
          /\ version.downloads = old.downloads
          /\ \A f \in Files : version.verdicts[f] \in {"MALWARE", "other"} =>
               <<id, f>> \in rescanned' \/ version.verdicts[f] = old.verdicts[f]
      BY <2>2 DEF old
    <3> QED
      BY <1>1, <1>2, <1>3, <3>1 DEF RowSound, VersionOrNone
  <2> QED
    BY <2>1, <2>2
<1>5. RowsSound'
  <2>1. /\ events' \in SUBSET Event /\ IsFiniteSet(events')
        /\ downloads' = Cardinality(events')
        /\ auditLog' \in SUBSET Calls /\ decisions' \in SUBSET Calls
        /\ ruling' \in [VersionIds -> ModerationActions \cup {"none"}]
    BY <1>1 DEF Inv, RowsSound
  <2> QED
    BY <1>1, <1>4, <2>1, RowStep DEF Inv
<1>6. CallsSound'
  <2>1. \A other \in usedIds : Exists(other)' =>
          Exists(other) /\ (versions[other].published => versions'[other].published)
    <3> SUFFICES ASSUME NEW other \in usedIds, Exists(other)'
                 PROVE Exists(other) /\ (versions[other].published => versions'[other].published)
      OBVIOUS
    <3>1. other \in VersionIds
      BY DEF Inv, RowsSound
    <3>2. CASE other # id
      BY <1>1, <3>1, <3>2 DEF Exists
    <3>3. CASE other = id
      BY <1>1, <1>2, <3>3 DEF Exists, old
    <3> QED
      BY <3>2, <3>3
  <2>2. c \in decisions => c \in auditLog \/ outage \/ project = "deleted"
    BY <1>1, OwesNothing
  <2>3. (calls'[c] = call) => CallSound(c)'
    BY <1>1, <2>2 DEF CallSound
  <2> QED
    BY <1>1, <2>1, <2>3, CallsStep DEF Inv
<1> QED
  BY <1>5, <1>6 DEF Inv

\* The steps that write a version without counting or deciding.
LEMMA PlainWritesInv ==
  ASSUME Inv, NEW c \in Calls,
         \/ CommitUpdate(c) \/ CommitDelete(c)
         \/ \E verdict \in Verdicts : StoreScan(c, verdict)
  PROVE Inv'
<1> DEFINE old == versions[calls[c].id]
<1>0. calls[c] \in Call
  BY DEF Inv, CallsSound
<1>1. Committed(c) \in Call /\ Committed(c).stage = "committed"
  BY <1>0 DEF Committed, Call, Stages
<1>2. Blank("done") \in Call /\ Blank("done").stage = "done"
  BY BlankFacts DEF Stages
<1>3. rescanned \in SUBSET (VersionIds \X Files)
  BY DEF Inv, RowsSound
<1>4. CASE CommitUpdate(c)
  <2> DEFINE version == Updated(old, calls[c].seen, calls[c].number)
  <2>1. Writes(c, "update", version, Committed(c))
          /\ UNCHANGED <<downloads, events, ruling, decisions, rescanned>>
    BY <1>4 DEF CommitUpdate
  <2>2. old \in Version
    BY <2>1, WritesFacts DEF Ops
  <2>3. calls[c].number \in Numbers \cup {NoNumber}
    BY <1>0 DEF Call
  <2>4. /\ version \in Version
        /\ version.status = old.status /\ version.asked = old.asked
        /\ version.published = old.published
        /\ version.downloads = old.downloads /\ version.verdicts = old.verdicts
    BY <2>2, <2>3, UpdatedFacts
  <2> HIDE DEF version
  <2> QED
    BY <1>1, <1>3, <2>1, <2>4, PlainWriteInv
<1>5. CASE CommitDelete(c)
  BY <1>1, <1>3, <1>5, PlainWriteInv DEF CommitDelete
<1>6. ASSUME NEW verdict \in Verdicts, StoreScan(c, verdict) PROVE Inv'
  <2>1. PICK file \in calls[c].todo :
          /\ Writes(c, "scan", [old EXCEPT !.verdicts =
                         [old.verdicts EXCEPT ![file] = verdict]], Blank("done"))
          /\ rescanned' = rescanned \cup {<<calls[c].id, file>>}
          /\ UNCHANGED <<downloads, events, ruling, decisions>>
    BY <1>6 DEF StoreScan
  <2> DEFINE version == [old EXCEPT !.verdicts = [old.verdicts EXCEPT ![file] = verdict]]
  <2>2. old \in Version /\ calls[c].id \in VersionIds
    BY <2>1, WritesFacts DEF Ops
  <2>3. file \in Files
    BY <1>0 DEF Call
  <2>4. /\ version \in Version
        /\ version.status = old.status /\ version.asked = old.asked
        /\ version.published = old.published
        /\ version.downloads = old.downloads
        /\ \A f \in Files \ {file} : version.verdicts[f] = old.verdicts[f]
    BY <2>2, <2>3, ScannedFacts
  <2>5. Writes(c, "scan", version, Blank("done"))
    BY <2>1
  <2> HIDE DEF version
  <2>6. \A f \in Files : <<calls[c].id, f>> \in rescanned'
                           \/ version.verdicts[f] = old.verdicts[f]
    BY <2>1, <2>4
  <2>7. rescanned' \in SUBSET (VersionIds \X Files) /\ rescanned \subseteq rescanned'
    BY <1>3, <2>1, <2>2, <2>3
  <2> QED
    BY <1>2, <2>1, <2>4, <2>5, <2>6, <2>7, PlainWriteInv
<1> QED
  BY <1>4, <1>5, <1>6

\* A decision.
LEMMA DecisionInv ==
  ASSUME Inv, NEW c \in Calls, CommitDecision(c)
  PROVE Inv'
<1> PICK id \in VersionIds : id = calls[c].id
  BY WritesFacts DEF CommitDecision, Ops
<1> DEFINE old == versions[id]
           action == calls[c].action
           version == Decided(old, action)
           call == Committed(c)
<1>0. /\ Writes(c, "moderate", version, call)
      /\ ruling' = [ruling EXCEPT ![id] = action] /\ decisions' = decisions \cup {c}
      /\ UNCHANGED <<downloads, events, rescanned>>
  BY DEF CommitDecision
<1>1. /\ id \in VersionIds /\ id \in usedIds /\ usedIds' = usedIds \cup {id}
      /\ old \in Version
      /\ RowSound(id, old, ruling[id], rescanned, EventsOf(id))
      /\ versions' = [versions EXCEPT ![id] = version]
      /\ versions'[id] = version
      /\ \A other \in VersionIds \ {id} : versions'[other] = versions[other]
      /\ calls' = [calls EXCEPT ![c] = call]
      /\ calls[c] \in Call /\ CallSound(c)
      /\ calls[c].stage = "found" /\ calls[c].op = "moderate"
      /\ UNCHANGED <<project, usedIds, auditLog, outage>>
  BY <1>0, WritesFacts DEF Ops
<1>2. action \in ModerationActions /\ action # "none"
  BY <1>1 DEF Call, ModerationActions
<1>3. /\ version \in Version
      /\ version.status = DecidedStatus(action)
      /\ version.status = "PENDING_REVIEW" <=> version.asked = "APPROVED"
      /\ version.status = "APPROVED" => version.published
      /\ old.published => version.published
      /\ version.downloads = old.downloads /\ version.verdicts = old.verdicts
  BY <1>1, <1>2, DecidedFacts
<1>4. call \in Call /\ call.stage = "committed" /\ call.op = "moderate"
  BY <1>1 DEF Committed, Call, Stages
<1>5. old # NoVersion
  BY <1>1, NoVersionFacts
<1>6. EventsOf(id)' = EventsOf(id)
  BY <1>0 DEF EventsOf
<1> HIDE DEF old, action, version, call
<1>7. ruling'[id] = action /\ ruling' \in [VersionIds -> ModerationActions \cup {"none"}]
        /\ \A other \in VersionIds \ {id} : ruling'[other] = ruling[other]
  BY <1>0, <1>1, <1>2 DEF Inv, RowsSound
<1>8. RowSound(id, version, ruling'[id], rescanned', EventsOf(id)')
  BY <1>0, <1>1, <1>2, <1>3, <1>5, <1>6, <1>7 DEF RowSound, VersionOrNone
<1>9. RowsSound'
  <2>1. /\ events' \in SUBSET Event /\ IsFiniteSet(events')
        /\ downloads' = Cardinality(events')
        /\ auditLog' \in SUBSET Calls /\ decisions' \in SUBSET Calls
        /\ rescanned' \in SUBSET (VersionIds \X Files)
    BY <1>0, <1>1 DEF Inv, RowsSound
  <2> QED
    BY <1>0, <1>1, <1>7, <1>8, <2>1, RowStep DEF Inv
<1>10. CallsSound'
  <2>1. \A other \in usedIds : Exists(other)' =>
          Exists(other) /\ (versions[other].published => versions'[other].published)
    <3> SUFFICES ASSUME NEW other \in usedIds, Exists(other)'
                 PROVE Exists(other) /\ (versions[other].published => versions'[other].published)
      OBVIOUS
    <3>1. other \in VersionIds
      BY DEF Inv, RowsSound
    <3>2. CASE other # id
      BY <1>1, <3>1, <3>2 DEF Exists
    <3>3. CASE other = id
      BY <1>1, <1>3, <1>5, <3>3 DEF Exists, old
    <3> QED
      BY <3>2, <3>3
  <2>2. (calls'[c] = call) => CallSound(c)'
    BY <1>0, <1>1, <1>4 DEF CallSound
  <2> QED
    BY <1>0, <1>1, <1>4, <2>1, <2>2, CallsStep DEF Inv
<1> QED
  BY <1>9, <1>10 DEF Inv

\* A counted download.
LEMMA CountInv ==
  ASSUME Inv, NEW c \in Calls, CountDownload(c)
  PROVE Inv'
<1> PICK id \in VersionIds : id = calls[c].id
  BY WritesFacts DEF CountDownload, Ops
<1> DEFINE old == versions[id]
           version == Counted(old, calls[c].seen)
           call == Committed(c)
           event == [call |-> c, version |-> id]
<1>0. /\ Writes(c, "download", version, call)
      /\ downloads' = downloads + 1 /\ events' = events \cup {event}
      /\ UNCHANGED <<ruling, decisions, rescanned>>
  BY DEF CountDownload
<1>1. /\ id \in usedIds /\ usedIds' = usedIds \cup {id}
      /\ old \in Version
      /\ RowSound(id, old, ruling[id], rescanned, EventsOf(id))
      /\ versions' = [versions EXCEPT ![id] = version]
      /\ versions'[id] = version
      /\ \A other \in VersionIds \ {id} : versions'[other] = versions[other]
      /\ calls' = [calls EXCEPT ![c] = call]
      /\ calls[c] \in Call
      /\ CallSound(c) /\ calls[c].stage = "found" /\ calls[c].op = "download"
      /\ UNCHANGED <<project, usedIds, auditLog, outage>>
  <2> HIDE DEF version, call
  <2>1. "download" \in Ops \ {"create"}
    BY DEF Ops
  <2> QED BY <1>0, <2>1, WritesFacts
<1>2. /\ version \in Version
      /\ version.status = old.status /\ version.asked = old.asked
      /\ version.published = old.published
      /\ version.downloads = old.downloads + 1 /\ version.verdicts = old.verdicts
  BY <1>1, CountedFacts
<1>3. call \in Call /\ call.stage = "committed"
  BY <1>1 DEF Committed, Call, Stages
<1>4. old # NoVersion
  BY <1>1, NoVersionFacts
<1>5. old.published
  BY <1>1, <1>4 DEF CallSound, Exists
<1>6. event \in Event /\ event.version = id /\ event.call = c
  BY DEF Event
<1>7. event \notin events
  BY <1>1, <1>6 DEF CallSound
<1> HIDE DEF event
<1>8. EventsOf(id)' = EventsOf(id) \cup {event}
  BY <1>0, <1>6 DEF EventsOf
<1>9. /\ IsFiniteSet(events) /\ IsFiniteSet(EventsOf(id))
      /\ event \notin EventsOf(id)
  <2>1. IsFiniteSet(events) /\ EventsOf(id) \in SUBSET events
    BY DEF Inv, RowsSound, EventsOf
  <2> QED
    BY <1>7, <2>1, FS_Subset
<1>10. /\ IsFiniteSet(events') /\ Cardinality(events') = Cardinality(events) + 1
       /\ Cardinality(EventsOf(id)') = Cardinality(EventsOf(id)) + 1
  BY <1>0, <1>7, <1>8, <1>9, FS_AddElement
<1> HIDE DEF old, version, call
<1>11. RowSound(id, version, ruling'[id], rescanned', EventsOf(id)')
  BY <1>0, <1>1, <1>2, <1>4, <1>5, <1>10 DEF RowSound, VersionOrNone
<1>12. RowsSound'
  <2>1. /\ events' \in SUBSET Event /\ downloads' = Cardinality(events')
        /\ auditLog' \in SUBSET Calls /\ decisions' \in SUBSET Calls
        /\ rescanned' \in SUBSET (VersionIds \X Files)
        /\ ruling' \in [VersionIds -> ModerationActions \cup {"none"}]
    BY <1>0, <1>1, <1>6, <1>10 DEF Inv, RowsSound
  <2>2. \A e \in Event : e.version # id => (e \in events' <=> e \in events)
    BY <1>0, <1>6
  <2> QED
    BY <1>0, <1>1, <1>10, <1>11, <2>1, <2>2, RowStep DEF Inv
<1>13. CallsSound'
  <2>1. \A other \in usedIds : Exists(other)' =>
          Exists(other) /\ (versions[other].published => versions'[other].published)
    <3> SUFFICES ASSUME NEW other \in usedIds, Exists(other)'
                 PROVE Exists(other) /\ (versions[other].published => versions'[other].published)
      OBVIOUS
    <3>1. other \in VersionIds
      BY DEF Inv, RowsSound
    <3>2. CASE other # id
      BY <1>1, <3>1, <3>2 DEF Exists
    <3>3. CASE other = id
      BY <1>1, <1>2, <1>4, <3>3 DEF Exists, old
    <3> QED
      BY <3>2, <3>3
  <2>2. c \in decisions => c \in auditLog \/ outage \/ project = "deleted"
    BY <1>1, OwesNothing
  <2>3. (calls'[c] = call) => CallSound(c)'
    BY <1>0, <1>1, <1>3, <2>2 DEF CallSound
  <2>4. \A e \in events' : e \in events \/ e.call = c
    BY <1>0, <1>6
  <2> QED
    BY <1>0, <1>1, <1>3, <2>1, <2>3, <2>4, CallsStep DEF Inv
<1> QED
  BY <1>12, <1>13 DEF Inv

\* A created version.
LEMMA CreateInv ==
  ASSUME Inv, NEW c \in Calls, CommitCreate(c)
  PROVE Inv'
<1>0. /\ calls[c].stage = "found" /\ calls[c].op = "create"
      /\ UNCHANGED <<project, downloads, events, auditLog, history>>
  BY DEF CommitCreate
<1>1. CASE project # "deleted" /\ NumberFree(calls[c].number, NoId)
  <2>1. PICK id \in VersionIds \ usedIds :
          /\ versions' = [versions EXCEPT
                            ![id] = NewVersion(calls[c].number, calls[c].scans)]
          /\ usedIds' = usedIds \cup {id}
          /\ Become(c, [Blank("committed") EXCEPT !.id = id])
    BY <1>1 DEF CommitCreate
  <2> DEFINE version == NewVersion(calls[c].number, calls[c].scans)
             call == [Blank("committed") EXCEPT !.id = id]
  <2>2. call \in Call /\ call.stage = "committed" /\ call.op = "create"
    BY NoVersionFacts DEF Blank, Call, Ops, Stages, ModerationActions
  <2>3. CallSound(c) /\ calls[c] \in Call
    BY DEF Inv, CallsSound
  <2>4. /\ calls[c].number \in Numbers /\ calls[c].scans \in Scans
        /\ \A f \in Files : calls[c].scans[f] \in {"absent", "CLEAN"}
    BY <1>0, <2>3 DEF CallSound, Call
  <2>5. /\ version \in Version /\ version.status = "PENDING_REVIEW"
        /\ version.asked = "APPROVED" /\ version.downloads = 0
        /\ version.verdicts = calls[c].scans
    BY <2>4, NewVersionFacts
  <2>6. ruling[id] = "none" /\ EventsOf(id) = {} /\ versions[id] = NoVersion
    BY DEF Inv, RowsSound
  <2>7. calls' = [calls EXCEPT ![c] = call] /\ versions' = [versions EXCEPT ![id] = version]
    BY <2>1 DEF Become
  <2>8. UNCHANGED <<project, downloads, events, auditLog, ruling, decisions, rescanned, outage>>
    BY <1>0 DEF history
  <2> HIDE DEF version, call
  <2>9. EventsOf(id)' = {}
    BY <2>6, <2>8 DEF EventsOf
  <2>10. RowSound(id, version, ruling'[id], rescanned', EventsOf(id)')
    BY <2>4, <2>5, <2>6, <2>8, <2>9, FS_EmptySet DEF RowSound, VersionOrNone
  <2>11. RowsSound'
    <3>1. /\ events' \in SUBSET Event /\ IsFiniteSet(events')
          /\ downloads' = Cardinality(events')
          /\ auditLog' \in SUBSET Calls /\ decisions' \in SUBSET Calls
          /\ rescanned' \in SUBSET (VersionIds \X Files)
          /\ ruling' \in [VersionIds -> ModerationActions \cup {"none"}]
      BY <2>8 DEF Inv, RowsSound
    <3> QED
      BY <2>1, <2>7, <2>8, <2>10, <3>1, RowStep DEF Inv
  <2>12. CallsSound'
    <3>1. \A other \in usedIds : Exists(other)' =>
            Exists(other) /\ (versions[other].published => versions'[other].published)
      BY <2>1, <2>7 DEF Exists, Inv, RowsSound
    <3>2. c \in decisions => c \in auditLog \/ outage \/ project = "deleted"
      BY <1>0, OwesNothing
    <3>3. (calls'[c] = call) => CallSound(c)'
      BY <2>2, <2>8, <3>2 DEF CallSound
    <3> QED
      BY <2>1, <2>2, <2>7, <2>8, <3>1, <3>3, CallsStep DEF Inv
  <2> QED
    BY <2>11, <2>12 DEF Inv
<1>2. CASE ~(project # "deleted" /\ NumberFree(calls[c].number, NoId))
  <2>1. Refuse(c) /\ UNCHANGED <<versions, usedIds>>
    BY <1>2 DEF CommitCreate
  <2>2. UNCHANGED <<rows, auditLog, history>>
    BY <1>0, <2>1 DEF rows
  <2> QED
    BY <1>0, <2>1, <2>2, OwesNothing, RefuseInv
<1> QED
  BY <1>1, <1>2

\* The steps after the commit, and those that write nothing.
LEMMA AfterwardsInv ==
  ASSUME Inv, NEW c \in Calls,
         \/ Refresh(c) \/ RefreshFails(c) \/ AnnounceDownload(c)
         \/ RecordModeration(c) \/ NotifyAuthor(c)
         \/ NumberTaken(c) \/ VersionGone(c)
         \/ \E file \in Files, verdict \in Verdicts : ScanFile(c, file, verdict)
  PROVE Inv'
<1>0. CallSound(c) /\ calls[c] \in Call
  BY DEF Inv, CallsSound
<1>1. ASSUME NEW stage \in {"refreshed", "audited"}, NEW call,
             call = [calls[c] EXCEPT !.stage = stage]
      PROVE call \in Call /\ call.stage = stage
  BY <1>0, <1>1 DEF Call, Stages
<1>2. Blank("done") \in Call /\ Blank("done").stage = "done"
        /\ Blank("refused") \in Call /\ Blank("refused").stage = "refused"
  BY BlankFacts DEF Stages
<1>3. ASSUME NEW call \in Call, calls' = [calls EXCEPT ![c] = call],
             UNCHANGED <<rows, decisions, ruling, rescanned>>,
             auditLog \subseteq auditLog', auditLog' \in SUBSET Calls,
             outage' \in BOOLEAN, outage => outage',
             call.stage \in {"refreshed", "audited", "done", "refused"},
             c \in decisions => \/ c \in auditLog' \/ outage' \/ project = "deleted"
                               \/ call.stage = "refreshed"
      PROVE Inv'
  <2>1. UNCHANGED <<project, downloads, versions, usedIds, events, ruling, decisions,
                    rescanned>>
    BY <1>3 DEF rows
  <2>2. RowsSound'
    BY <1>3, <2>1 DEF Inv, RowsSound, EventsOf
  <2>3. CallsSound'
    <3>1. \A id \in usedIds : Exists(id)' =>
            Exists(id) /\ (versions[id].published => versions'[id].published)
      BY <2>1 DEF Exists
    <3>2. (calls'[c] = call) => CallSound(c)'
      BY <1>3, <2>1 DEF CallSound
    <3> QED
      BY <1>3, <2>1, <3>1, <3>2, CallsStep DEF Inv
  <2> QED
    BY <2>2, <2>3 DEF Inv
<1>4. auditLog \in SUBSET Calls /\ outage \in BOOLEAN
  BY DEF Inv, RowsSound
<1>5. CASE Refresh(c)
  <2>1. calls[c].stage = "committed" /\ UNCHANGED <<rows, auditLog, history>>
    BY <1>5 DEF Refresh
  <2>2. CASE ~RefreshWorks(project)
    BY <1>5, <2>1, <2>2, RefuseInv DEF Refresh, RefreshWorks
  <2>3. CASE RefreshWorks(project) /\ calls[c].op = "moderate"
    <3>1. calls' = [calls EXCEPT ![c] = [calls[c] EXCEPT !.stage = "refreshed"]]
      BY <1>5, <2>3 DEF Refresh, Become
    <3> QED
      BY <1>1, <1>3, <1>4, <2>1, <3>1 DEF history
  <2>4. CASE RefreshWorks(project) /\ calls[c].op # "moderate"
    <3>1. calls' = [calls EXCEPT ![c] = Blank("done")]
      BY <1>5, <2>4 DEF Refresh, Done, Become
    <3>2. c \in decisions => c \in auditLog \/ outage \/ project = "deleted"
      BY <1>0, <2>1, <2>4 DEF CallSound
    <3> QED
      BY <1>2, <1>3, <1>4, <2>1, <3>1, <3>2 DEF history
  <2> QED
    BY <2>2, <2>3, <2>4
<1>6. CASE RefreshFails(c)
  <2>1. /\ outage' = TRUE /\ calls' = [calls EXCEPT ![c] = Blank("refused")]
        /\ UNCHANGED <<rows, auditLog, ruling, decisions, rescanned>>
    BY <1>6 DEF RefreshFails, Refuse, Become
  <2> QED
    BY <1>2, <1>3, <1>4, <2>1
<1>7. CASE RecordModeration(c)
  <2>1. /\ auditLog' = auditLog \cup {c} /\ UNCHANGED <<rows, history>>
        /\ calls' = [calls EXCEPT ![c] = [calls[c] EXCEPT !.stage = "audited"]]
    BY <1>7 DEF RecordModeration, Become
  <2> QED
    BY <1>1, <1>3, <1>4, <2>1 DEF history
<1>8. CASE NotifyAuthor(c)
  <2>1. /\ calls[c].stage = "audited" /\ UNCHANGED <<rows, auditLog, history>>
        /\ calls' = [calls EXCEPT ![c] = Blank("done")]
    BY <1>8 DEF NotifyAuthor, Done, Become
  <2>2. c \in decisions => c \in auditLog \/ outage \/ project = "deleted"
    BY <1>0, <2>1 DEF CallSound
  <2> QED
    BY <1>2, <1>3, <1>4, <2>1, <2>2 DEF history
<1>9. CASE NumberTaken(c) \/ VersionGone(c)
  <2>1. calls[c].stage = "found" /\ Refuse(c) /\ UNCHANGED <<rows, auditLog, history>>
    BY <1>9 DEF NumberTaken, VersionGone
  <2> QED
    BY <2>1, OwesNothing, RefuseInv
<1>10. ASSUME NEW file \in Files, NEW verdict \in Verdicts, ScanFile(c, file, verdict)
       PROVE Inv'
  <2>1. /\ calls[c].stage = "found" /\ calls[c].op = "create"
        /\ UNCHANGED <<rows, auditLog, history>>
    BY <1>10 DEF ScanFile
  <2>2. CASE ScanAccepted(verdict)
    <3> DEFINE scans == [calls[c].scans EXCEPT ![file] = verdict]
               todo == calls[c].todo \ {file}
               call == [calls[c] EXCEPT !.todo = todo, !.scans = scans]
    <3>1. calls' = [calls EXCEPT ![c] = call]
      BY <1>10, <2>2 DEF ScanFile, Become
    <3>2. /\ scans \in Scans /\ todo \in SUBSET Files
          /\ calls[c].number \in Numbers
          /\ \A f \in Files : scans[f] \in {"absent", "CLEAN"}
      BY <1>0, <2>1, <2>2 DEF CallSound, Call, Scans, ScanAccepted
    <3> HIDE DEF scans, todo
    <3>3. /\ call \in Call /\ call.stage = "found" /\ call.op = "create"
          /\ call.number = calls[c].number /\ call.scans = scans
      BY <1>0, <2>1, <3>2 DEF Call
    <3>4. UNCHANGED <<project, versions, usedIds, events, auditLog, decisions, outage>>
      BY <2>1 DEF rows, history
    <3> HIDE DEF call
    <3>5. (calls'[c] = call) => CallSound(c)'
      BY <1>0, <2>1, <3>2, <3>3, <3>4 DEF CallSound
    <3> QED
      BY <2>1, <3>1, <3>3, <3>5, QuietStep
  <2>3. CASE ~ScanAccepted(verdict)
    BY <1>10, <2>1, <2>3, OwesNothing, RefuseInv DEF ScanFile
  <2> QED
    BY <2>2, <2>3
<1>11. CASE AnnounceDownload(c)
  <2>1. /\ calls[c].stage = "committed" /\ calls[c].op = "download"
        /\ UNCHANGED <<rows, auditLog, history>>
    BY <1>11 DEF AnnounceDownload
  <2>2. \E stage \in {"done", "refused"} : calls' = [calls EXCEPT ![c] = Blank(stage)]
    BY <1>11 DEF AnnounceDownload, Done, Refuse, Become
  <2>3. c \in decisions => c \in auditLog \/ outage \/ project = "deleted"
    BY <1>0, <2>1 DEF CallSound
  <2> QED
    BY <1>2, <1>3, <1>4, <2>1, <2>2, <2>3 DEF history
<1> QED
  BY <1>5, <1>6, <1>7, <1>8, <1>9, <1>10, <1>11

\* What happens to the project.
LEMMA ProjectInv ==
  ASSUME Inv, DeleteProject \/ \E status \in Statuses : ModerateProject(status)
  PROVE Inv'
<1>1. /\ UNCHANGED <<usedIds, auditLog, calls, ruling, decisions, rescanned, outage>>
      /\ project # "deleted"
  BY DEF DeleteProject, ModerateProject, history
<1>2. CASE \E status \in Statuses : ModerateProject(status)
  <2>1. project' \in Statuses /\ UNCHANGED <<downloads, versions, events>>
    BY <1>2 DEF ModerateProject
  <2>2. RowsSound'
    BY <1>1, <2>1 DEF Inv, RowsSound, EventsOf
  <2>3. CallsSound'
    BY <1>1, <2>1 DEF Inv, CallsSound, CallSound, Exists
  <2> QED
    BY <2>2, <2>3 DEF Inv
<1>3. CASE DeleteProject
  <2>1. /\ project' = "deleted" /\ downloads' = 0 /\ events' = {}
        /\ versions' = [id \in VersionIds |-> NoVersion]
    BY <1>3 DEF DeleteProject
  <2>2. \A id \in VersionIds : EventsOf(id)' = {}
    BY <2>1 DEF EventsOf
  <2>3. \A id \in VersionIds :
          RowSound(id, versions'[id], ruling'[id], rescanned', EventsOf(id)')
    BY <2>1, <2>2, NoVersionFacts DEF RowSound
  <2>4. RowsSound'
    BY <1>1, <2>1, <2>2, <2>3, NoVersionFacts, FS_EmptySet DEF Inv, RowsSound
  <2>5. \A id \in usedIds : ~Exists(id)'
    BY <2>1 DEF Exists, Inv, RowsSound
  <2>6. CallsSound'
    BY <1>1, <2>1, <2>5 DEF Inv, CallsSound, CallSound
  <2> QED
    BY <2>4, <2>6 DEF Inv
<1> QED
  BY <1>2, <1>3

\* Every step, and stuttering.
LEMMA NextInv == Inv /\ [Next]_vars => Inv'
<1> SUFFICES ASSUME Inv, [Next]_vars PROVE Inv'
  OBVIOUS
<1>1. ASSUME NEW c \in Calls, Begin(c) \/ Proceed(c) PROVE Inv'
  BY <1>1, BeginInv, CreateInv, DecisionInv, PlainWritesInv, CountInv, AfterwardsInv
     DEF Proceed
<1>2. CASE UNCHANGED vars
  <2>1. UNCHANGED <<project, downloads, versions, usedIds, events, auditLog, calls,
                    ruling, decisions, rescanned, outage>>
    BY <1>2 DEF vars, rows, history
  <2>2. RowsSound'
    BY <2>1 DEF Inv, RowsSound, EventsOf
  <2>3. CallsSound'
    BY <2>1 DEF Inv, CallsSound, CallSound, Exists
  <2> QED
    BY <2>2, <2>3 DEF Inv
<1> QED
  BY <1>1, <1>2, ProjectInv DEF Next

\* The invariant holds throughout.
LEMMA Invariance == Spec => []Inv
  BY InitInv, NextInv, PTL DEF Spec

--------------------------------------------------------------------------
(* The theorems.                                                          *)

\* The rows, the logs and the requests keep the shape of the schema.
THEOREM TypeCorrect == Spec => []TypeOK
<1>1. Inv => TypeOK
  <2> SUFFICES ASSUME Inv PROVE TypeOK
    OBVIOUS
  <2>1. downloads \in Nat
    BY FS_CardinalityType DEF Inv, RowsSound
  <2> QED
    BY <2>1 DEF Inv, RowsSound, CallsSound, TypeOK
<1> QED
  BY <1>1, Invariance, PTL

\* Whatever decisions follow each other, a version waits for a review exactly
\* while a status is requested for it, and a public one has a date.
THEOREM ReviewsCoherent == Spec => []VersionReviewCoherent
<1>1. Inv => VersionReviewCoherent
  BY DEF Inv, RowsSound, RowSound, VersionReviewCoherent, Exists
<1> QED
  BY <1>1, Invariance, PTL

\* The status of a version is the one its last committed decision gave it
\* (moderateVersion against updateVersion, scanVersionFile and downloads that
\* looked the version up before it).
THEOREM LastRulingStands == Spec => []RulingStands
<1>1. Inv => RulingStands
  BY DEF Inv, RowsSound, RowSound, RulingStands, Exists
<1> QED
  BY <1>1, Invariance, PTL

\* createVersion lets no file through that its scan did not find clean.
THEOREM FilesVetted == Spec => []VettedOnArrival
<1>1. Inv => VettedOnArrival
  BY DEF Inv, RowsSound, RowSound, VettedOnArrival
<1> QED
  BY <1>1, Invariance, PTL

\* Whatever prepareFileDownload has counted was published at some time.
THEOREM DownloadsWerePublic == Spec => []DownloadedWasPublished
<1>1. Inv => DownloadedWasPublished
  <2> SUFFICES ASSUME Inv PROVE DownloadedWasPublished
    OBVIOUS
  <2>1. ASSUME NEW id \in VersionIds, versions[id].downloads > 0
        PROVE versions[id].published
    <3>1. versions[id] # NoVersion
      BY <2>1, NoVersionFacts
    <3>2. RowSound(id, versions[id], ruling[id], rescanned, EventsOf(id))
      BY DEF Inv, RowsSound
    <3>3. EventsOf(id) # {}
      BY <2>1, <3>1, <3>2, FS_EmptySet DEF RowSound
    <3> QED
      BY <3>1, <3>2, <3>3 DEF RowSound
  <2>2. ASSUME NEW e \in events, Exists(e.version)
        PROVE versions[e.version].published
    <3>1. e.version \in VersionIds /\ e \in EventsOf(e.version)
      BY DEF Inv, RowsSound, Event, EventsOf
    <3>2. RowSound(e.version, versions[e.version], ruling[e.version], rescanned,
                   EventsOf(e.version))
      BY <3>1 DEF Inv, RowsSound
    <3> QED
      BY <2>2, <3>1, <3>2 DEF RowSound, Exists
  <2> QED
    BY <2>1, <2>2 DEF DownloadedWasPublished
<1> QED
  BY <1>1, Invariance, PTL

\* However many downloads run at once, the counters of the project and of its
\* versions are the numbers of their download events.
THEOREM CountersExact == Spec => []CountersAgree
<1>1. Inv => CountersAgree
  BY DEF Inv, RowsSound, RowSound, CountersAgree, Exists, EventsOf
<1> QED
  BY <1>1, Invariance, PTL

\* Unless cache or index failed or the project went, every decision ends up on
\* the audit log, although it is written last.
THEOREM DecisionsAudited == Spec => []DecisionsRecorded
<1>1. Inv => DecisionsRecorded
  BY DEF Inv, RowsSound, CallsSound, CallSound, DecisionsRecorded, Quiet
<1> QED
  BY <1>1, Invariance, PTL
==========================================================================
