---------------------- MODULE ProjectCatalogProofs -----------------------
(* Proofs about ProjectCatalog, for any set of requests and identifiers.  *)
(* The inductive invariant is Inv.  It adds to the stated properties what *)
(* a request in flight may still hold: whatever it has read as approved   *)
(* was committed as approved, however long ago.                           *)
(*                                                                        *)
(* The last part is the safety half of CacheSettles: every step of a      *)
(* request brings it nearer to its end, and between requests the cached   *)
(* page can only expire.                                                  *)
EXTENDS ProjectCatalog, TLAPS

\* What the three stores hold.
StoresSound ==
  /\ row \in Snapshot
  /\ usedIds \in SUBSET ProjectIds
  /\ docs \in [ProjectIds -> Snapshot]
  /\ cache \in Snapshot
  /\ published \in SUBSET Project
  /\ decided \in SUBSET ProjectIds
  /\ overlapped \in BOOLEAN
  /\ Visible(row) => row \in published
  /\ cache # NoProject => cache \in published
  /\ \A id \in ProjectIds : docs[id] # NoProject => docs[id] \in published
  /\ ReviewCoherent
  /\ PublicByDecision

\* What a request holds, when "known" are the versions published so far.
CallSound(call, known) ==
  /\ call \in Call
  /\ Visible(call.seen) => call.seen \in known
  /\ call.stage = "read" => Visible(call.seen)
  /\ call.stage \in {"found", "touched"} /\ call.op # "create"
       => call.seen # NoProject
  /\ call.stage = "touched" => call.op = "version"
  /\ call.stage \in {"missed", "read"} => call.op = "view"
  /\ call.answer \subseteq known

CallsSound ==
  /\ calls \in [Calls -> Call]
  /\ \A c \in Calls : CallSound(calls[c], published)

Inv == StoresSound /\ CallsSound

--------------------------------------------------------------------------
(* Lemmas about the data.                                                 *)

\* The placeholder is not a project, and a real snapshot is one.
LEMMA NoProjectFacts ==
  /\ NoProject \notin Project
  /\ NoProject.id = NoId
  /\ ~Visible(NoProject)
  /\ NoProject \in Snapshot
  /\ \A s \in Snapshot : s # NoProject => s \in Project /\ s.id \in ProjectIds
  /\ \A s \in Snapshot : s.id # NoId => s \in Project
  /\ \A s \in Snapshot : Visible(s) => s \in Project
  /\ \A s \in Snapshot : s.rev \in Nat
<1>1. NoProject.id = NoId /\ ~Visible(NoProject) /\ NoProject \in Snapshot
  BY DEF NoProject, Visible, Snapshot
<1>2. \A s \in Project : s.id \in ProjectIds /\ s.rev \in Nat
  BY DEF Project
<1>3. NoProject.rev \in Nat
  BY DEF NoProject
<1> QED
  BY <1>1, <1>2, <1>3, NoIdAssumption DEF Snapshot

\* A new project waits for its review.
LEMMA NewProjectFacts ==
  ASSUME NEW id \in ProjectIds
  PROVE /\ NewProject(id) \in Project
        /\ ~Visible(NewProject(id))
        /\ NewProject(id).status = "PENDING_REVIEW"
        /\ NewProject(id).asked = "APPROVED"
BY DEF NewProject, Project, Statuses, Visible

\* An edit leaves the identity and the review of a project alone.
LEMMA EditedFacts ==
  ASSUME NEW project \in Project
  PROVE /\ Edited(project) \in Project
        /\ Edited(project).id = project.id
        /\ Edited(project).status = project.status
        /\ Edited(project).asked = project.asked
BY DEF Edited, Project

\* A decision settles the review.
LEMMA ModeratedFacts ==
  ASSUME NEW project \in Project, NEW action \in ModerationActions
  PROVE /\ Moderated(project, action) \in Project
        /\ Moderated(project, action).id = project.id
        /\ Moderated(project, action).status = DecidedStatus(action)
        /\ Moderated(project, action).status # "PENDING_REVIEW"
        /\ Moderated(project, action).asked = "null"
<1>1. DecidedStatus(action) \in Statuses /\ DecidedStatus(action) # "PENDING_REVIEW"
  BY DEF DecidedStatus, Statuses
<1>2. Edited(project) \in Project /\ Edited(project).id = project.id
  BY EditedFacts
<1> QED
  BY <1>1, <1>2 DEF Moderated, Project

\* One request moves on; what the others hold stays true as long as published
\* versions stay published.
LEMMA CallsStep ==
  ASSUME CallsSound, NEW c \in Calls, NEW call,
         CallSound(call, published'), published \subseteq published',
         calls' = [calls EXCEPT ![c] = call]
  PROVE CallsSound'
<1>1. call \in Call
  BY DEF CallSound
<1>2. calls' \in [Calls -> Call] /\ calls'[c] = call
  BY <1>1 DEF CallsSound
<1>3. ASSUME NEW d \in Calls PROVE CallSound(calls'[d], published')
  <2>1. CASE d = c
    BY <1>2, <2>1
  <2>2. CASE d # c
    <3>1. calls'[d] = calls[d]
      BY <2>2 DEF CallsSound
    <3>2. CallSound(calls[d], published)
      BY DEF CallsSound
    <3> QED
      BY <3>1, <3>2 DEF CallSound
  <2> QED
    BY <2>1, <2>2
<1> QED
  BY <1>2, <1>3 DEF CallsSound

\* A finished request holds its answer only.
LEMMA AnsweredFacts ==
  ASSUME NEW stage \in {"idle", "done", "refused"}, NEW known,
         NEW projects \in SUBSET Project, projects \subseteq known
  PROVE /\ CallSound(Blank(stage), known)
        /\ CallSound([Blank(stage) EXCEPT !.answer = projects], known)
<1>1. /\ Blank(stage) \in Call
      /\ [Blank(stage) EXCEPT !.answer = projects] \in Call
  BY NoProjectFacts DEF Blank, Call, Stages, Reads, Writes, ModerationActions
<1>2. ~Visible(Blank(stage).seen) /\ Blank(stage).answer = {}
      /\ Blank(stage).stage = stage /\ stage \notin {"missed", "read", "found", "touched"}
  BY NoProjectFacts DEF Blank
<1> DEFINE answered == [Blank(stage) EXCEPT !.answer = projects]
<1>3. answered.seen = NoProject /\ answered.answer = projects /\ answered.stage = stage
  BY DEF Blank
<1> QED
  BY <1>1, <1>2, <1>3, NoProjectFacts DEF CallSound

\* A blank request holds nothing that could be unsound.
LEMMA BlankFacts ==
  ASSUME NEW stage \in {"idle", "done", "refused"}, NEW known
  PROVE CallSound(Blank(stage), known)
<1>1. {} \in SUBSET Project /\ {} \subseteq known
  OBVIOUS
<1> QED
  BY <1>1, AnsweredFacts

--------------------------------------------------------------------------
(* Steps.                                                                 *)

\* A step of one request that writes to no store.
LEMMA QuietStep ==
  ASSUME Inv, NEW c \in Calls, NEW call, CallSound(call, published),
         calls' = [calls EXCEPT ![c] = call],
         UNCHANGED <<Stores, docs, cache>>
  PROVE Inv'
<1>1. published' = published
  BY DEF Stores
<1>2. CallsSound'
  BY <1>1, CallsStep DEF Inv
<1>3. StoresSound'
  BY DEF Inv, StoresSound, Stores, ReviewCoherent, PublicByDecision
<1> QED
  BY <1>2, <1>3 DEF Inv

\* A request that goes on with what it has, or gives up.
LEMMA AdvanceFacts ==
  ASSUME Inv, NEW c \in Calls, NEW stage \in Stages,
         stage \notin {"missed", "read", "found", "touched"},
         Advance(c, stage)
  PROVE \E call : CallSound(call, published) /\ calls' = [calls EXCEPT ![c] = call]
<1>1. CallSound(calls[c], published)
  BY DEF Inv, CallsSound
<1>2. CASE stage = "done"
  <2>1. CallSound(Blank("done"), published)
    BY BlankFacts
  <2>2. calls' = [calls EXCEPT ![c] = Blank("done")]
    BY <1>2 DEF Advance
  <2> QED
    BY <2>1, <2>2
<1>3. CASE stage # "done"
  <2> DEFINE call == [calls[c] EXCEPT !.stage = stage]
  <2>1. calls' = [calls EXCEPT ![c] = call]
    BY <1>3 DEF Advance
  <2>2. call \in Call /\ call.stage = stage /\ call.seen = calls[c].seen
          /\ call.answer = calls[c].answer
    BY <1>1 DEF CallSound, Call
  <2>3. CallSound(call, published)
    BY <1>1, <2>2 DEF CallSound
  <2> QED
    BY <2>1, <2>3
<1> QED
  BY <1>2, <1>3

\* A refused request holds nothing.
LEMMA RefuseFacts ==
  ASSUME NEW c \in Calls, Refuse(c), NEW known
  PROVE \E call : CallSound(call, known) /\ calls' = [calls EXCEPT ![c] = call]
<1>1. CallSound(Blank("refused"), known)
  BY BlankFacts
<1> QED
  BY <1>1 DEF Refuse

\* A request that answers with published versions is sound.
LEMMA AnswerFacts ==
  ASSUME Inv, NEW c \in Calls, NEW projects \in SUBSET published,
         calls' = [calls EXCEPT ![c] = [Blank("done") EXCEPT !.answer = projects]]
  PROVE \E call : CallSound(call, published) /\ calls' = [calls EXCEPT ![c] = call]
<1>1. projects \in SUBSET Project
  BY DEF Inv, StoresSound
<1>2. CallSound([Blank("done") EXCEPT !.answer = projects], published)
  BY <1>1, AnsweredFacts
<1> QED
  BY <1>2

\* A commit: the new row is sound, and the request keeps what it returned.
LEMMA CommitStep ==
  ASSUME Inv, NEW c \in Calls, NEW project \in Snapshot,
         NEW stage \in {"committed", "touched"},
         calls[c].stage = "found",
         stage = "touched" => project # NoProject /\ calls[c].op = "version",
         Commit(c, project, stage),
         project # NoProject =>
           (project.status = "PENDING_REVIEW" <=> project.asked = "APPROVED"),
         decided \subseteq decided', decided' \in SUBSET ProjectIds,
         usedIds' \in SUBSET ProjectIds,
         Visible(project) => project.id \in decided'
  PROVE Inv'
<1> DEFINE kept == IF project = NoProject THEN calls[c].seen ELSE project
<1> DEFINE call == [calls[c] EXCEPT !.stage = stage, !.seen = kept]
<1>1. CallSound(calls[c], published)
  BY DEF Inv, CallsSound
<1>2. /\ row' = project
      /\ published' = published \cup (IF Visible(project) THEN {project} ELSE {})
      /\ overlapped' \in BOOLEAN
      /\ docs' = docs /\ cache' = cache
  BY DEF Commit, Inv, StoresSound
<1>3. calls' = [calls EXCEPT ![c] = call]
  BY DEF Commit
<1>4. published' \in SUBSET Project /\ published \subseteq published'
  BY <1>2, NoProjectFacts DEF Inv, StoresSound
<1>5. /\ calls[c] \in Call /\ kept \in Snapshot
      /\ Visible(kept) => kept \in published'
      /\ stage = "touched" => kept # NoProject
  BY <1>1, <1>2 DEF CallSound, Call
<1>6. CallSound(call, published')
  <2>1. call \in Call
    BY <1>5 DEF Call, Stages
  <2>2. /\ call.stage = stage /\ call.op = calls[c].op
        /\ call.seen = kept /\ call.answer = calls[c].answer
    BY <1>5 DEF Call
  <2> HIDE DEF call, kept
  <2> QED
    BY <1>1, <1>4, <1>5, <2>1, <2>2 DEF CallSound
<1>7. CallsSound'
  <2> HIDE DEF call
  <2> QED
    BY <1>3, <1>4, <1>6, CallsStep DEF Inv
<1>8. StoresSound'
  <2>1. ReviewCoherent'
    BY <1>2 DEF ReviewCoherent
  <2>2. PublicByDecision'
    BY <1>2 DEF PublicByDecision, Inv, StoresSound
  <2>3. /\ Visible(row') => row' \in published'
        /\ cache' # NoProject => cache' \in published'
        /\ \A id \in ProjectIds : docs'[id] # NoProject => docs'[id] \in published'
    BY <1>2 DEF Inv, StoresSound
  <2> QED
    BY <1>2, <1>4, <2>1, <2>2, <2>3 DEF Inv, StoresSound, Visible
<1> QED
  BY <1>7, <1>8 DEF Inv

--------------------------------------------------------------------------
(* Every step preserves the invariant.                                    *)

\* The seeded projects are sound.
LEMMA InitInv == Init => Inv
<1> SUFFICES ASSUME Init PROVE Inv
  OBVIOUS
<1>1. \A c \in Calls : CallSound(calls[c], published) /\ calls[c] \in Call
  BY BlankFacts DEF Init, CallSound
<1>2. calls \in [Calls -> Call]
  BY <1>1 DEF Init
<1>3. ASSUME NEW project \in Snapshot, Established(project), cache = NoProject,
             overlapped = FALSE,
             project # NoProject =>
               (project.status = "PENDING_REVIEW" <=> project.asked = "APPROVED")
      PROVE StoresSound
  <2>1. /\ row = project /\ usedIds \in SUBSET ProjectIds
        /\ published \in SUBSET Project /\ decided \in SUBSET ProjectIds
        /\ Visible(row) => row \in published
    BY <1>3, NoProjectFacts DEF Established
  <2>2. /\ docs \in [ProjectIds -> Snapshot]
        /\ \A id \in ProjectIds : docs[id] # NoProject => docs[id] \in published
    BY <1>3, NoProjectFacts DEF Established
  <2>3. PublicByDecision
    BY <1>3 DEF Established, PublicByDecision
  <2> QED
    BY <1>3, <2>1, <2>2, <2>3, NoProjectFacts DEF StoresSound, ReviewCoherent
<1>4. StoresSound
  <2>1. CASE Established(NoProject)
    BY <1>3, <2>1, NoProjectFacts DEF Init
  <2>2. ASSUME NEW id \in ProjectIds, NEW status \in Statuses,
               Established(Settled(id, status))
        PROVE StoresSound
    <3>1. /\ Settled(id, status) \in Project
          /\ Settled(id, status).status = "PENDING_REVIEW"
               <=> Settled(id, status).asked = "APPROVED"
      BY DEF Settled, Project
    <3> QED
      BY <1>3, <2>2, <3>1 DEF Init, Snapshot
  <2> QED
    BY <2>1, <2>2 DEF Init
<1> QED
  BY <1>1, <1>2, <1>4 DEF Inv, CallsSound

\* A request that begins has read the row, the cache or the index.
LEMMA BeginInv ==
  ASSUME Inv, NEW c \in Calls, Begin(c)
  PROVE Inv'
<1>0. calls[c] \in Call /\ CallSound(calls[c], published)
  BY DEF Inv, CallsSound
<1>1. ASSUME NEW op \in Writes, NEW action \in ModerationActions,
             FindProject(c, op, action)
      PROVE Inv'
  <2>1. CASE (op = "create") = (row = NoProject)
    <3> DEFINE call == [calls[c] EXCEPT !.stage = "found", !.op = op,
                                        !.action = action, !.seen = row]
    <3>1. calls' = [calls EXCEPT ![c] = call] /\ UNCHANGED <<Stores, docs, cache>>
      BY <1>1, <2>1 DEF FindProject
    <3>2. /\ call \in Call /\ call.stage = "found" /\ call.op = op
          /\ call.seen = row /\ call.answer = calls[c].answer
      BY <1>0 DEF Inv, StoresSound, Call, Stages
    <3>3. CallSound(call, published)
      <4> HIDE DEF call
      <4> QED
        BY <1>0, <2>1, <3>2 DEF CallSound, Inv, StoresSound
    <3> HIDE DEF call
    <3> QED
      BY <3>1, <3>3, QuietStep
  <2>2. CASE ~((op = "create") = (row = NoProject))
    <3>1. Refuse(c) /\ UNCHANGED <<Stores, docs, cache>>
      BY <1>1, <2>2 DEF FindProject
    <3> QED
      BY <3>1, RefuseFacts, QuietStep
  <2> QED
    BY <2>1, <2>2
<1>2. CASE ReadCache(c)
  <2>1. CASE Visible(cache)
    <3>1. {cache} \in SUBSET published
      BY <2>1, NoProjectFacts DEF Inv, StoresSound
    <3>2. /\ calls' = [calls EXCEPT ![c] = [Blank("done") EXCEPT !.answer = {cache}]]
          /\ UNCHANGED <<Stores, docs, cache>>
      BY <1>2, <2>1 DEF ReadCache
    <3> QED
      BY <3>1, <3>2, AnswerFacts, QuietStep
  <2>2. CASE ~Visible(cache)
    <3> DEFINE call == [calls[c] EXCEPT !.op = "view", !.stage = "missed"]
    <3>1. calls' = [calls EXCEPT ![c] = call] /\ UNCHANGED <<Stores, docs, cache>>
      BY <1>2, <2>2 DEF ReadCache
    <3>2. /\ call \in Call /\ call.stage = "missed" /\ call.op = "view"
          /\ call.seen = calls[c].seen /\ call.answer = calls[c].answer
      BY <1>0 DEF Call, Stages, Reads
    <3>3. CallSound(call, published)
      <4> HIDE DEF call
      <4> QED
        BY <1>0, <3>2 DEF CallSound
    <3> HIDE DEF call
    <3> QED
      BY <3>1, <3>3, QuietStep
  <2> QED
    BY <2>1, <2>2
<1>3. CASE QueryIndex(c)
  <2> DEFINE call == [calls[c] EXCEPT !.op = "search", !.stage = "queried",
                        !.hits = {id \in ProjectIds : docs[id] # NoProject}]
  <2>1. calls' = [calls EXCEPT ![c] = call] /\ UNCHANGED <<Stores, docs, cache>>
    BY <1>3 DEF QueryIndex
  <2>2. /\ call \in Call /\ call.stage = "queried"
        /\ call.seen = calls[c].seen /\ call.answer = calls[c].answer
    BY <1>0 DEF Call, Stages, Reads
  <2>3. CallSound(call, published)
    <3> HIDE DEF call
    <3> QED
      BY <1>0, <2>2 DEF CallSound
  <2> HIDE DEF call
  <2> QED
    BY <2>1, <2>3, QuietStep
<1> QED
  BY <1>1, <1>2, <1>3 DEF Begin

\* The step of a request that changes the row it has found.
LEMMA ChangeInv ==
  ASSUME Inv, NEW c \in Calls, NEW op \in Writes \ {"create"}, Changes(c, op)
  PROVE row \in Project /\ row.id \in ProjectIds /\ usedIds' = usedIds
        /\ calls[c].stage = "found" /\ calls[c] \in Call
<1>1. CallSound(calls[c], published)
  BY DEF Inv, CallsSound
<1>2. calls[c].seen # NoProject /\ calls[c].seen \in Snapshot /\ calls[c] \in Call
  BY <1>1 DEF CallSound, Changes, Call
<1>3. row.id = calls[c].seen.id /\ row.id # NoId
  BY <1>2, NoProjectFacts, NoIdAssumption DEF Changes
<1>4. row \in Project /\ row.id \in ProjectIds
  BY <1>3, NoProjectFacts DEF Inv, StoresSound
<1> QED
  BY <1>2, <1>4 DEF Changes

\* Each step of a request in flight preserves the invariant.
LEMMA ProceedInv ==
  ASSUME Inv, NEW c \in Calls, Proceed(c)
  PROVE Inv'
<1>0. calls[c] \in Call /\ CallSound(calls[c], published)
  BY DEF Inv, CallsSound
<1>1. CASE CreateProject(c)
  <2>1. ASSUME NEW id \in ProjectIds \ usedIds, Commit(c, NewProject(id), "committed"),
               usedIds' = usedIds \cup {id}
        PROVE Inv'
    <3>1. decided' = decided /\ calls[c].stage = "found"
      BY <1>1 DEF CreateProject
    <3>2. usedIds' \in SUBSET ProjectIds /\ decided' \in SUBSET ProjectIds
      BY <2>1, <3>1 DEF Inv, StoresSound
    <3>3. NewProject(id) \in Snapshot /\ ~Visible(NewProject(id))
      BY NewProjectFacts DEF Snapshot
    <3> QED
      BY <2>1, <3>1, <3>2, <3>3, NewProjectFacts, CommitStep
  <2>2. CASE Refuse(c) /\ UNCHANGED <<row, usedIds, docs, cache, published, overlapped>>
    <3>1. UNCHANGED <<Stores, docs, cache>>
      BY <1>1, <2>2 DEF CreateProject, Stores
    <3> QED
      BY <2>2, <3>1, RefuseFacts, QuietStep
  <2> QED
    BY <1>1, <2>1, <2>2 DEF CreateProject
<1>2. ASSUME NEW op \in {"update", "version"}, NEW stage \in {"committed", "touched"},
             stage = "touched" => op = "version",
             Changes(c, op), Commit(c, Edited(row), stage), UNCHANGED decided
      PROVE Inv'
  <2>1. row \in Project /\ usedIds' = usedIds
          /\ calls[c].stage = "found" /\ calls[c].op = op
    BY <1>2, ChangeInv DEF Writes, Changes
  <2>2. Edited(row) \in Snapshot /\ Edited(row) # NoProject /\ row # NoProject
    BY <2>1, EditedFacts, NoProjectFacts DEF Snapshot
  <2>3. Edited(row).status = "PENDING_REVIEW" <=> Edited(row).asked = "APPROVED"
    BY <2>1, <2>2, EditedFacts DEF Inv, StoresSound, ReviewCoherent
  <2>4. Visible(Edited(row)) => Edited(row).id \in decided'
    BY <1>2, <2>1, EditedFacts DEF Inv, StoresSound, PublicByDecision, Visible
  <2>5. decided \subseteq decided' /\ decided' \in SUBSET ProjectIds
          /\ usedIds' \in SUBSET ProjectIds
    BY <1>2, <2>1 DEF Inv, StoresSound
  <2> QED
    BY <1>2, <2>1, <2>2, <2>3, <2>4, <2>5, CommitStep
<1>3. CASE ModerateProject(c)
  <2> DEFINE action == calls[c].action
             after == Moderated(row, action)
  <2>1. row \in Project /\ row.id \in ProjectIds /\ usedIds' = usedIds
          /\ calls[c].stage = "found"
    BY <1>3, ChangeInv DEF ModerateProject, Writes
  <2>2. action \in ModerationActions
    BY <1>0 DEF Call
  <2>3. /\ after \in Project /\ after.id = row.id /\ after.status = DecidedStatus(action)
        /\ after.status # "PENDING_REVIEW" /\ after.asked = "null"
    BY <2>1, <2>2, ModeratedFacts
  <2>4. decided' = IF DecidedStatus(action) = "APPROVED"
                   THEN decided \cup {row.id} ELSE decided
    BY <1>3 DEF ModerateProject
  <2>5. Commit(c, after, "committed")
    BY <1>3 DEF ModerateProject
  <2> HIDE DEF action, after
  <2>6. decided \subseteq decided' /\ decided' \in SUBSET ProjectIds
          /\ usedIds' \in SUBSET ProjectIds
    BY <2>1, <2>4 DEF Inv, StoresSound
  <2>7. Visible(after) => after.id \in decided'
    BY <2>3, <2>4 DEF Visible
  <2>8. after \in Snapshot
    BY <2>3 DEF Snapshot
  <2> QED
    BY <2>1, <2>3, <2>5, <2>6, <2>7, <2>8, CommitStep
<1>4. CASE DeleteProject(c)
  <2>1. usedIds' = usedIds /\ calls[c].stage = "found"
    BY <1>4, ChangeInv DEF DeleteProject, Writes
  <2>2. Commit(c, NoProject, "committed") /\ decided' = decided
    BY <1>4 DEF DeleteProject
  <2>3. usedIds' \in SUBSET ProjectIds /\ decided' \in SUBSET ProjectIds
    BY <2>1, <2>2 DEF Inv, StoresSound
  <2> QED
    BY <2>1, <2>2, <2>3, NoProjectFacts, CommitStep
<1>5. CASE RereadProject(c)
  <2> DEFINE call == [calls[c] EXCEPT !.seen = row, !.stage = "committed"]
  <2>1. calls' = [calls EXCEPT ![c] = call] /\ UNCHANGED <<Stores, docs, cache>>
    BY <1>5 DEF RereadProject
  <2>2. /\ call \in Call /\ call.stage = "committed"
        /\ call.seen = row /\ call.answer = calls[c].answer
    BY <1>0 DEF Call, Stages, Inv, StoresSound
  <2>3. CallSound(call, published)
    <3> HIDE DEF call
    <3> QED
      BY <1>0, <2>2 DEF CallSound, Inv, StoresSound
  <2> HIDE DEF call
  <2> QED
    BY <2>1, <2>3, QuietStep
<1>6. CASE ProjectGone(c)
  BY <1>6, RefuseFacts, QuietStep DEF ProjectGone
<1>7. CASE RecordDecision(c)
  <2>1. "audited" \in Stages /\ Advance(c, "audited") /\ UNCHANGED <<Stores, docs, cache>>
    BY <1>7 DEF RecordDecision, Stages
  <2> QED
    BY <2>1, AdvanceFacts, QuietStep
<1>8. CASE NotifyTeam(c)
  <2>1. "done" \in Stages /\ Advance(c, "done") /\ UNCHANGED <<Stores, docs, cache>>
    BY <1>8 DEF NotifyTeam, Stages
  <2> QED
    BY <2>1, AdvanceFacts, QuietStep
<1>9. CASE SyncIndex(c)
  <2> DEFINE seen == calls[c].seen
             document == DocumentAfter(calls[c].op, seen, docs[seen.id])
  <2>1. /\ docs' = [docs EXCEPT ![seen.id] = document]
        /\ UNCHANGED <<Stores, cache>>
    BY <1>9 DEF SyncIndex
  <2>2. document = NoProject \/ (document = seen /\ Visible(seen))
    BY DEF DocumentAfter, Visible
  <2>3. seen \in Snapshot /\ (Visible(seen) => seen \in published)
    BY <1>0 DEF CallSound, Call
  <2> HIDE DEF seen, document
  <2>4. document \in Snapshot /\ (document # NoProject => document \in published)
    BY <2>2, <2>3, NoProjectFacts
  <2>5. /\ docs' \in [ProjectIds -> Snapshot]
        /\ \A id \in ProjectIds : docs'[id] # NoProject => docs'[id] \in published
    BY <2>1, <2>4 DEF Inv, StoresSound
  <2>6. StoresSound'
    BY <2>1, <2>5 DEF Inv, StoresSound, Stores, ReviewCoherent, PublicByDecision
  <2>7. \E call : CallSound(call, published) /\ calls' = [calls EXCEPT ![c] = call]
    <3>1. Advance(c, IF calls[c].stage = "cleared" THEN "done" ELSE "synced")
      BY <1>9 DEF SyncIndex
    <3> QED
      BY <3>1, AdvanceFacts DEF Stages
  <2>8. CallsSound'
    <3>1. published' = published
      BY <2>1 DEF Stores
    <3> QED
      BY <2>7, <3>1, CallsStep DEF Inv
  <2> QED
    BY <2>6, <2>8 DEF Inv
<1>10. CASE InvalidatePage(c)
  <2>1. cache' = NoProject /\ UNCHANGED <<Stores, docs>>
    BY <1>10 DEF InvalidatePage, PageAfterDelete
  <2>2. StoresSound'
    BY <2>1, NoProjectFacts DEF Inv, StoresSound, Stores, ReviewCoherent, PublicByDecision
  <2>3. \E call : CallSound(call, published) /\ calls' = [calls EXCEPT ![c] = call]
    <3>1. \E stage \in {"invalidated", "cleared", "done"} : Advance(c, stage)
      BY <1>10 DEF InvalidatePage
    <3> QED
      BY <3>1, AdvanceFacts DEF Stages
  <2>4. CallsSound'
    <3>1. published' = published
      BY <2>1 DEF Stores
    <3> QED
      BY <2>3, <3>1, CallsStep DEF Inv
  <2> QED
    BY <2>2, <2>4 DEF Inv
<1>11. CASE ReadRow(c)
  <2>1. CASE Readable(row)
    <3> DEFINE call == [calls[c] EXCEPT !.seen = row, !.stage = "read"]
    <3>1. calls' = [calls EXCEPT ![c] = call] /\ UNCHANGED <<Stores, docs, cache>>
      BY <1>11, <2>1 DEF ReadRow
    <3>2. /\ call \in Call /\ call.stage = "read" /\ call.op = "view"
          /\ call.seen = row /\ call.answer = calls[c].answer
      BY <1>0, <1>11 DEF ReadRow, CallSound, Call, Stages, Inv, StoresSound
    <3>3. CallSound(call, published)
      <4> HIDE DEF call
      <4> QED
        BY <1>0, <2>1, <3>2 DEF CallSound, Inv, StoresSound, Readable
    <3> HIDE DEF call
    <3> QED
      BY <3>1, <3>3, QuietStep
  <2>2. CASE ~Readable(row)
    <3>1. /\ calls' = [calls EXCEPT ![c] = [Blank("done") EXCEPT !.answer = {}]]
          /\ UNCHANGED <<Stores, docs, cache>>
      BY <1>11, <2>2 DEF ReadRow, Answer
    <3>2. {} \in SUBSET published
      OBVIOUS
    <3> QED
      BY <3>1, <3>2, AnswerFacts, QuietStep
  <2> QED
    BY <2>1, <2>2
<1>12. CASE FillCache(c)
  <2>1. /\ calls[c].seen \in Snapshot /\ calls[c].seen \in published
        /\ {calls[c].seen} \in SUBSET published
    BY <1>0, <1>12 DEF FillCache, CallSound, Call
  <2>2. /\ cache' = calls[c].seen /\ UNCHANGED <<Stores, docs>>
        /\ calls' = [calls EXCEPT
             ![c] = [Blank("done") EXCEPT !.answer = {calls[c].seen}]]
    BY <1>12 DEF FillCache, Answer
  <2>3. StoresSound'
    BY <2>1, <2>2 DEF Inv, StoresSound, Stores, ReviewCoherent, PublicByDecision
  <2>4. CallsSound'
    <3>1. published' = published
      BY <2>2 DEF Stores
    <3> QED
      BY <2>1, <2>2, <3>1, AnswerFacts, CallsStep DEF Inv
  <2> QED
    BY <2>3, <2>4 DEF Inv
<1>13. CASE HydrateHits(c)
  <2> DEFINE found == {project \in {row} :
                         project.id \in calls[c].hits /\ Readable(project)}
  <2>1. /\ calls' = [calls EXCEPT ![c] = [Blank("done") EXCEPT !.answer = found]]
        /\ UNCHANGED <<Stores, docs, cache>>
    BY <1>13 DEF HydrateHits, Answer
  <2>2. found \in SUBSET published
    BY DEF Inv, StoresSound, Readable
  <2> HIDE DEF found
  <2> QED
    BY <2>1, <2>2, AnswerFacts, QuietStep
<1>14. CASE UpdateProject(c)
  BY <1>2, <1>14 DEF UpdateProject
<1>15. CASE TouchProject(c)
  BY <1>2, <1>15 DEF TouchProject
<1> QED
  BY <1>1, <1>3, <1>4, <1>5, <1>6, <1>7, <1>8, <1>9, <1>10, <1>11, <1>12,
     <1>13, <1>14, <1>15 DEF Proceed

\* Every step, and stuttering.
LEMMA NextInv == Inv /\ [Next]_vars => Inv'
<1> SUFFICES ASSUME Inv, [Next]_vars PROVE Inv'
  OBVIOUS
<1>1. ASSUME NEW c \in Calls, Begin(c) \/ Proceed(c) PROVE Inv'
  BY <1>1, BeginInv, ProceedInv
<1>2. CASE ExpirePage
  <2>1. cache' = NoProject /\ UNCHANGED <<Stores, docs, calls>>
    BY <1>2 DEF ExpirePage
  <2>2. StoresSound'
    BY <2>1, NoProjectFacts DEF Inv, StoresSound, Stores, ReviewCoherent, PublicByDecision
  <2>3. CallsSound'
    BY <2>1 DEF Inv, CallsSound, Stores
  <2> QED
    BY <2>2, <2>3 DEF Inv
<1>3. CASE UNCHANGED vars
  <2>1. StoresSound'
    BY <1>3 DEF vars, Inv, StoresSound, ReviewCoherent, PublicByDecision
  <2>2. CallsSound'
    BY <1>3 DEF vars, Inv, CallsSound
  <2> QED
    BY <2>1, <2>2 DEF Inv
<1> QED
  BY <1>1, <1>2, <1>3 DEF Next

\* The invariant holds throughout.
LEMMA Invariance == Spec => []Inv
  BY InitInv, NextInv, PTL DEF Spec

--------------------------------------------------------------------------
(* The stores and the row.  While no commit has overlapped, every request *)
(* that holds a snapshot holds the row "r" as it is, and a store that     *)
(* differs from the row has a request in flight that is about to write it.*)

\* A request with a snapshot that it has yet to write out.
InFlight(call) ==
  \/ call.op \in {"update", "moderate", "delete"} /\ call.stage \in {"committed", "audited"}
  \/ call.op = "version" /\ call.stage \in {"committed", "cleared"}
  \/ call.op = "view" /\ call.stage = "read"

\* Its snapshot is the row as it is; a deletion has left none.
Fresh(call, r) ==
  InFlight(call) => IF call.op = "delete" THEN r = NoProject ELSE call.seen = r

\* A version handler that will read the row again, since its project exists.
WillReread(call, r) ==
  call.op = "version" /\ call.stage = "touched" /\ r.id = call.seen.id

\* The request will write the document of the project; it will delete the page.
OwesDocument(call, r, id) ==
  /\ call.seen.id = id
  /\ (InFlight(call) /\ call.op # "view") \/ WillReread(call, r)

OwesDelete(call, r) ==
  call.stage \in {"committed", "audited", "synced"} \/ WillReread(call, r)

Expected(r, id) == IF r.id = id /\ Visible(r) THEN r ELSE NoProject

FreshCalls == \A c \in Calls : Fresh(calls[c], row)

DocsFollow ==
  \A id \in ProjectIds :
    docs[id] = Expected(row, id) \/ \E c \in Calls : OwesDocument(calls[c], row, id)

PageFollows ==
  cache \in {NoProject, row} \/ \E c \in Calls : OwesDelete(calls[c], row)

InStep == ~overlapped => FreshCalls /\ DocsFollow /\ PageFollows

\* A step of one request that leaves the row alone: it may stop owing a write
\* only by making it.
LEMMA FollowingStep ==
  ASSUME Inv, InStep, NEW c \in Calls, NEW call,
         calls' = [calls EXCEPT ![c] = call],
         row' = row, overlapped' = overlapped,
         ~overlapped => Fresh(call, row),
         ~overlapped => \A id \in ProjectIds :
           \/ docs'[id] = Expected(row, id)
           \/ docs'[id] = docs[id]
                /\ (OwesDocument(calls[c], row, id) => OwesDocument(call, row, id)),
         ~overlapped =>
           \/ cache' \in {NoProject, row}
           \/ cache' = cache /\ (OwesDelete(calls[c], row) => OwesDelete(call, row))
  PROVE InStep'
<1>1. calls'[c] = call /\ \A d \in Calls \ {c} : calls'[d] = calls[d]
  BY DEF Inv, CallsSound
<1>3. ASSUME ~overlapped PROVE FreshCalls'
  BY <1>1, <1>3 DEF InStep, FreshCalls
<1>4. ASSUME ~overlapped PROVE DocsFollow'
  BY <1>1, <1>4 DEF InStep, DocsFollow
<1>5. ASSUME ~overlapped PROVE PageFollows'
  BY <1>1, <1>5 DEF InStep, PageFollows
<1> QED
  BY <1>3, <1>4, <1>5 DEF InStep

\* A commit while no other request holds a snapshot leaves the stores to the
\* request that made it.
LEMMA CommitFollows ==
  ASSUME Inv, InStep, NEW c \in Calls, NEW project \in Snapshot,
         NEW stage \in {"committed", "touched"},
         calls[c].stage = "found",
         Commit(c, project, stage),
         \/ /\ calls[c].op = "create" /\ stage = "committed" /\ row = NoProject
            /\ ~Visible(project) /\ project # NoProject
         \/ /\ calls[c].op \in {"update", "moderate"} /\ stage = "committed"
            /\ project # NoProject /\ project.id = row.id
         \/ /\ calls[c].op = "version" /\ stage = "touched"
            /\ project # NoProject /\ project.id = row.id
         \/ /\ calls[c].op = "delete" /\ stage = "committed"
            /\ project = NoProject /\ row.id = calls[c].seen.id
  PROVE InStep'
<1> DEFINE kept == IF project = NoProject THEN calls[c].seen ELSE project
           call == [calls[c] EXCEPT !.stage = stage, !.seen = kept]
<1>1. /\ row' = project /\ docs' = docs /\ cache' = cache
      /\ calls' = [calls EXCEPT ![c] = call]
      /\ ~overlapped' => ~overlapped /\ \A d \in Calls \ {c} : ~InFlight(calls[d])
  BY DEF Commit, Pending, InFlight
<1>2. calls[c] \in Call
  BY DEF Inv, CallsSound
<1>3. call.stage = stage /\ call.op = calls[c].op /\ call.seen = kept
  BY <1>2 DEF Call
<1>4. kept = IF project = NoProject THEN calls[c].seen ELSE project
  OBVIOUS
<1> HIDE DEF call, kept
<1>5. calls'[c] = call /\ \A d \in Calls \ {c} : calls'[d] = calls[d]
  BY <1>1 DEF Inv, CallsSound
<1>7. ASSUME ~overlapped' PROVE FreshCalls'
  <2>1. Fresh(call, project)
    BY <1>3, <1>4 DEF Fresh, InFlight
  <2>2. \A d \in Calls \ {c} : Fresh(calls[d], project)
    BY <1>1, <1>7 DEF Fresh
  <2> QED
    BY <1>1, <1>5, <2>1, <2>2 DEF FreshCalls
<1>8. ASSUME ~overlapped' PROVE DocsFollow'
  <2>1. ASSUME NEW id \in ProjectIds
        PROVE docs[id] = Expected(project, id) \/ OwesDocument(call, project, id)
    <3>1. row.id # id => docs[id] = NoProject
      <4>1. ASSUME NEW d \in Calls, row.id # id PROVE ~OwesDocument(calls[d], row, id)
        BY <1>1, <1>8, <4>1 DEF OwesDocument, WillReread, InFlight
      <4> QED
        BY <1>1, <1>8, <4>1 DEF InStep, DocsFollow, Expected
    <3>2. CASE row.id = id /\ calls[c].op # "create"
      BY <1>3, <1>4, <3>2 DEF OwesDocument, InFlight, WillReread
    <3>3. CASE row.id # id /\ calls[c].op # "create"
      BY <3>1, <3>3, NoProjectFacts, NoIdAssumption DEF Expected
    <3>4. CASE calls[c].op = "create"
      BY <3>1, <3>4, NoProjectFacts, NoIdAssumption DEF Expected
    <3> QED
      BY <3>2, <3>3, <3>4
  <2> QED
    BY <1>1, <1>5, <2>1 DEF DocsFollow
<1>9. ASSUME ~overlapped' PROVE PageFollows'
  <2>1. OwesDelete(call, project)
    BY <1>3, <1>4 DEF OwesDelete, WillReread
  <2> QED
    BY <1>1, <1>5, <2>1 DEF PageFollows
<1> QED
  BY <1>7, <1>8, <1>9 DEF InStep

\* The document that a request writes is the one its project should have.
LEMMA FreshDocument ==
  ASSUME NEW call, NEW old, NEW id \in ProjectIds, call.seen.id = id,
         Fresh(call, row), InFlight(call)
  PROVE DocumentAfter(call.op, call.seen, old) = Expected(row, id)
BY NoProjectFacts, NoIdAssumption DEF Fresh, DocumentAfter, Expected, Visible

\* The seeded index shows the seeded project.
LEMMA InitFollows == Init => InStep
<1> SUFFICES ASSUME Init PROVE InStep
  OBVIOUS
<1>1. \A c \in Calls : calls[c].stage = "idle"
  <2>1. Blank("idle").stage = "idle"
    BY DEF Blank
  <2>2. \A c \in Calls : calls[c] = Blank("idle")
    BY DEF Init
  <2> QED
    BY <2>1, <2>2
<1>3. FreshCalls
  BY <1>1 DEF FreshCalls, Fresh, InFlight
<1>4. DocsFollow
  BY NoProjectFacts, NoIdAssumption DEF Init, Established, DocsFollow, Expected
<1>5. PageFollows
  BY DEF Init, PageFollows
<1> QED
  BY <1>3, <1>4, <1>5 DEF InStep

\* A request that begins holds no snapshot yet.
LEMMA BeginFollows ==
  ASSUME Inv, InStep, NEW c \in Calls, Begin(c)
  PROVE InStep'
<1>1. calls[c] \in Call /\ calls[c].stage = "idle"
  <2>1. calls[c] \in Call
    BY DEF Inv, CallsSound
  <2>2. calls[c].stage = "idle"
    BY Zenon DEF Begin, FindProject, ReadCache, QueryIndex
  <2> QED
    BY <2>1, <2>2
<1>2. \E call : /\ calls' = [calls EXCEPT ![c] = call]
                /\ call.stage \in {"found", "refused", "done", "missed", "queried"}
  <2>1. ASSUME NEW op \in Writes, NEW action \in ModerationActions,
               FindProject(c, op, action)
        PROVE \E call : /\ calls' = [calls EXCEPT ![c] = call]
                        /\ call.stage \in {"found", "refused"}
    <3>1. [calls[c] EXCEPT !.stage = "found", !.op = op, !.action = action,
                           !.seen = row].stage = "found"
      BY <1>1 DEF Call
    <3>2. Blank("refused").stage = "refused"
      BY DEF Blank
    <3>3. CASE (op = "create") = (row = NoProject)
      BY <2>1, <3>1, <3>3 DEF FindProject
    <3>4. CASE ~((op = "create") = (row = NoProject))
      BY <2>1, <3>2, <3>4 DEF FindProject, Refuse
    <3> QED
      BY <3>3, <3>4
  <2>2. CASE ReadCache(c)
    <3>1. [Blank("done") EXCEPT !.answer = {cache}].stage = "done"
      BY DEF Blank
    <3>2. [calls[c] EXCEPT !.op = "view", !.stage = "missed"].stage = "missed"
      BY <1>1 DEF Call
    <3> QED
      BY <2>2, <3>1, <3>2 DEF ReadCache
  <2>3. CASE QueryIndex(c)
    <3>1. [calls[c] EXCEPT !.op = "search", !.stage = "queried",
             !.hits = {id \in ProjectIds : docs[id] # NoProject}].stage = "queried"
      BY <1>1 DEF Call
    <3> QED
      BY <2>3, <3>1 DEF QueryIndex
  <2> QED
    BY <2>1, <2>2, <2>3 DEF Begin
<1>3. UNCHANGED <<Stores, docs, cache>>
  BY Zenon DEF Begin, FindProject, ReadCache, QueryIndex
<1>4. ~OwesDelete(calls[c], row) /\ \A id \in ProjectIds : ~OwesDocument(calls[c], row, id)
  BY <1>1 DEF OwesDelete, OwesDocument, InFlight, WillReread
<1>5. PICK call : /\ calls' = [calls EXCEPT ![c] = call]
                  /\ call.stage \in {"found", "refused", "done", "missed", "queried"}
  BY <1>2
<1>6. Fresh(call, row)
  BY <1>5 DEF Fresh, InFlight
<1> QED
  BY <1>3, <1>4, <1>5, <1>6, FollowingStep DEF Stores

\* Only a document or a page that a request owed is written, with the row as
\* it is.
LEMMA ProceedFollows ==
  ASSUME Inv, InStep, NEW c \in Calls, Proceed(c)
  PROVE InStep'
<1> DEFINE now == calls[c]
<1>0. now \in Call /\ CallSound(now, published)
  BY DEF Inv, CallsSound
<1>1. ~overlapped => Fresh(now, row)
  BY DEF InStep, FreshCalls
<1>2. row \in Snapshot
  BY DEF Inv, StoresSound
<1>3. /\ Blank("done").stage = "done" /\ Blank("refused").stage = "refused"
      /\ \A projects : [Blank("done") EXCEPT !.answer = projects].stage = "done"
  BY DEF Blank
<1>4. ASSUME NEW stage, Advance(c, stage)
      PROVE \E call : /\ calls' = [calls EXCEPT ![c] = call] /\ call.stage = stage
                      /\ stage # "done" => call.seen = now.seen /\ call.op = now.op
  <2>1. CASE stage = "done"
    BY <1>3, <1>4, <2>1 DEF Advance
  <2>2. CASE stage # "done"
    <3> DEFINE call == [now EXCEPT !.stage = stage]
    <3>1. call.stage = stage /\ call.seen = now.seen /\ call.op = now.op
      BY <1>0 DEF Call
    <3>2. calls' = [calls EXCEPT ![c] = call]
      BY <1>4, <2>2 DEF Advance
    <3> QED
      BY <3>1, <3>2
  <2> QED
    BY <2>1, <2>2
\* A request that gives up, or ends, having owed nothing.
<1>5. ASSUME NEW call, calls' = [calls EXCEPT ![c] = call],
             call.stage \in {"done", "refused"}, UNCHANGED <<Stores, docs, cache>>,
             ~OwesDelete(now, row), \A id \in ProjectIds : ~OwesDocument(now, row, id)
      PROVE InStep'
  <2>1. Fresh(call, row)
    BY <1>5 DEF Fresh, InFlight
  <2> QED
    BY <1>5, <2>1, FollowingStep DEF Stores
<1>6. now.stage \in {"found", "queried", "missed", "invalidated"}
        => ~OwesDelete(now, row) /\ \A id \in ProjectIds : ~OwesDocument(now, row, id)
  BY DEF OwesDelete, OwesDocument, InFlight, WillReread
<1> HIDE DEF now
<1>7. CASE CreateProject(c)
  <2>1. now.stage = "found" /\ now.op = "create"
    BY <1>7 DEF CreateProject, now
  <2>2. ASSUME NEW id \in ProjectIds, row = NoProject,
               Commit(c, NewProject(id), "committed")
        PROVE InStep'
    <3>1. /\ NewProject(id) \in Snapshot /\ ~Visible(NewProject(id))
          /\ NewProject(id) # NoProject
      BY NewProjectFacts, NoProjectFacts DEF Snapshot
    <3> QED
      BY <2>1, <2>2, <3>1, CommitFollows DEF now
  <2>3. CASE Refuse(c) /\ UNCHANGED <<row, usedIds, docs, cache, published, overlapped>>
    <3>1. UNCHANGED <<Stores, docs, cache>>
      BY <1>7, <2>3 DEF CreateProject, Stores
    <3> QED
      BY <1>3, <1>5, <1>6, <2>1, <2>3, <3>1 DEF Refuse
  <2> QED
    BY <1>7, <2>2, <2>3 DEF CreateProject
<1>8. ASSUME NEW op \in {"update", "version"}, NEW stage \in {"committed", "touched"},
             (op = "update") = (stage = "committed"),
             Changes(c, op), Commit(c, Edited(row), stage)
      PROVE InStep'
  <2>1. row \in Project
    BY <1>8, ChangeInv DEF Writes
  <2>2. /\ Edited(row) \in Snapshot /\ Edited(row) # NoProject
        /\ Edited(row).id = row.id
    BY <2>1, EditedFacts, NoProjectFacts DEF Snapshot
  <2>3. calls[c].stage = "found" /\ calls[c].op = op
    BY <1>8 DEF Changes
  <2> QED
    BY <1>8, <2>2, <2>3, CommitFollows
<1>9. CASE ModerateProject(c)
  <2> DEFINE after == Moderated(row, now.action)
  <2>1. row \in Project /\ now.action \in ModerationActions
    BY <1>0, <1>9, ChangeInv DEF ModerateProject, Writes, Call
  <2>2. after \in Snapshot /\ after # NoProject /\ after.id = row.id
    BY <2>1, ModeratedFacts, NoProjectFacts DEF Snapshot
  <2>3. /\ calls[c].stage = "found" /\ calls[c].op = "moderate"
        /\ Commit(c, after, "committed")
    BY <1>9 DEF ModerateProject, Changes, now
  <2> HIDE DEF after
  <2> QED
    BY <2>2, <2>3, CommitFollows
<1>10. CASE DeleteProject(c)
  <2>1. /\ calls[c].stage = "found" /\ calls[c].op = "delete"
        /\ row.id = calls[c].seen.id /\ Commit(c, NoProject, "committed")
    BY <1>10 DEF DeleteProject, Changes
  <2> QED
    BY <2>1, NoProjectFacts, CommitFollows
<1>11. CASE RereadProject(c)
  <2> DEFINE call == [now EXCEPT !.seen = row, !.stage = "committed"]
  <2>1. /\ calls' = [calls EXCEPT ![c] = call] /\ UNCHANGED <<Stores, docs, cache>>
        /\ now.stage = "touched" /\ row.id = now.seen.id
    BY <1>11 DEF RereadProject, now
  <2>2. call.stage = "committed" /\ call.seen = row /\ call.op = now.op
    BY <1>0 DEF Call
  <2> HIDE DEF call
  <2>3. Fresh(call, row) \/ now.op = "delete"
    BY <2>2 DEF Fresh
  <2>4. now.op = "version"
    BY <1>0, <2>1 DEF CallSound
  <2>5. /\ OwesDelete(call, row)
        /\ \A id \in ProjectIds : OwesDocument(now, row, id) => OwesDocument(call, row, id)
    BY <2>1, <2>2, <2>4 DEF OwesDelete, OwesDocument, InFlight, WillReread
  <2> QED
    BY <2>1, <2>2, <2>3, <2>4, <2>5, FollowingStep DEF Stores, now
<1>12. CASE ProjectGone(c)
  <2>1. /\ now.stage \in {"found", "touched"} /\ row.id # now.seen.id
        /\ Refuse(c) /\ UNCHANGED <<Stores, docs, cache>>
    BY <1>12 DEF ProjectGone, now
  <2>2. ~OwesDelete(now, row) /\ \A id \in ProjectIds : ~OwesDocument(now, row, id)
    BY <2>1 DEF OwesDelete, OwesDocument, InFlight, WillReread
  <2> QED
    BY <1>3, <1>5, <2>1, <2>2 DEF Refuse
<1>13. CASE RecordDecision(c)
  <2>1. /\ now.stage = "committed" /\ now.op = "moderate"
        /\ Advance(c, "audited") /\ UNCHANGED <<Stores, docs, cache>>
    BY <1>13 DEF RecordDecision, now
  <2>2. PICK call : /\ calls' = [calls EXCEPT ![c] = call] /\ call.stage = "audited"
                    /\ call.seen = now.seen /\ call.op = now.op
    BY <1>4, <2>1
  <2>3. ~overlapped => Fresh(call, row)
    BY <1>1, <2>1, <2>2 DEF Fresh, InFlight
  <2>4. /\ OwesDelete(call, row)
        /\ \A id \in ProjectIds : OwesDocument(now, row, id) => OwesDocument(call, row, id)
    BY <2>1, <2>2 DEF OwesDelete, OwesDocument, InFlight, WillReread
  <2> QED
    BY <2>1, <2>2, <2>3, <2>4, FollowingStep DEF Stores, now
<1>14. CASE SyncIndex(c)
  <2> DEFINE document == DocumentAfter(now.op, now.seen, docs[now.seen.id])
             stage == IF now.stage = "cleared" THEN "done" ELSE "synced"
  <2>1. /\ InFlight(now) /\ now.op # "view"
        /\ docs' = [docs EXCEPT ![now.seen.id] = document]
        /\ Advance(c, stage) /\ UNCHANGED <<Stores, cache>>
    BY <1>14 DEF SyncIndex, InFlight, now
  <2>2. PICK call : calls' = [calls EXCEPT ![c] = call] /\ call.stage = stage
    BY <1>4, <2>1
  <2>3. stage \in {"done", "synced"} /\ (OwesDelete(now, row) => stage = "synced")
    BY DEF OwesDelete, WillReread
  <2>4. ASSUME NEW id \in ProjectIds, ~overlapped
        PROVE \/ docs'[id] = Expected(row, id)
              \/ docs'[id] = docs[id] /\ ~OwesDocument(now, row, id)
    <3>1. docs \in [ProjectIds -> Snapshot]
      BY DEF Inv, StoresSound
    <3>2. CASE now.seen.id = id
      <4>1. document = Expected(row, id)
        BY <1>1, <2>1, <2>4, <3>2, FreshDocument
      <4> HIDE DEF document
      <4> QED
        BY <2>1, <3>1, <3>2, <4>1
    <3>3. CASE now.seen.id # id
      <4> HIDE DEF document
      <4> QED
        BY <2>1, <3>1, <3>3 DEF OwesDocument
    <3> QED
      BY <3>2, <3>3
  <2> HIDE DEF document, stage
  <2>5. Fresh(call, row)
    BY <2>2, <2>3 DEF Fresh, InFlight
  <2>6. OwesDelete(now, row) => OwesDelete(call, row)
    BY <2>2, <2>3 DEF OwesDelete
  <2> QED
    BY <2>1, <2>2, <2>4, <2>5, <2>6, FollowingStep DEF Stores, now
<1>15. CASE InvalidatePage(c)
  <2> DEFINE stage == IF now.op = "moderate" THEN "invalidated"
                      ELSE IF now.op = "version" /\ now.stage = "committed"
                           THEN "cleared" ELSE "done"
  <2>1. /\ \/ now.op = "create" /\ now.stage = "committed"
           \/ now.op # "create" /\ now.stage = "synced"
           \/ now.op = "version" /\ now.stage = "committed"
        /\ Advance(c, stage) /\ cache' = NoProject /\ UNCHANGED <<Stores, docs>>
    BY <1>15 DEF InvalidatePage, PageAfterDelete, now
  <2>2. PICK call : /\ calls' = [calls EXCEPT ![c] = call] /\ call.stage = stage
                    /\ stage # "done" => call.seen = now.seen /\ call.op = now.op
    BY <1>4, <2>1
  <2>3. /\ stage \in {"invalidated", "cleared", "done"}
        /\ stage = "cleared" <=> now.op = "version" /\ now.stage = "committed"
    OBVIOUS
  <2> HIDE DEF stage
  <2>4. ~overlapped => Fresh(call, row)
    BY <1>1, <2>2, <2>3 DEF Fresh, InFlight
  <2>5. \A id \in ProjectIds : OwesDocument(now, row, id) => OwesDocument(call, row, id)
    BY <2>1, <2>2, <2>3 DEF OwesDocument, InFlight, WillReread
  <2> QED
    BY <2>1, <2>2, <2>4, <2>5, FollowingStep DEF Stores, now
<1>16. CASE NotifyTeam(c)
  <2>1. now.stage = "invalidated" /\ Advance(c, "done") /\ UNCHANGED <<Stores, docs, cache>>
    BY <1>16 DEF NotifyTeam, now
  <2> QED
    BY <1>4, <1>5, <1>6, <2>1
<1>17. CASE ReadRow(c)
  <2>1. now.stage = "missed" /\ UNCHANGED <<Stores, docs, cache>>
    BY <1>17 DEF ReadRow, now
  <2>2. CASE Readable(row)
    <3> DEFINE call == [now EXCEPT !.seen = row, !.stage = "read"]
    <3>1. calls' = [calls EXCEPT ![c] = call]
      BY <1>17, <2>2 DEF ReadRow, now
    <3>2. call.stage = "read" /\ call.seen = row /\ call.op = now.op
      BY <1>0 DEF Call
    <3> HIDE DEF call
    <3>3. now.op = "view"
      BY <1>0, <2>1 DEF CallSound
    <3>4. Fresh(call, row)
      BY <3>2, <3>3 DEF Fresh
    <3> QED
      BY <1>6, <2>1, <3>1, <3>2, <3>3, <3>4, FollowingStep DEF Stores, now
  <2>3. CASE ~Readable(row)
    BY <1>3, <1>5, <1>6, <1>17, <2>1, <2>3 DEF ReadRow, Answer
  <2> QED
    BY <2>2, <2>3
<1>18. CASE FillCache(c)
  <2>1. now.stage = "read" /\ cache' = now.seen /\ UNCHANGED <<Stores, docs>>
    BY <1>18 DEF FillCache, now
  <2>2. PICK call : calls' = [calls EXCEPT ![c] = call] /\ call.stage = "done"
    BY <1>3, <1>18 DEF FillCache, Answer
  <2>3. now.op = "view"
    BY <1>0, <2>1 DEF CallSound
  <2>4. ~overlapped => cache' = row
    BY <1>1, <2>1, <2>3 DEF Fresh, InFlight
  <2>5. Fresh(call, row) /\ \A id \in ProjectIds : ~OwesDocument(now, row, id)
    BY <2>1, <2>2, <2>3 DEF Fresh, InFlight, OwesDocument, WillReread
  <2> QED
    BY <2>1, <2>2, <2>4, <2>5, FollowingStep DEF Stores, now
<1>19. CASE HydrateHits(c)
  <2>1. now.stage = "queried" /\ UNCHANGED <<Stores, docs, cache>>
    BY <1>19 DEF HydrateHits, now
  <2>2. PICK call : calls' = [calls EXCEPT ![c] = call] /\ call.stage = "done"
    BY <1>3, <1>19 DEF HydrateHits, Answer
  <2> QED
    BY <1>5, <1>6, <2>1, <2>2
<1>20. CASE UpdateProject(c)
  BY <1>8, <1>20 DEF UpdateProject
<1>21. CASE TouchProject(c)
  BY <1>8, <1>21 DEF TouchProject
<1> QED
  BY <1>7, <1>9, <1>10, <1>11, <1>12, <1>13, <1>14, <1>15, <1>16, <1>17,
     <1>18, <1>19, <1>20, <1>21 DEF Proceed

\* Every step, and stuttering.
LEMMA NextFollows == Inv /\ InStep /\ [Next]_vars => InStep'
<1> SUFFICES ASSUME Inv, InStep, [Next]_vars PROVE InStep'
  OBVIOUS
<1>1. ASSUME NEW c \in Calls, Begin(c) \/ Proceed(c) PROVE InStep'
  BY <1>1, BeginFollows, ProceedFollows
<1>2. CASE ExpirePage
  <2>1. cache' = NoProject /\ UNCHANGED <<Stores, docs, calls>>
    BY <1>2 DEF ExpirePage
  <2> QED
    BY <2>1 DEF InStep, FreshCalls, DocsFollow, PageFollows, Stores
<1>3. CASE UNCHANGED vars
  BY <1>3 DEF vars, InStep, FreshCalls, DocsFollow, PageFollows
<1> QED
  BY <1>1, <1>2, <1>3 DEF Next

LEMMA FollowsInvariance == Spec => []InStep
  BY InitFollows, NextFollows, Invariance, PTL DEF Spec

\* When all is quiet no request owes anything.
LEMMA QuietOwesNothing ==
  ASSUME Quiet, NEW c \in Calls
  PROVE ~OwesDelete(calls[c], row) /\ \A id : ~OwesDocument(calls[c], row, id)
BY DEF Quiet, OwesDelete, OwesDocument, InFlight, WillReread

--------------------------------------------------------------------------
(* The theorems.                                                          *)

\* The row, the index, the cache and the requests keep the shape of the
\* schema and of the cached contracts.
THEOREM TypeCorrect == Spec => []TypeOK
<1>1. Inv => TypeOK
  BY DEF Inv, StoresSound, CallsSound, CallSound, TypeOK
<1> QED
  BY <1>1, Invariance, PTL

\* findProjectBySlug and searchProjects, and the stores they read, show no
\* version of a project that was never committed as approved, however many
\* requests interleave and wherever they stop.
THEOREM ShownWasPublished == Spec => []OnlyPublishedShown
<1>1. Inv => OnlyPublishedShown
  BY DEF Inv, StoresSound, CallsSound, CallSound, OnlyPublishedShown
<1> QED
  BY <1>1, Invariance, PTL

\* A project is in the review queue exactly while a status is requested for
\* it (createProject, moderateProject and the edits between them).
THEOREM QueueCoherent == Spec => []ReviewCoherent
<1>1. Inv => ReviewCoherent
  BY DEF Inv, StoresSound
<1> QED
  BY <1>1, Invariance, PTL

\* Only moderateProject makes a project public.
THEOREM ModeratorsPublish == Spec => []PublicByDecision
<1>1. Inv => PublicByDecision
  BY DEF Inv, StoresSound
<1> QED
  BY <1>1, Invariance, PTL

\* The search index shows an approved project with its latest content, and
\* no other, whenever all requests have ended and none has committed while
\* another was about to write (refreshPublicProject, the index calls of
\* moderateProject and deleteProject, refreshProjectAfterVersionChange).
THEOREM SerialIndexFollows == Spec => []IndexFollowsRow
<1>1. InStep => IndexFollowsRow
  BY QuietOwesNothing DEF InStep, DocsFollow, Expected, IndexFollowsRow, IndexAgrees
<1> QED
  BY <1>1, FollowsInvariance, PTL

\* The page cached under the slug is then the row as it is, or none.
THEOREM SerialCacheFollows == Spec => []CacheFollowsRow
<1>1. InStep => CacheFollowsRow
  BY QuietOwesNothing DEF InStep, PageFollows, CacheFollowsRow
<1> QED
  BY <1>1, FollowsInvariance, PTL

--------------------------------------------------------------------------
(* What ends a request and what settles the cache.                        *)

\* How many steps a request has before it at most.
Depth(stage) ==
  CASE stage = "idle"                          -> 7
    [] stage \in {"found", "missed", "queried"} -> 6
    [] stage \in {"touched", "read"}           -> 5
    [] stage = "committed"                     -> 4
    [] stage = "audited"                       -> 3
    [] stage \in {"synced", "cleared"}         -> 2
    [] stage = "invalidated"                   -> 1
    [] stage \in {"done", "refused"}           -> 0

StepsLeft(call) == Depth(call.stage)

\* A step changes a request only by bringing it nearer to its end.
RequestsRunDown ==
  [][\A c \in Calls : \/ calls'[c] = calls[c]
                      \/ StepsLeft(calls'[c]) < StepsLeft(calls[c])]_vars

\* While no request is under way the row stays, and what happens to the cached
\* page is that it expires.
RestOnlyExpires ==
  [][Quiet /\ Quiet' => /\ UNCHANGED <<row, docs>>
                        /\ cache' # cache => ExpirePage]_vars

LEMMA StageFacts ==
  ASSUME Inv, NEW c \in Calls
  PROVE calls[c] \in Call /\ calls[c].stage \in Stages
BY DEF Inv, CallsSound, CallSound, Call

\* The end is nothing away, and every other stage something.
LEMMA DepthFacts ==
  /\ \A stage \in Stages : Depth(stage) \in Nat
  /\ \A stage \in Stages \ {"done", "refused"} : Depth(stage) > 0
  /\ Depth("done") = 0 /\ Depth("refused") = 0
BY DEF Depth, Stages

LEMMA BlankIsDone ==
  ASSUME NEW stage \in {"done", "refused"}, NEW answer
  PROVE /\ StepsLeft(Blank(stage)) = 0
        /\ StepsLeft([Blank(stage) EXCEPT !.answer = answer]) = 0
BY DepthFacts DEF StepsLeft, Blank

\* A request that goes on, to a later stage or to its end.
LEMMA AdvanceDescends ==
  ASSUME Inv, NEW c \in Calls, NEW stage \in Stages, Advance(c, stage),
         Depth(stage) < Depth(calls[c].stage)
  PROVE \E new : /\ calls' = [calls EXCEPT ![c] = new]
                 /\ StepsLeft(new) < StepsLeft(calls[c])
<1>1. calls[c] \in Call
  BY StageFacts
<1>2. CASE stage = "done"
  <2>1. calls' = [calls EXCEPT ![c] = Blank("done")] /\ StepsLeft(Blank("done")) = 0
    BY <1>2, BlankIsDone DEF Advance
  <2>2. StepsLeft(calls[c]) > 0
    BY <1>2, DepthFacts DEF StepsLeft
  <2> QED BY <2>1, <2>2
<1>3. CASE stage # "done"
  <2> DEFINE new == [calls[c] EXCEPT !.stage = stage]
  <2>1. calls' = [calls EXCEPT ![c] = new]
    BY <1>3 DEF Advance
  <2>2. new.stage = stage
    BY <1>1 DEF Call
  <2> HIDE DEF new
  <2>3. StepsLeft(new) < StepsLeft(calls[c])
    BY <2>2 DEF StepsLeft
  <2> QED BY <2>1, <2>3
<1> QED BY <1>2, <1>3

\* A request that is refused or answers has nothing before it.
LEMMA EndDescends ==
  ASSUME Inv, NEW c \in Calls, calls[c].stage \notin {"done", "refused"},
         Refuse(c) \/ \E projects : Answer(c, projects)
  PROVE \E new : /\ calls' = [calls EXCEPT ![c] = new]
                 /\ StepsLeft(new) < StepsLeft(calls[c])
<1>1. StepsLeft(calls[c]) > 0
  BY StageFacts, DepthFacts DEF StepsLeft
<1>2. CASE Refuse(c)
  BY <1>1, <1>2, BlankIsDone DEF Refuse
<1>3. CASE \E projects : Answer(c, projects)
  <2>1. PICK projects : Answer(c, projects)
    BY <1>3
  <2> DEFINE new == [Blank("done") EXCEPT !.answer = projects]
  <2>2. calls' = [calls EXCEPT ![c] = new]
    BY <2>1 DEF Answer
  <2>3. StepsLeft(new) = 0
    BY BlankIsDone
  <2> HIDE DEF new
  <2>4. StepsLeft(new) < StepsLeft(calls[c])
    BY <1>1, <2>3
  <2> QED BY <2>2, <2>4
<1> QED BY <1>2, <1>3

LEMMA BeginDescends ==
  ASSUME Inv, NEW c \in Calls, Begin(c)
  PROVE /\ UNCHANGED <<row, docs, cache>>
        /\ \E new : /\ calls' = [calls EXCEPT ![c] = new]
                    /\ StepsLeft(new) < StepsLeft(calls[c])
<1>1. calls[c] \in Call /\ calls[c].stage = "idle" /\ StepsLeft(calls[c]) = 7
  BY StageFacts DEF Begin, FindProject, ReadCache, QueryIndex, StepsLeft, Depth
<1>2. UNCHANGED <<row, docs, cache>>
  BY DEF Begin, FindProject, ReadCache, QueryIndex, Stores
<1>3. ASSUME NEW op, NEW action, FindProject(c, op, action)
      PROVE  \E new : /\ calls' = [calls EXCEPT ![c] = new]
                      /\ StepsLeft(new) < StepsLeft(calls[c])
  <2> DEFINE new == [calls[c] EXCEPT !.stage = "found", !.op = op, !.action = action,
                                     !.seen = row]
  <2>1. \/ Refuse(c)
        \/ calls' = [calls EXCEPT ![c] = new]
    BY <1>3 DEF FindProject
  <2>2. new.stage = "found"
    BY <1>1 DEF Call
  <2> HIDE DEF new
  <2>3. StepsLeft(new) = 6
    BY <2>2 DEF StepsLeft, Depth
  <2> QED BY <1>1, <2>1, <2>3, EndDescends
<1>4. ASSUME ReadCache(c)
      PROVE  \E new : /\ calls' = [calls EXCEPT ![c] = new]
                      /\ StepsLeft(new) < StepsLeft(calls[c])
  <2> DEFINE new == [calls[c] EXCEPT !.op = "view", !.stage = "missed"]
  <2>1. \/ calls' = [calls EXCEPT ![c] = [Blank("done") EXCEPT !.answer = {cache}]]
        \/ calls' = [calls EXCEPT ![c] = new]
    BY <1>4 DEF ReadCache
  <2>2. new.stage = "missed"
    BY <1>1 DEF Call
  <2> HIDE DEF new
  <2>3. StepsLeft(new) = 6
    BY <2>2 DEF StepsLeft, Depth
  <2> QED BY <1>1, <2>1, <2>3, BlankIsDone
<1>5. ASSUME QueryIndex(c)
      PROVE  \E new : /\ calls' = [calls EXCEPT ![c] = new]
                      /\ StepsLeft(new) < StepsLeft(calls[c])
  <2> DEFINE new == [calls[c] EXCEPT !.op = "search", !.stage = "queried",
                                     !.hits = {id \in ProjectIds : docs[id] # NoProject}]
  <2>1. calls' = [calls EXCEPT ![c] = new]
    BY <1>5 DEF QueryIndex
  <2>2. new.stage = "queried"
    BY <1>1 DEF Call
  <2> HIDE DEF new
  <2>3. StepsLeft(new) = 6
    BY <2>2 DEF StepsLeft, Depth
  <2>4. StepsLeft(new) < StepsLeft(calls[c])
    BY <1>1, <2>3
  <2> QED BY <2>1, <2>4
<1> QED BY <1>2, <1>3, <1>4, <1>5 DEF Begin

LEMMA CommitDescends ==
  ASSUME Inv, NEW c \in Calls, calls[c].stage = "found",
         NEW project, NEW stage \in {"committed", "touched"}, Commit(c, project, stage)
  PROVE \E new : /\ calls' = [calls EXCEPT ![c] = new]
                 /\ StepsLeft(new) < StepsLeft(calls[c])
<1> DEFINE new == [calls[c] EXCEPT !.stage = stage,
                                   !.seen = IF project = NoProject THEN calls[c].seen
                                            ELSE project]
<1>1. calls' = [calls EXCEPT ![c] = new]
  BY DEF Commit
<1>2. new.stage = stage
  BY StageFacts DEF Call
<1> HIDE DEF new
<1>3. StepsLeft(new) < StepsLeft(calls[c])
  BY <1>2 DEF StepsLeft, Depth
<1> QED BY <1>1, <1>3

LEMMA ProceedDescends ==
  ASSUME Inv, NEW c \in Calls, Proceed(c)
  PROVE /\ calls[c].stage \notin {"idle", "done", "refused"}
        /\ \E new : /\ calls' = [calls EXCEPT ![c] = new]
                    /\ StepsLeft(new) < StepsLeft(calls[c])
<1> DEFINE Busy == calls[c].stage \notin {"idle", "done", "refused"}
           Down == \E new : /\ calls' = [calls EXCEPT ![c] = new]
                            /\ StepsLeft(new) < StepsLeft(calls[c])
<1>1. calls[c] \in Call
  BY StageFacts
<1>2. ASSUME CreateProject(c)  PROVE Busy /\ Down
  <2>1. calls[c].stage = "found"
    BY <1>2 DEF CreateProject
  <2>2. Refuse(c) \/ \E id \in ProjectIds : Commit(c, NewProject(id), "committed")
    BY <1>2 DEF CreateProject
  <2>3. CASE Refuse(c)
    BY <2>1, <2>3, EndDescends
  <2>4. ASSUME NEW id \in ProjectIds, Commit(c, NewProject(id), "committed")
        PROVE  Down
    BY <2>1, <2>4, CommitDescends
  <2> QED BY <2>1, <2>2, <2>3, <2>4
<1>3. ASSUME UpdateProject(c) \/ ModerateProject(c) \/ DeleteProject(c) \/ TouchProject(c)
      PROVE  Busy /\ Down
  <2>1. calls[c].stage = "found"
    BY <1>3 DEF UpdateProject, ModerateProject, DeleteProject, TouchProject, Changes
  <2>2. \E project : \E stage \in {"committed", "touched"} : Commit(c, project, stage)
    BY <1>3 DEF UpdateProject, ModerateProject, DeleteProject, TouchProject
  <2>3. PICK project, stage : /\ stage \in {"committed", "touched"}
                              /\ Commit(c, project, stage)
    BY <2>2
  <2> QED BY <2>1, <2>3, CommitDescends
<1>4. ASSUME RereadProject(c)  PROVE Busy /\ Down
  <2> DEFINE new == [calls[c] EXCEPT !.seen = row, !.stage = "committed"]
  <2>1. calls' = [calls EXCEPT ![c] = new] /\ calls[c].stage = "touched"
    BY <1>4 DEF RereadProject
  <2>2. new.stage = "committed"
    BY <1>1 DEF Call
  <2> HIDE DEF new
  <2>3. StepsLeft(new) < StepsLeft(calls[c])
    BY <2>1, <2>2 DEF StepsLeft, Depth
  <2> QED BY <2>1, <2>3
<1>5. ASSUME ProjectGone(c)  PROVE Busy /\ Down
  <2>1. calls[c].stage \in {"found", "touched"} /\ Refuse(c)
    BY <1>5 DEF ProjectGone
  <2> QED BY <2>1, EndDescends
\* What a request does after its commit leads to a later stage.
<1> DEFINE Leads(stage) ==
             /\ calls[c].stage \in {"committed", "audited", "synced", "cleared", "invalidated"}
             /\ Advance(c, stage)
             /\ Depth(stage) < Depth(calls[c].stage)
<1>6. ASSUME NEW stage \in Stages, Leads(stage)  PROVE Busy /\ Down
  BY <1>6, AdvanceDescends
<1>7. ASSUME RecordDecision(c)  PROVE Busy /\ Down
  <2>1. Leads("audited")
    BY <1>7 DEF RecordDecision, Depth
  <2> QED BY <2>1, <1>6 DEF Stages
<1>8. ASSUME SyncIndex(c)  PROVE Busy /\ Down
  <2>1. CASE calls[c].stage = "cleared"
    <3>1. Leads("done")
      BY <1>8, <2>1 DEF SyncIndex, Depth
    <3> QED BY <3>1, <1>6 DEF Stages
  <2>2. CASE calls[c].stage # "cleared"
    <3>1. Leads("synced")
      BY <1>8, <2>2 DEF SyncIndex, Depth
    <3> QED BY <3>1, <1>6 DEF Stages
  <2> QED BY <2>1, <2>2
<1>9. ASSUME InvalidatePage(c) \/ NotifyTeam(c)  PROVE Busy /\ Down
  <2>1. CASE NotifyTeam(c)
    <3>1. Leads("done")
      BY <2>1 DEF NotifyTeam, Depth
    <3> QED BY <3>1, <1>6 DEF Stages
  <2>2. CASE InvalidatePage(c) /\ calls[c].op = "moderate"
    <3>1. Leads("invalidated")
      BY <2>2 DEF InvalidatePage, Depth
    <3> QED BY <3>1, <1>6 DEF Stages
  <2>3. CASE /\ InvalidatePage(c) /\ calls[c].op = "version"
             /\ calls[c].stage = "committed"
    <3>1. Leads("cleared")
      BY <2>3 DEF InvalidatePage, Depth
    <3> QED BY <3>1, <1>6 DEF Stages
  <2>4. CASE /\ InvalidatePage(c) /\ calls[c].op # "moderate"
             /\ ~(calls[c].op = "version" /\ calls[c].stage = "committed")
    <3>1. Leads("done")
      BY <2>4 DEF InvalidatePage, Depth
    <3> QED BY <3>1, <1>6 DEF Stages
  <2> QED BY <1>9, <2>1, <2>2, <2>3, <2>4
<1>10. ASSUME ReadRow(c)  PROVE Busy /\ Down
  <2> DEFINE new == [calls[c] EXCEPT !.seen = row, !.stage = "read"]
  <2>1. /\ calls[c].stage = "missed"
        /\ calls' = [calls EXCEPT ![c] = new] \/ Answer(c, {})
    BY <1>10 DEF ReadRow
  <2>2. new.stage = "read"
    BY <1>1 DEF Call
  <2> HIDE DEF new
  <2>3. StepsLeft(new) < StepsLeft(calls[c])
    BY <2>1, <2>2 DEF StepsLeft, Depth
  <2> QED BY <2>1, <2>3, EndDescends
<1>11. ASSUME FillCache(c) \/ HydrateHits(c)  PROVE Busy /\ Down
  <2>1. calls[c].stage \in {"read", "queried"} /\ \E projects : Answer(c, projects)
    BY <1>11 DEF FillCache, HydrateHits
  <2> QED BY <2>1, EndDescends
<1> QED BY <1>2, <1>3, <1>4, <1>5, <1>6, <1>7, <1>8, <1>9, <1>10, <1>11 DEF Proceed

\* No request runs for ever: whatever it does brings it nearer to its end, of
\* which it begins seven steps away.
THEOREM RequestsRunOut == Spec => RequestsRunDown
<1> DEFINE Down == \A c \in Calls : \/ calls'[c] = calls[c]
                                    \/ StepsLeft(calls'[c]) < StepsLeft(calls[c])
<1>1. ASSUME Inv, Next  PROVE Down
  <2>1. CASE ExpirePage
    BY <2>1 DEF ExpirePage
  <2>2. ASSUME NEW d \in Calls, Begin(d) \/ Proceed(d)  PROVE Down
    <3>1. PICK new : /\ calls' = [calls EXCEPT ![d] = new]
                     /\ StepsLeft(new) < StepsLeft(calls[d])
      BY <1>1, <2>2, BeginDescends, ProceedDescends
    <3>2. calls' = [c \in Calls |-> IF c = d THEN new ELSE calls[c]]
      BY <1>1, <3>1 DEF Inv, CallsSound
    <3> QED BY <3>1, <3>2
  <2> QED BY <1>1, <2>1, <2>2 DEF Next
<1>2. Inv /\ [Next]_vars => [Down]_vars
  BY <1>1
<1> QED BY <1>2, Invariance, PTL DEF Spec, RequestsRunDown

\* Between requests nothing happens but that the page expires.
THEOREM RestExpires == Spec => RestOnlyExpires
<1> DEFINE Rests == Quiet /\ Quiet' => /\ UNCHANGED <<row, docs>>
                                       /\ cache' # cache => ExpirePage
<1>1. ASSUME Inv, Next, Quiet
      PROVE  UNCHANGED <<row, docs>> /\ (cache' # cache => ExpirePage)
  <2>1. CASE ExpirePage
    BY <2>1 DEF ExpirePage, Stores
  <2>2. ASSUME NEW c \in Calls, Begin(c)  PROVE UNCHANGED <<row, docs, cache>>
    BY <1>1, <2>2, BeginDescends
  <2>3. ASSUME NEW c \in Calls, Proceed(c)  PROVE FALSE
    BY <1>1, <2>3, ProceedDescends DEF Quiet
  <2> QED BY <1>1, <2>1, <2>2, <2>3 DEF Next
<1>2. Inv /\ [Next]_vars => [Rests]_vars
  BY <1>1
<1> QED BY <1>2, Invariance, PTL DEF Spec, RestOnlyExpires

==========================================================================
