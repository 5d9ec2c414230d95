---------------------- MODULE ModerationLocksProofs ----------------------
(* Proofs about ModerationLocks, for any set of requests and moderators.  *)
(* The inductive invariant is Inv: it adds what a request in flight may   *)
(* believe about the lock it has read, and which request still owes the   *)
(* deletion of a page that is out of date.                                *)
EXTENDS ModerationLocks, TLAPS

\* What a request knows of the lock "held" when "count" locks were taken.
CallSound(call, held, count) ==
  /\ call \in Call
  /\ call.since <= count
  /\ call.stage \in {"idle", "missed", "read"} => call.op = "view"
  /\ call.stage = "found" /\ call.op = "lock" => call.by \in Moderators
  /\ call.stage = "found" /\ call.op = "release" =>
       held = NoLock \/ held.by = call.by \/ held.term > call.since
  /\ call.stage = "written" => held = NoLock \/ held.term > call.since
  /\ call.stage \in {"reread", "done"} /\ call.op \in {"lock", "release"} =>
       call.seen = NoLock \/ call.seen.term > call.since

StateSound ==
  /\ project \in {"public", "queued", "gone"}
  /\ lock \in Lock \cup {NoLock}
  /\ page \in Page \cup {NoPage}
  /\ terms \in Nat
  /\ lock.term <= terms
  /\ project = "gone" => lock = NoLock

CallsSound ==
  /\ calls \in [Calls -> Call]
  /\ \A c \in Calls : CallSound(calls[c], lock, terms)

\* Some request will delete the page: one that changed the lock, or, since
\* that request fails when the project is gone, the one that deleted it.
Owed ==
  \E c \in Calls :
    \/ calls[c].stage = "reread" /\ (project = "gone" => calls[c].op = "delete")
    \/ calls[c].stage = "written" /\ project # "gone"

Stale(shown) == project = "gone" \/ shown # lock

PagesOwed ==
  /\ page.cached /\ Stale(page.lock) => page.behind \/ Owed
  /\ \A c \in Calls :
       calls[c].stage = "read" /\ Stale(calls[c].seen) => calls[c].behind \/ Owed

Inv == StateSound /\ CallsSound /\ PagesOwed

--------------------------------------------------------------------------
(* Lemmas.                                                                *)

\* The placeholders, and the fields of a lock.
LEMMA DataFacts ==
  /\ NoLock.term = 0 /\ NoLock.by = Nobody
  /\ NoPage.cached = FALSE
  /\ \A held \in Lock \cup {NoLock} : held.term \in Nat
  /\ \A held \in Lock \cup {NoLock} : held.by \in Moderators \cup {Nobody}
BY DEF Lock, NoLock, NoPage

\* A blank request knows nothing that could be wrong.
LEMMA BlankFacts ==
  ASSUME NEW stage \in {"idle", "done", "refused"}, NEW held, NEW count \in Nat
  PROVE CallSound(Blank(stage), held, count)
<1>1. Blank(stage) \in Call
  BY DEF Blank, Call, Stages
<1>2. /\ Blank(stage).stage = stage /\ Blank(stage).op = "view"
      /\ Blank(stage).since = 0
  BY DEF Blank
<1> QED
  BY <1>1, <1>2 DEF CallSound

\* The lock stays, goes, or is taken anew: what the requests know of it
\* stays right.
LockMoves ==
  /\ terms' \in Nat /\ terms <= terms'
  /\ lock' \in Lock \cup {NoLock}
  /\ \/ lock' = lock
     \/ lock' = NoLock
     \/ lock'.term > terms

\* A move of the lock leaves a request that takes no step with what it knows.
LEMMA BystanderSound ==
  ASSUME NEW call, CallSound(call, lock, terms), terms \in Nat, LockMoves
  PROVE CallSound(call, lock', terms')
<1>1. call.since \in Nat /\ call.since <= terms'
  BY DEF CallSound, Call, LockMoves
<1>2. lock'.term > terms => lock'.term > call.since
  <2>1. call.since <= terms /\ lock'.term \in Nat
    BY DataFacts DEF CallSound, LockMoves
  <2> QED
    BY <1>1, <2>1
<1> QED
  BY <1>1, <1>2 DEF CallSound, LockMoves

\* One request moves on with "call".
LEMMA CallsStep ==
  ASSUME CallsSound, terms \in Nat, LockMoves, NEW c \in Calls, NEW call,
         CallSound(call, lock', terms'),
         calls' = [calls EXCEPT ![c] = call]
  PROVE CallsSound'
<1>1. call \in Call
  BY DEF CallSound
<1>2. calls' \in [Calls -> Call] /\ calls'[c] = call
  BY <1>1 DEF CallsSound
<1>3. ASSUME NEW d \in Calls PROVE CallSound(calls'[d], lock', terms')
  <2>1. CASE d = c
    BY <1>2, <2>1
  <2>2. CASE d # c
    <3>1. calls'[d] = calls[d] /\ CallSound(calls[d], lock, terms)
      BY <2>2 DEF CallsSound
    <3> QED
      BY <3>1, BystanderSound
  <2> QED
    BY <2>1, <2>2
<1> QED
  BY <1>2, <1>3 DEF CallsSound

\* A request that moves on between stages that owe nothing, and has read no
\* row, changes nothing about the pages.
LEMMA PagesStep ==
  ASSUME PagesOwed, calls \in [Calls -> Call], NEW c \in Calls, NEW call,
         calls' = [calls EXCEPT ![c] = call],
         UNCHANGED <<project, lock, page>>,
         calls[c].stage # "reread",
         calls[c].stage = "written" => project = "gone" \/ call.stage = "reread",
         call.stage = "read" => ~Stale(call.seen)
  PROVE PagesOwed'
<1>1. calls'[c] = call /\ \A d \in Calls \ {c} : calls'[d] = calls[d]
  OBVIOUS
<1>2. Owed => Owed'
  <2> HAVE Owed
  <2>1. PICK d \in Calls :
          \/ calls[d].stage = "reread" /\ (project = "gone" => calls[d].op = "delete")
          \/ calls[d].stage = "written" /\ project # "gone"
    BY DEF Owed
  <2>2. CASE d = c
    BY <1>1, <2>1, <2>2 DEF Owed
  <2>3. CASE d # c
    BY <1>1, <2>1, <2>3 DEF Owed
  <2> QED
    BY <2>2, <2>3
<1>3. ASSUME NEW d \in Calls, calls'[d].stage = "read",
               project = "gone" \/ calls'[d].seen # lock
      PROVE calls'[d].behind \/ Owed'
  <2>1. d # c
    BY <1>1, <1>3 DEF Stale
  <2> QED
    BY <1>1, <1>2, <1>3, <2>1 DEF PagesOwed, Stale
<1>4. page'.cached /\ Stale(page.lock)' => page'.behind \/ Owed'
  BY <1>2 DEF PagesOwed, Stale
<1> QED
  BY <1>3, <1>4 DEF PagesOwed, Stale

\* A refused request leaves everything as it was.
LEMMA RefuseStep ==
  ASSUME Inv, NEW c \in Calls, Refuse(c), calls[c].stage # "reread",
         calls[c].stage = "written" => project = "gone"
  PROVE Inv'
<1> USE DEF Inv
<1>1. Blank("refused").stage = "refused"
  BY DEF Blank
<1>2. StateSound'
  BY DEF StateSound, Refuse
<1>3. terms \in Nat /\ LockMoves
  BY DEF StateSound, Refuse, LockMoves
<1>4. CallsSound'
  BY <1>3, BlankFacts, CallsStep DEF Refuse, StateSound
<1>5. PagesOwed'
  BY <1>1, PagesStep DEF Refuse, CallsSound
<1> QED
  BY <1>2, <1>4, <1>5

\* A request that only moves on, with "call".
LEMMA MoveStep ==
  ASSUME Inv, NEW c \in Calls, NEW call,
         calls' = [calls EXCEPT ![c] = call],
         UNCHANGED <<project, lock, page, terms>>,
         CallSound(call, lock, terms),
         calls[c].stage # "reread",
         calls[c].stage = "written" => project = "gone" \/ call.stage = "reread",
         call.stage = "read" => ~Stale(call.seen)
  PROVE Inv'
<1> USE DEF Inv
<1>1. StateSound' /\ terms \in Nat /\ LockMoves
  BY DEF StateSound, LockMoves
<1>2. CallsSound'
  BY <1>1, CallsStep
<1>3. PagesOwed'
  BY PagesStep DEF CallsSound
<1> QED
  BY <1>1, <1>2, <1>3

--------------------------------------------------------------------------
(* The invariant.                                                         *)

\* The initial states satisfy the invariant.
LEMMA InvInit == Init => Inv
<1> SUFFICES ASSUME Init PROVE Inv
  OBVIOUS
<1>1. StateSound
  BY DEF Init, StateSound, NoLock
<1>2. \A c \in Calls : CallSound(calls[c], lock, terms)
  BY BlankFacts DEF Init
<1>3. CallsSound
  BY <1>2 DEF Init, CallsSound, CallSound
<1>4. \A c \in Calls : calls[c].stage = "idle"
  BY DEF Init, Blank
<1>5. PagesOwed
  BY <1>4, DataFacts DEF Init, PagesOwed
<1> QED
  BY <1>1, <1>3, <1>5 DEF Inv

\* A lock request finds the project.
LEMMA FindForLockInv ==
  ASSUME Inv, NEW c \in Calls, NEW moderator \in Moderators, FindForLock(c, moderator)
  PROVE Inv'
<1>1. CASE project = "gone"
  BY <1>1, RefuseStep DEF FindForLock
<1>2. CASE project # "gone"
  <2> DEFINE call == [calls[c] EXCEPT !.stage = "found", !.op = "lock", !.by = moderator]
  <2>1. calls[c] \in Call /\ CallSound(calls[c], lock, terms)
    BY DEF Inv, CallsSound
  <2>2. /\ call \in Call /\ call.stage = "found" /\ call.op = "lock"
        /\ call.by = moderator /\ call.since = calls[c].since
    BY <2>1 DEF Call, Stages
  <2>3. CallSound(call, lock, terms)
    BY <2>1, <2>2 DEF CallSound
  <2> HIDE DEF call
  <2>4. calls' = [calls EXCEPT ![c] = call]
    BY <1>2 DEF FindForLock, call
  <2> QED
    BY <1>2, <2>2, <2>3, <2>4, MoveStep DEF FindForLock
<1> QED
  BY <1>1, <1>2

\* A release finds the project and its lock.
LEMMA FindForReleaseInv ==
  ASSUME Inv, NEW c \in Calls, NEW moderator \in Moderators, FindForRelease(c, moderator)
  PROVE Inv'
<1>1. CASE project = "gone" \/ ~MayRelease(moderator, lock)
  BY <1>1, RefuseStep DEF FindForRelease
<1>2. CASE ~(project = "gone" \/ ~MayRelease(moderator, lock))
  <2> DEFINE call == [calls[c] EXCEPT !.stage = "found", !.op = "release",
                        !.by = moderator, !.seen = lock, !.since = terms]
  <2>1. calls[c] \in Call
    BY DEF Inv, CallsSound
  <2>2. /\ call \in Call /\ call.stage = "found" /\ call.op = "release"
        /\ call.since = terms /\ call.by = moderator
    BY <2>1 DEF Call, Stages, Inv, StateSound
  <2>3. CallSound(call, lock, terms)
    BY <1>2, <2>2 DEF CallSound, MayRelease, Inv, StateSound
  <2> HIDE DEF call
  <2>4. calls' = [calls EXCEPT ![c] = call]
    BY <1>2 DEF FindForRelease, call
  <2> QED
    BY <1>2, <2>2, <2>3, <2>4, MoveStep DEF FindForRelease
<1> QED
  BY <1>1, <1>2

\* A deletion finds the project.
LEMMA FindForDeleteInv ==
  ASSUME Inv, NEW c \in Calls, FindForDelete(c)
  PROVE Inv'
<1>1. CASE project = "gone"
  BY <1>1, RefuseStep DEF FindForDelete
<1>2. CASE project # "gone"
  <2> DEFINE call == [calls[c] EXCEPT !.stage = "found", !.op = "delete"]
  <2>1. calls[c] \in Call /\ CallSound(calls[c], lock, terms)
    BY DEF Inv, CallsSound
  <2>2. call \in Call /\ call.stage = "found" /\ call.op = "delete" /\ call.since = calls[c].since
    BY <2>1 DEF Call, Stages
  <2>3. CallSound(call, lock, terms)
    BY <2>1, <2>2 DEF CallSound
  <2> HIDE DEF call
  <2>4. calls' = [calls EXCEPT ![c] = call]
    BY <1>2 DEF FindForDelete, call
  <2> QED
    BY <1>2, <2>2, <2>3, <2>4, MoveStep DEF FindForDelete
<1> QED
  BY <1>1, <1>2

\* While some request has yet to delete the page, nothing else is asked.
LEMMA OwedSuffices ==
  ASSUME Owed' PROVE PagesOwed'
BY DEF PagesOwed

\* The upsert takes the lock.
LEMMA UpsertLockInv ==
  ASSUME Inv, NEW c \in Calls, UpsertLock(c)
  PROVE Inv'
<1>1. CASE project = "gone"
  BY <1>1, RefuseStep DEF UpsertLock
<1>2. CASE project # "gone"
  <2> DEFINE call == [calls[c] EXCEPT !.stage = "written", !.since = terms]
  <2>1. calls[c] \in Call /\ calls[c].by \in Moderators \cup {Nobody} /\ terms \in Nat
    BY DEF Inv, CallsSound, Call, StateSound
  <2>2. call \in Call /\ call.stage = "written" /\ call.since = terms
    BY <2>1 DEF Call, Stages
  <2>3. lock' = [by |-> calls[c].by, term |-> terms + 1] /\ terms' = terms + 1
    BY <1>2 DEF UpsertLock
  <2>4. calls[c].stage = "found" /\ calls[c].op = "lock" /\ calls[c].by \in Moderators
    BY DEF UpsertLock, Inv, CallsSound, CallSound
  <2>5. lock' \in Lock /\ LockMoves
    BY <2>1, <2>3, <2>4 DEF Lock, LockMoves
  <2>6. CallSound(call, lock', terms')
    BY <2>1, <2>2, <2>3 DEF CallSound
  <2> HIDE DEF call
  <2>7. calls' = [calls EXCEPT ![c] = call] /\ UNCHANGED <<project, page>>
    BY <1>2 DEF UpsertLock, call
  <2>8. StateSound'
    BY <1>2, <2>1, <2>3, <2>5, <2>7 DEF Inv, StateSound
  <2>9. CallsSound'
    BY <2>1, <2>5, <2>6, <2>7, CallsStep DEF Inv
  <2>10. Owed'
    BY <1>2, <2>2, <2>7 DEF Owed, Inv, CallsSound
  <2> QED
    BY <2>8, <2>9, <2>10, OwedSuffices DEF Inv
<1> QED
  BY <1>1, <1>2

\* The release deletes whatever lock there is.
LEMMA DeleteLockInv ==
  ASSUME Inv, NEW c \in Calls, DeleteLock(c)
  PROVE Inv'
<1> DEFINE call == [calls[c] EXCEPT !.stage = "written"]
<1>1. calls[c] \in Call /\ CallSound(calls[c], lock, terms) /\ terms \in Nat
  BY DEF Inv, CallsSound, StateSound
<1>2. call \in Call /\ call.stage = "written" /\ call.since = calls[c].since
  BY <1>1 DEF Call, Stages
<1>3. lock' = NoLock /\ LockMoves
  BY <1>1 DEF DeleteLock, LockMoves
<1>4. CallSound(call, lock', terms')
  BY <1>1, <1>2, <1>3 DEF CallSound, DeleteLock
<1> HIDE DEF call
<1>5. calls' = [calls EXCEPT ![c] = call] /\ UNCHANGED <<project, page, terms>>
  BY DEF DeleteLock, call
<1>6. StateSound'
  BY <1>3, <1>5, DataFacts DEF Inv, StateSound
<1>7. CallsSound'
  BY <1>1, <1>3, <1>4, <1>5, CallsStep DEF Inv
<1>8. PagesOwed'
  <2>1. CASE project = "gone"
    <3>1. lock = NoLock
      BY <2>1 DEF Inv, StateSound
    <3>2. calls[c].stage = "found"
      BY DEF DeleteLock
    <3> QED
      BY <1>2, <1>3, <1>5, <3>1, <3>2, PagesStep DEF Inv, CallsSound
  <2>2. CASE project # "gone"
    <3>1. Owed'
      BY <1>2, <1>5, <2>2 DEF Owed, Inv, CallsSound
    <3> QED
      BY <3>1, OwedSuffices
  <2> QED
    BY <2>1, <2>2
<1> QED
  BY <1>6, <1>7, <1>8 DEF Inv

\* Both handlers read the project again.
LEMMA RereadProjectInv ==
  ASSUME Inv, NEW c \in Calls, RereadProject(c)
  PROVE Inv'
<1>1. CASE project = "gone"
  BY <1>1, RefuseStep DEF RereadProject
<1>2. CASE project # "gone"
  <2> DEFINE call == [calls[c] EXCEPT !.stage = "reread", !.seen = lock]
  <2>1. /\ calls[c] \in Call /\ CallSound(calls[c], lock, terms)
        /\ lock \in Lock \cup {NoLock} /\ calls[c].stage = "written"
    BY DEF Inv, CallsSound, StateSound, RereadProject
  <2>2. /\ call \in Call /\ call.stage = "reread" /\ call.seen = lock
        /\ call.since = calls[c].since
    BY <2>1 DEF Call, Stages
  <2>3. CallSound(call, lock, terms)
    BY <2>1, <2>2 DEF CallSound
  <2> HIDE DEF call
  <2>4. calls' = [calls EXCEPT ![c] = call]
    BY <1>2 DEF RereadProject, LockAnswered, call
  <2> QED
    BY <1>2, <2>1, <2>2, <2>3, <2>4, MoveStep DEF RereadProject
<1> QED
  BY <1>1, <1>2

\* The page is deleted from the cache, and the loads under way are behind.
LEMMA InvalidatePageInv ==
  ASSUME Inv, NEW c \in Calls, InvalidatePage(c)
  PROVE Inv'
<1>1. /\ calls \in [Calls -> Call] /\ \A d \in Calls : CallSound(calls[d], lock, terms)
  BY DEF Inv, CallsSound
<1>2. page' = NoPage /\ UNCHANGED <<project, lock, terms>> /\ calls[c].stage = "reread"
  BY DEF InvalidatePage, PageAfterDelete
<1>3. StateSound'
  BY <1>2 DEF Inv, StateSound
<1>4. ASSUME NEW d \in Calls
      PROVE CallSound(calls'[d], lock, terms) /\ (calls'[d].stage = "read" => calls'[d].behind)
  <2>1. CASE d = c
    <3> DEFINE call == [calls[c] EXCEPT !.stage = "done"]
    <3>1. /\ call \in Call /\ call.stage = "done" /\ call.op = calls[c].op
          /\ call.seen = calls[c].seen /\ call.since = calls[c].since
      BY <1>1 DEF Call, Stages
    <3>2. calls'[d] = call
      BY <2>1 DEF InvalidatePage
    <3> HIDE DEF call
    <3>3. CallSound(call, lock, terms)
      BY <1>1, <1>2, <3>1 DEF CallSound
    <3> QED
      BY <3>1, <3>2, <3>3
  <2>2. CASE d # c /\ calls[d].stage = "read"
    <3> DEFINE call == [calls[d] EXCEPT !.behind = TRUE]
    <3>1. /\ call \in Call /\ call.stage = "read" /\ call.op = calls[d].op
          /\ call.since = calls[d].since /\ call.behind
      BY <1>1, <2>2 DEF Call
    <3>2. calls'[d] = call
      BY <2>2 DEF InvalidatePage
    <3> HIDE DEF call
    <3>3. CallSound(call, lock, terms)
      BY <1>1, <2>2, <3>1 DEF CallSound
    <3> QED
      BY <3>1, <3>2, <3>3
  <2>3. CASE d # c /\ calls[d].stage # "read"
    BY <1>1, <2>3 DEF InvalidatePage
  <2> QED
    BY <2>1, <2>2, <2>3
<1>5. calls' \in [Calls -> Call]
  <2>1. \A d \in Calls : calls'[d] \in Call
    BY <1>4 DEF CallSound
  <2> QED
    BY <2>1 DEF InvalidatePage
<1>6. CallsSound'
  BY <1>2, <1>4, <1>5 DEF CallsSound
<1>7. PagesOwed'
  BY <1>2, <1>4, DataFacts DEF PagesOwed
<1> QED
  BY <1>3, <1>6, <1>7 DEF Inv

\* The project goes, with its lock.
LEMMA DeleteProjectInv ==
  ASSUME Inv, NEW c \in Calls, DeleteProject(c)
  PROVE Inv'
<1>1. CASE project = "gone"
  BY <1>1, RefuseStep DEF DeleteProject
<1>2. CASE project # "gone"
  <2> DEFINE call == [calls[c] EXCEPT !.stage = "reread"]
  <2>1. calls[c] \in Call /\ CallSound(calls[c], lock, terms) /\ terms \in Nat
    BY DEF Inv, CallsSound, StateSound
  <2>2. /\ call \in Call /\ call.stage = "reread" /\ call.op = calls[c].op
        /\ call.op = "delete" /\ call.since = calls[c].since
    BY <2>1 DEF Call, Stages, DeleteProject
  <2>3. lock' = NoLock /\ project' = "gone" /\ UNCHANGED <<page, terms>>
    BY <1>2 DEF DeleteProject, LockCascaded
  <2>4. LockMoves /\ CallSound(call, lock', terms')
    BY <2>1, <2>2, <2>3 DEF CallSound, LockMoves
  <2> HIDE DEF call
  <2>5. calls' = [calls EXCEPT ![c] = call]
    BY <1>2 DEF DeleteProject, call
  <2>6. StateSound'
    BY <2>3, DataFacts DEF Inv, StateSound
  <2>7. CallsSound'
    BY <2>1, <2>4, <2>5, CallsStep DEF Inv
  <2>8. Owed'
    BY <2>2, <2>5 DEF Owed, Inv, CallsSound
  <2> QED
    BY <2>6, <2>7, <2>8, OwedSuffices DEF Inv
<1> QED
  BY <1>1, <1>2

\* A page load looks into the cache.
LEMMA ReadCacheInv ==
  ASSUME Inv, NEW c \in Calls, ReadCache(c)
  PROVE Inv'
<1>1. /\ calls[c] \in Call /\ CallSound(calls[c], lock, terms)
      /\ calls[c].stage = "idle" /\ calls[c].op = "view"
      /\ UNCHANGED <<project, lock, page, terms>>
  BY DEF Inv, CallsSound, CallSound, ReadCache
<1>2. CASE page.cached
  <2> DEFINE call == [calls[c] EXCEPT !.stage = "done", !.seen = page.lock]
  <2>1. page.lock \in Lock \cup {NoLock}
    <3>1. page \in Page
      BY <1>2, DataFacts DEF Inv, StateSound
    <3> QED
      BY <3>1 DEF Page
  <2>2. /\ call \in Call /\ call.stage = "done" /\ call.op = "view"
        /\ call.since = calls[c].since
    BY <1>1, <2>1 DEF Call, Stages
  <2>3. CallSound(call, lock, terms)
    BY <1>1, <2>2 DEF CallSound
  <2> HIDE DEF call
  <2>4. calls' = [calls EXCEPT ![c] = call]
    BY <1>2 DEF ReadCache, call
  <2> QED
    BY <1>1, <2>2, <2>3, <2>4, MoveStep
<1>3. CASE ~page.cached
  <2> DEFINE call == [calls[c] EXCEPT !.stage = "missed"]
  <2>1. /\ call \in Call /\ call.stage = "missed" /\ call.op = "view"
        /\ call.since = calls[c].since
    BY <1>1 DEF Call, Stages
  <2>2. CallSound(call, lock, terms)
    BY <1>1, <2>1 DEF CallSound
  <2> HIDE DEF call
  <2>3. calls' = [calls EXCEPT ![c] = call]
    BY <1>3 DEF ReadCache, call
  <2> QED
    BY <1>1, <2>1, <2>2, <2>3, MoveStep
<1> QED
  BY <1>2, <1>3

\* A page load reads the row as it is.
LEMMA ReadRowInv ==
  ASSUME Inv, NEW c \in Calls, ReadRow(c)
  PROVE Inv'
<1>1. CASE project # "public"
  BY <1>1, RefuseStep DEF ReadRow
<1>2. CASE project = "public"
  <2> DEFINE call == [calls[c] EXCEPT !.stage = "read", !.seen = lock]
  <2>1. /\ calls[c] \in Call /\ CallSound(calls[c], lock, terms)
        /\ calls[c].stage = "missed" /\ lock \in Lock \cup {NoLock}
    BY DEF Inv, CallsSound, StateSound, ReadRow
  <2>2. /\ call \in Call /\ call.stage = "read" /\ call.seen = lock
        /\ call.op = calls[c].op /\ call.since = calls[c].since
    BY <2>1 DEF Call, Stages
  <2>3. CallSound(call, lock, terms)
    BY <2>1, <2>2 DEF CallSound
  <2>4. ~Stale(call.seen)
    BY <1>2, <2>2 DEF Stale
  <2> HIDE DEF call
  <2>5. calls' = [calls EXCEPT ![c] = call] /\ UNCHANGED <<project, lock, page, terms>>
    BY <1>2 DEF ReadRow, call
  <2> QED
    BY <2>1, <2>2, <2>3, <2>4, <2>5, MoveStep
<1> QED
  BY <1>1, <1>2

\* A page load stores what it has read.
LEMMA FillCacheInv ==
  ASSUME Inv, NEW c \in Calls, FillCache(c)
  PROVE Inv'
<1> DEFINE call == [calls[c] EXCEPT !.stage = "done"]
<1>1. /\ calls[c] \in Call /\ CallSound(calls[c], lock, terms) /\ terms \in Nat
      /\ calls[c].stage = "read" /\ calls[c].op = "view"
  BY DEF Inv, CallsSound, CallSound, StateSound, FillCache
<1>2. /\ call \in Call /\ call.stage = "done" /\ call.op = "view"
      /\ call.since = calls[c].since
  BY <1>1 DEF Call, Stages
<1>3. CallSound(call, lock, terms)
  BY <1>1, <1>2 DEF CallSound
<1> HIDE DEF call
<1>4. calls' = [calls EXCEPT ![c] = call] /\ UNCHANGED <<project, lock, terms>>
  BY DEF FillCache, call
<1>5. page' = [cached |-> TRUE, lock |-> calls[c].seen, behind |-> calls[c].behind]
  BY DEF FillCache
<1>6. page' \in Page
  BY <1>1, <1>5 DEF Page, Call
<1>7. StateSound'
  BY <1>4, <1>6 DEF Inv, StateSound
<1>8. CallsSound'
  <2>1. LockMoves
    BY <1>1, <1>4 DEF LockMoves, Inv, StateSound
  <2> QED
    BY <1>1, <1>3, <1>4, <2>1, CallsStep DEF Inv
<1>9. calls'[c] = call /\ \A d \in Calls \ {c} : calls'[d] = calls[d]
  BY <1>4 DEF Inv, CallsSound
<1>10. Owed => Owed'
  <2>1. \A d \in Calls : calls[d].stage \in {"written", "reread"} => d # c
    BY <1>1
  <2> QED
    BY <1>4, <1>9, <2>1 DEF Owed
<1>11. PagesOwed'
  <2>1. project = "gone" \/ calls[c].seen # lock => calls[c].behind \/ Owed
    BY <1>1 DEF Inv, PagesOwed, Stale
  <2>2. page'.cached /\ (project' = "gone" \/ page'.lock # lock') => page'.behind \/ Owed'
    BY <1>4, <1>5, <1>10, <2>1
  <2>3. ASSUME NEW d \in Calls, calls'[d].stage = "read",
               project = "gone" \/ calls'[d].seen # lock
        PROVE calls'[d].behind \/ Owed'
    <3>1. d # c
      BY <1>2, <1>9, <2>3
    <3> QED
      BY <1>9, <1>10, <2>3, <3>1 DEF Inv, PagesOwed, Stale
  <2> QED
    BY <1>4, <2>2, <2>3 DEF PagesOwed, Stale
<1> QED
  BY <1>7, <1>8, <1>11 DEF Inv

\* Steps that change no request and no lock, with no page or the same page.
LEMMA PageGone ==
  ASSUME Inv, UNCHANGED <<project, lock, calls, terms>>, page' \in {page, NoPage}
  PROVE Inv'
<1>1. StateSound' /\ CallsSound'
  BY DEF Inv, StateSound, CallsSound
<1>2. Owed <=> Owed'
  BY DEF Owed
<1>3. PagesOwed'
  BY <1>2, DataFacts DEF Inv, PagesOwed, Stale
<1> QED
  BY <1>1, <1>3 DEF Inv

\* Every step preserves the invariant.
LEMMA InvNext == Inv /\ [Next]_vars => Inv'
<1> SUFFICES ASSUME Inv, [Next]_vars PROVE Inv'
  OBVIOUS
<1>1. ASSUME NEW c \in Calls, Handle(c) PROVE Inv'
  BY <1>1, FindForLockInv, FindForReleaseInv, UpsertLockInv, DeleteLockInv,
     RereadProjectInv, InvalidatePageInv, FindForDeleteInv, DeleteProjectInv,
     ReadCacheInv, ReadRowInv, FillCacheInv DEF Handle
<1>2. CASE ExpirePage
  BY <1>2, PageGone DEF ExpirePage
<1>3. CASE UNCHANGED vars
  BY <1>3, PageGone DEF vars
<1> QED
  BY <1>1, <1>2, <1>3 DEF Next

--------------------------------------------------------------------------
(* The theorems.                                                          *)

\* The invariant holds in every reachable state.
THEOREM Invariance == Spec => []Inv
BY InvInit, InvNext, PTL DEF Spec

\* The rows and requests keep their shape, and no lock outlives its project.
THEOREM TypeCorrect == Spec => []TypeOK
<1>1. Inv => TypeOK
  BY DEF Inv, StateSound, CallsSound, TypeOK
<1> QED
  BY <1>1, Invariance, PTL

\* No moderator is answered with a lock older than the request's own step,
\* whoever else locks and releases meanwhile.
THEOREM AnswersCurrent == Spec => []AnswersAfterWrite
<1>1. Inv => AnswersAfterWrite
  BY DEF Inv, CallsSound, CallSound, AnswersAfterWrite
<1> QED
  BY <1>1, Invariance, PTL

\* A cached page that shows the lock wrongly is either about to be deleted
\* or was stored by a load that a deletion overtook.
THEOREM StalePagesAccountedFor == Spec => []StalePageOwed
<1>1. Inv => StalePageOwed
  BY DEF Inv, PagesOwed, Owed, Stale, StalePageOwed
<1> QED
  BY <1>1, Invariance, PTL

\* A release takes no lock that was another moderator's when it was asked.
THEOREM OthersLocksSpared == Spec => OthersLocksStay
<1> DEFINE Spared ==
      Removed => \E c \in Calls :
        Writing(c) /\ (lock.by = calls[c].by \/ lock.term > calls[c].since)
<1>1. Inv /\ [Next]_vars => [Spared]_vars
  <2> SUFFICES ASSUME Inv, Next, Removed PROVE Spared
    BY DEF vars, Spared
  <2>1. lock' # lock
    BY DEF Removed
  <2>2. PICK c \in Calls : Handle(c)
    BY <2>1 DEF Next, ExpirePage
  <2>3. DeleteLock(c)
    <3>1. ~UpsertLock(c)
      <4> SUFFICES ASSUME UpsertLock(c) PROVE FALSE
        OBVIOUS
      <4>1. lock' = [by |-> calls[c].by, term |-> terms + 1]
        BY <2>1 DEF UpsertLock, Refuse
      <4>2. lock'.term # 0
        BY <4>1 DEF Inv, StateSound
      <4> QED
        BY <4>2, DataFacts DEF Removed
    <3>2. ~DeleteProject(c)
      BY <2>1 DEF DeleteProject, Refuse, Removed
    <3> QED
      BY <2>1, <2>2, <3>1, <3>2 DEF Handle, FindForLock, FindForRelease, RereadProject,
        InvalidatePage, FindForDelete, ReadCache, ReadRow, FillCache, Refuse
  <2>4. Writing(c)
    BY <2>3 DEF Writing, DeleteLock, Inv, CallsSound, Call
  <2>5. lock.by = calls[c].by \/ lock.term > calls[c].since
    BY <2>3 DEF DeleteLock, Removed, Inv, CallsSound, CallSound
  <2> QED
    BY <2>4, <2>5 DEF Spared
<1> QED
  BY <1>1, Invariance, PTL DEF Spec, OthersLocksStay
==========================================================================
