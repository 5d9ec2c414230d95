-------------------------- MODULE PeopleProofs ---------------------------
(* Proofs about what users have with each other: Friendships, for any set *)
(* of users, requests and rows, and then DirectThreads, for any people,   *)
(* requests, threads and times.  The two are extended together and share  *)
(* no variable.                                                           *)
(*                                                                        *)
(* The inductive invariant of Friendships is Inv.  It adds what a request *)
(* knows of the row it has found: the row is of its own two users for as  *)
(* long as it exists, and, while no two requests of a pair have           *)
(* overlapped, it is as the lookup saw it.  That of DirectThreads is      *)
(* ThreadsInv: every read mark is owned by the request that stored it,    *)
(* and, while no two first messages raced, whoever creates a thread is    *)
(* alone.                                                                 *)
EXTENDS Friendships, DirectThreads, TLAPS

\* Each existing row is between two different users, was asked for by its
\* requester when it is pending, and by both when it is accepted.
RowSound(id) ==
  Exists(id) =>
    /\ id \in usedIds
    /\ rows[id].requester # rows[id].addressee
    /\ ~Taken(id, rows[id].requester, rows[id].addressee)
    /\ consents[id] \subseteq Pair(id)
    /\ rows[id].state = "PENDING" => rows[id].requester \in consents[id]
    /\ rows[id].state = "ACCEPTED" => consents[id] = Pair(id)

TablesSound ==
  /\ rows \in [RowIds -> Row \cup {NoRow}]
  /\ usedIds \in SUBSET RowIds
  /\ consents \in [RowIds -> SUBSET Users]
  /\ raced \in BOOLEAN
  /\ \A id \in RowIds : RowSound(id)

\* What a request knows: who it is about, and whose row it has found.
CallSound(c) ==
  /\ calls[c] \in Call
  /\ calls[c].stage \in {"looking", "found", "absent"} =>
       calls[c].viewer \in Users /\ calls[c].target \in Users /\ calls[c].op \in Ops
  /\ calls[c].stage = "looking" /\ calls[c].op \in {"send", "block"} =>
       calls[c].viewer # calls[c].target
  /\ calls[c].stage = "absent" =>
       calls[c].viewer # calls[c].target /\ calls[c].op \in {"send", "block"}
  /\ calls[c].stage = "found" =>
       /\ calls[c].id \in usedIds
       /\ calls[c].op \in {"accept", "remove", "block"}
       /\ calls[c].viewer # calls[c].target
       /\ Exists(calls[c].id) => Pair(calls[c].id) = {calls[c].viewer, calls[c].target}
       /\ calls[c].op = "accept" => calls[c].target \in consents[calls[c].id]

CallsSound ==
  /\ calls \in [Calls -> Call]
  /\ \A c \in Calls : CallSound(c)

\* While no two requests of a pair have overlapped.
Serial ==
  /\ \A id, other \in RowIds :
       Exists(id) /\ Exists(other) /\ Pair(id) = Pair(other) => id = other
  /\ \A c \in Calls :
       /\ calls[c].stage = "absent" => RowsOf(calls[c].viewer, calls[c].target) = {}
       /\ calls[c].stage = "found" =>
            /\ Exists(calls[c].id)
            /\ calls[c].op = "accept" => rows[calls[c].id].state = "PENDING"

Inv == TablesSound /\ CallsSound /\ (~raced => Serial)

--------------------------------------------------------------------------
(* Lemmas.                                                                *)

\* The placeholder is not a row, and a row is one of the table.
LEMMA RowFacts ==
  /\ NoRow \notin Row
  /\ NoRow.requester = Nobody /\ NoRow.addressee = Nobody /\ NoRow.state = "null"
  /\ \A row \in Row : row.requester \in Users /\ row.addressee \in Users
                        /\ row.state \in States
<1>1. NoRow.requester = Nobody /\ NoRow.addressee = Nobody /\ NoRow.state = "null"
  BY DEF NoRow
<1>2. \A row \in Row : row.requester \in Users /\ row.addressee \in Users
                         /\ row.state \in States
  BY DEF Row
<1> QED
  BY <1>1, <1>2, NobodyAssumption

\* What a lookup can find.
LEMMA LookupFacts ==
  ASSUME TablesSound, NEW viewer \in Users, NEW target \in Users
  PROVE /\ \A id \in RowsOf(viewer, target) :
             id \in RowIds /\ Exists(id) /\ Pair(id) = {viewer, target}
                /\ id \in usedIds /\ viewer # target
        /\ \A id \in Incoming(viewer, target) :
             /\ id \in RowsOf(viewer, target)
             /\ rows[id].state = "PENDING"
             /\ target \in consents[id]
<1>1. ASSUME NEW id \in RowsOf(viewer, target)
      PROVE id \in RowIds /\ Exists(id) /\ Pair(id) = {viewer, target}
              /\ id \in usedIds /\ viewer # target
  <2>1. id \in RowIds /\ Exists(id) /\ Pair(id) = {viewer, target}
    BY DEF RowsOf
  <2> QED
    BY <2>1 DEF TablesSound, RowSound, Pair
<1>2. ASSUME NEW id \in Incoming(viewer, target)
      PROVE /\ id \in RowsOf(viewer, target)
            /\ rows[id].state = "PENDING"
            /\ target \in consents[id]
  <2>1. /\ id \in RowIds /\ rows[id].requester = target
        /\ rows[id].addressee = viewer /\ rows[id].state = "PENDING"
    BY DEF Incoming
  <2>2. Exists(id) /\ Pair(id) = {viewer, target}
    BY <2>1, RowFacts DEF Exists, Pair
  <2> QED
    BY <2>1, <2>2 DEF RowsOf, TablesSound, RowSound
<1> QED
  BY <1>1, <1>2

\* A request that moves on without writing leaves what the others know.
LEMMA MoveStep ==
  ASSUME Inv, NEW c \in Calls, NEW call,
         calls' = [calls EXCEPT ![c] = call],
         UNCHANGED <<rows, usedIds, consents, raced>>,
         CallSound(c)',
         call.stage = "absent" => RowsOf(call.viewer, call.target) = {},
         call.stage = "found" => Exists(call.id),
         call.stage = "found" /\ call.op = "accept" => rows[call.id].state = "PENDING"
  PROVE Inv'
<1>1. calls \in [Calls -> Call] /\ calls'[c] = call
  BY DEF Inv, CallsSound
<1>2. \A d \in Calls \ {c} : calls'[d] = calls[d]
  BY <1>1
<1>3. TablesSound'
  BY DEF Inv, TablesSound, RowSound, Exists, Taken, Pair
<1>4. CallsSound'
  <2>1. ASSUME NEW d \in Calls PROVE CallSound(d)'
    <3>1. CASE d = c
      BY <3>1
    <3>2. CASE d # c
      BY <1>2, <3>2 DEF Inv, CallsSound, CallSound, Exists, Pair
    <3> QED
      BY <3>1, <3>2
  <2>2. calls' \in [Calls -> Call]
    BY <1>1 DEF CallSound
  <2> QED
    BY <2>1, <2>2 DEF CallsSound
<1>5. ~raced => Serial'
  <2> SUFFICES ASSUME Serial PROVE Serial'
    BY DEF Inv
  <2>1. ASSUME NEW id \in RowIds, NEW other \in RowIds,
               Exists(id)', Exists(other)', Pair(id)' = Pair(other)'
        PROVE id = other
    BY <2>1 DEF Serial, Exists, Pair
  <2>2. ASSUME NEW d \in Calls
        PROVE /\ calls'[d].stage = "absent" => RowsOf(calls'[d].viewer, calls'[d].target) = {}
              /\ calls'[d].stage = "found" =>
                   /\ Exists(calls'[d].id)
                   /\ calls'[d].op = "accept" => rows[calls'[d].id].state = "PENDING"
    <3>1. CASE d = c
      BY <1>1, <3>1
    <3>2. CASE d # c
      BY <1>2, <3>2 DEF Serial
    <3> QED
      BY <3>1, <3>2
  <2> QED
    BY <2>1, <2>2 DEF Serial, Exists, RowsOf, Pair
<1> QED
  BY <1>3, <1>4, <1>5 DEF Inv

\* A request that ends knows nothing that could be wrong.
LEMMA FinishStep ==
  ASSUME Inv, NEW c \in Calls, NEW stage \in {"done", "refused"},
         Advance(c, stage, NoId), UNCHANGED <<rows, usedIds, consents, raced>>
  PROVE Inv'
<1> DEFINE call == [calls[c] EXCEPT !.stage = stage, !.id = NoId]
<1>1. calls[c] \in Call
  BY DEF Inv, CallsSound
<1>2. call \in Call /\ call.stage = stage
  BY <1>1 DEF Call
<1> HIDE DEF call
<1>3. calls' = [calls EXCEPT ![c] = call] /\ calls'[c] = call
  BY DEF Advance, call, Inv, CallsSound
<1>4. CallSound(c)'
  BY <1>2, <1>3 DEF CallSound
<1> QED
  BY <1>2, <1>3, <1>4, MoveStep

--------------------------------------------------------------------------
(* The lookups.                                                           *)

\* The initial states satisfy the invariant.
LEMMA InvInit == Init => Inv
<1> SUFFICES ASSUME Init PROVE Inv
  OBVIOUS
<1>1. \A id \in RowIds : ~Exists(id)
  BY DEF Init, Exists
<1>2. Blank \in Call /\ Blank.stage = "idle"
  BY DEF Blank, Call
<1>3. calls \in [Calls -> Call] /\ \A c \in Calls : calls[c] = Blank
  BY <1>2 DEF Init
<1>4. TablesSound
  BY <1>1 DEF Init, TablesSound, RowSound
<1>5. CallsSound
  BY <1>2, <1>3 DEF CallsSound, CallSound
<1>6. Serial
  BY <1>1, <1>2, <1>3 DEF Serial
<1> QED
  BY <1>4, <1>5, <1>6 DEF Inv

\* A request arrives.
LEMMA StartInv ==
  ASSUME Inv, NEW c \in Calls, NEW op \in Ops, NEW viewer \in Users,
         NEW target \in Users, Start(c, op, viewer, target)
  PROVE Inv'
<1> DEFINE stage == IF viewer = target /\ op \in {"send", "block"}
                    THEN "refused" ELSE "looking"
           call == [calls[c] EXCEPT !.op = op, !.viewer = viewer,
                                    !.target = target, !.stage = stage]
<1>1. calls[c] \in Call
  BY DEF Inv, CallsSound
<1>2. /\ call \in Call /\ call.stage \in {"refused", "looking"}
      /\ call.op = op /\ call.viewer = viewer /\ call.target = target
      /\ viewer = target => op \notin {"send", "block"} \/ call.stage = "refused"
  BY <1>1 DEF Call
<1> HIDE DEF call
<1>3. calls' = [calls EXCEPT ![c] = call] /\ calls'[c] = call
  BY DEF Start, call, Inv, CallsSound
<1>4. CallSound(c)'
  BY <1>2, <1>3 DEF CallSound
<1> QED
  BY <1>2, <1>3, <1>4, MoveStep DEF Start

\* A lookup that finds a row of the pair.
LEMMA FoundStep ==
  ASSUME Inv, NEW c \in Calls, calls[c].stage = "looking",
         NEW id \in RowsOf(calls[c].viewer, calls[c].target),
         calls[c].op \in {"accept", "remove", "block"},
         calls[c].op = "accept" => id \in Incoming(calls[c].viewer, calls[c].target),
         Advance(c, "found", id), UNCHANGED <<rows, usedIds, consents, raced>>
  PROVE Inv'
<1> DEFINE call == [calls[c] EXCEPT !.stage = "found", !.id = id]
<1>1. /\ calls[c] \in Call /\ calls[c].viewer \in Users /\ calls[c].target \in Users
  BY DEF Inv, CallsSound, CallSound
<1>2. /\ id \in RowIds /\ Exists(id) /\ id \in usedIds
      /\ Pair(id) = {calls[c].viewer, calls[c].target}
      /\ calls[c].viewer # calls[c].target
      /\ calls[c].op = "accept" =>
           rows[id].state = "PENDING" /\ calls[c].target \in consents[id]
  BY <1>1, LookupFacts DEF Inv
<1>3. /\ call \in Call /\ call.stage = "found" /\ call.id = id /\ call.op = calls[c].op
      /\ call.viewer = calls[c].viewer /\ call.target = calls[c].target
  BY <1>1, <1>2 DEF Call
<1> HIDE DEF call
<1>4. calls' = [calls EXCEPT ![c] = call] /\ calls'[c] = call
  BY DEF Advance, call, Inv, CallsSound
<1>5. Exists(id)' /\ Pair(id)' = Pair(id) /\ consents'[id] = consents[id] /\ id \in usedIds'
  BY <1>2 DEF Exists, Pair
<1>6. CallSound(c)'
  BY <1>1, <1>2, <1>3, <1>4, <1>5 DEF CallSound, Ops
<1> QED
  BY <1>2, <1>3, <1>4, <1>6, MoveStep

\* A lookup that finds no row.
LEMMA AbsentStep ==
  ASSUME Inv, NEW c \in Calls, calls[c].stage = "looking",
         calls[c].op \in {"send", "block"}, calls[c].viewer # calls[c].target,
         RowsOf(calls[c].viewer, calls[c].target) = {},
         Advance(c, "absent", NoId), UNCHANGED <<rows, usedIds, consents, raced>>
  PROVE Inv'
<1> DEFINE call == [calls[c] EXCEPT !.stage = "absent", !.id = NoId]
<1>1. /\ calls[c] \in Call /\ calls[c].viewer \in Users /\ calls[c].target \in Users
  BY DEF Inv, CallsSound, CallSound
<1>2. /\ call \in Call /\ call.stage = "absent" /\ call.op = calls[c].op
      /\ call.viewer = calls[c].viewer /\ call.target = calls[c].target
  BY <1>1 DEF Call
<1> HIDE DEF call
<1>3. calls' = [calls EXCEPT ![c] = call] /\ calls'[c] = call
  BY DEF Advance, call, Inv, CallsSound
<1>4. CallSound(c)'
  BY <1>1, <1>2, <1>3 DEF CallSound, Ops
<1> QED
  BY <1>2, <1>3, <1>4, MoveStep

\* sendFriendRequest.
LEMMA FindForSendInv ==
  ASSUME Inv, NEW c \in Calls, FindForSend(c)
  PROVE Inv'
<1>1. /\ calls[c] \in Call /\ CallSound(c)
      /\ calls[c].stage = "looking" /\ calls[c].op = "send"
      /\ UNCHANGED <<rows, usedIds, consents, raced>>
  BY DEF Inv, CallsSound, FindForSend
<1>2. calls[c].viewer # calls[c].target
  BY <1>1 DEF CallSound
<1>3. CASE RowsOf(calls[c].viewer, calls[c].target) = {} /\ Advance(c, "absent", NoId)
  BY <1>1, <1>2, <1>3, AbsentStep
<1>4. CASE calls' = [calls EXCEPT ![c] = [calls[c] EXCEPT !.op = "accept"]]
  <2> DEFINE call == [calls[c] EXCEPT !.op = "accept"]
  <2>1. /\ call \in Call /\ call.stage = "looking" /\ call.op = "accept"
        /\ call.viewer = calls[c].viewer /\ call.target = calls[c].target
    BY <1>1 DEF Call, Ops
  <2> HIDE DEF call
  <2>2. calls' = [calls EXCEPT ![c] = call] /\ calls'[c] = call
    BY <1>4 DEF call, Inv, CallsSound
  <2>3. CallSound(c)'
    BY <1>1, <2>1, <2>2 DEF CallSound, Ops
  <2> QED
    BY <1>1, <2>1, <2>2, <2>3, MoveStep
<1>5. CASE Advance(c, "done", NoId)
  BY <1>1, <1>5, FinishStep
<1> QED
  BY <1>3, <1>4, <1>5 DEF FindForSend, Between

\* acceptFriendRequest.
LEMMA FindForAcceptInv ==
  ASSUME Inv, NEW c \in Calls, FindForAccept(c)
  PROVE Inv'
<1>1. calls[c].stage = "looking" /\ calls[c].op = "accept" /\ CallSound(c)
  BY DEF FindForAccept, Inv, CallsSound
<1>2. CASE Finish(c, "refused")
  BY <1>2, FinishStep DEF Finish
<1>3. ASSUME NEW id \in Incoming(calls[c].viewer, calls[c].target),
             Advance(c, "found", id), UNCHANGED <<rows, usedIds, consents, raced>>
      PROVE Inv'
  <2>1. id \in RowsOf(calls[c].viewer, calls[c].target)
    BY <1>1, <1>3, LookupFacts DEF CallSound, Inv
  <2> QED
    BY <1>1, <1>3, <2>1, FoundStep
<1> QED
  BY <1>2, <1>3 DEF FindForAccept

\* removeFriend and blockUser.
LEMMA FindBetweenInv ==
  ASSUME Inv, NEW c \in Calls, FindBetween(c)
  PROVE Inv'
<1>1. /\ calls[c].stage = "looking" /\ calls[c].op \in {"remove", "block"} /\ CallSound(c)
      /\ UNCHANGED <<rows, usedIds, consents, raced>>
  BY DEF FindBetween, Inv, CallsSound
<1>2. CASE RowsOf(calls[c].viewer, calls[c].target) = {} /\ calls[c].op = "block"
           /\ Advance(c, "absent", NoId)
  BY <1>1, <1>2, AbsentStep DEF CallSound
<1>3. CASE Advance(c, "done", NoId)
  BY <1>1, <1>3, FinishStep
<1>4. ASSUME NEW id \in RowsOf(calls[c].viewer, calls[c].target), Advance(c, "found", id)
      PROVE Inv'
  BY <1>1, <1>4, FoundStep
<1> QED
  BY <1>1, <1>2, <1>3, <1>4 DEF FindBetween, Between

--------------------------------------------------------------------------
(* The writes.                                                            *)

\* A write of one row of the pair "pair", which ends its request.
LEMMA WriteStep ==
  ASSUME Inv, NEW c \in Calls, NEW id \in RowIds, NEW new, NEW pair,
         pair = {calls[c].viewer, calls[c].target},
         rows' = [rows EXCEPT ![id] = new],
         new # NoRow => {new.requester, new.addressee} = pair,
         \A other \in RowIds \ {id} : consents'[other] = consents[other],
         id \in usedIds =>
           Exists(id) /\ Pair(id) = pair /\ consents[id] \subseteq consents'[id],
         usedIds \subseteq usedIds', TablesSound',
         ~raced => \A other \in RowIds \ {id} : Exists(other) => Pair(other) # pair,
         raced' = (raced \/ Underway(c)), Advance(c, "done", NoId)
  PROVE Inv'
<1> DEFINE call == [calls[c] EXCEPT !.stage = "done", !.id = NoId]
<1>1. calls \in [Calls -> Call] /\ call \in Call /\ call.stage = "done"
  BY DEF Inv, CallsSound, Call
<1> HIDE DEF call
<1>2. /\ calls' \in [Calls -> Call] /\ calls'[c] = call
      /\ \A d \in Calls \ {c} : calls'[d] = calls[d]
  <2>1. calls' = [calls EXCEPT ![c] = call]
    BY DEF Advance, call
  <2> QED
    BY <1>1, <2>1
<1>3. /\ rows'[id] = new
      /\ \A other \in RowIds \ {id} :
           rows'[other] = rows[other] /\ (Exists(other)' <=> Exists(other))
             /\ Pair(other)' = Pair(other)
  BY DEF Inv, TablesSound, Exists, Pair
<1>4. Exists(id)' => Pair(id)' = pair
  BY <1>3 DEF Exists, Pair
<1>5. ASSUME NEW d \in Calls PROVE CallSound(d)'
  <2>1. CASE d = c
    BY <1>1, <1>2, <2>1 DEF CallSound
  <2>2. CASE d # c
    <3>1. calls'[d] = calls[d] /\ CallSound(d)
      BY <1>2, <2>2 DEF Inv, CallsSound
    <3>2. CASE calls[d].stage = "found" /\ calls[d].id = id
      BY <1>4, <3>1, <3>2 DEF CallSound
    <3>3. CASE calls[d].stage = "found" /\ calls[d].id # id
      <4>1. calls[d].id \in RowIds \ {id}
        BY <3>1, <3>3 DEF CallSound, Inv, TablesSound
      <4> QED
        BY <1>3, <3>1, <3>3, <4>1 DEF CallSound
    <3>4. CASE calls[d].stage # "found"
      BY <3>1, <3>4 DEF CallSound
    <3> QED
      BY <3>2, <3>3, <3>4
  <2> QED
    BY <2>1, <2>2
<1>6. ~raced' => Serial'
  <2> SUFFICES ASSUME ~raced, ~Underway(c) PROVE Serial'
    OBVIOUS
  <2> USE DEF Inv
  <2>1. ASSUME NEW x \in RowIds, NEW y \in RowIds, Exists(x)', Exists(y)', Pair(x)' = Pair(y)'
        PROVE x = y
    BY <1>3, <1>4, <2>1 DEF Serial
  <2>2. ASSUME NEW d \in Calls, calls'[d].stage = "absent"
        PROVE \A x \in RowIds :
                Exists(x)' => Pair(x)' # {calls'[d].viewer, calls'[d].target}
    <3>1. d # c /\ calls'[d] = calls[d]
      BY <1>1, <1>2, <2>2
    <3>2. {calls[d].viewer, calls[d].target} # pair
      BY <2>2, <3>1 DEF Underway
    <3>3. \A x \in RowIds : Exists(x)' => Pair(x)' # {calls[d].viewer, calls[d].target}
      BY <1>3, <1>4, <2>2, <3>1, <3>2 DEF Serial, RowsOf
    <3> QED
      BY <3>1, <3>3
  <2>3. ASSUME NEW d \in Calls, calls'[d].stage = "found"
        PROVE /\ rows'[calls'[d].id] # NoRow
              /\ calls'[d].op = "accept" => rows'[calls'[d].id].state = "PENDING"
    <3>1. d # c /\ calls'[d] = calls[d] /\ CallSound(d)
      BY <1>1, <1>2, <2>3 DEF CallsSound
    <3>2. {calls[d].viewer, calls[d].target} # pair
      BY <2>3, <3>1 DEF Underway
    <3>3. Exists(calls[d].id) /\ calls[d].id \in usedIds /\ calls[d].id \in RowIds
      BY <2>3, <3>1 DEF Serial, CallSound, TablesSound
    <3>4. calls[d].id # id
      BY <2>3, <3>1, <3>2, <3>3 DEF CallSound
    <3> QED
      BY <1>3, <2>3, <3>1, <3>3, <3>4 DEF Serial, Exists
  <2>4. \A d \in Calls : calls'[d].stage = "absent" =>
          {x \in RowIds : Exists(x)' /\ Pair(x)' = {calls'[d].viewer, calls'[d].target}} = {}
    BY <2>2
  <2> QED
    BY <2>1, <2>3, <2>4 DEF Serial, RowsOf, Exists
<1> QED
  BY <1>2, <1>5, <1>6 DEF Inv, CallsSound

\* One row changes; the table stays sound if that row is, and takes no key
\* of another one.
LEMMA TableStep ==
  ASSUME TablesSound, NEW id \in RowIds, NEW new \in Row \cup {NoRow},
         NEW agreed \in SUBSET Users,
         rows' = [rows EXCEPT ![id] = new],
         consents' = [consents EXCEPT ![id] = agreed],
         usedIds' \in SUBSET RowIds, usedIds \subseteq usedIds', raced' \in BOOLEAN,
         new # NoRow =>
           /\ id \in usedIds'
           /\ new.requester # new.addressee
           /\ ~Taken(id, new.requester, new.addressee)
           /\ agreed \subseteq {new.requester, new.addressee}
           /\ new.state = "PENDING" => new.requester \in agreed
           /\ new.state = "ACCEPTED" => agreed = {new.requester, new.addressee}
  PROVE TablesSound'
<1>1. /\ rows' \in [RowIds -> Row \cup {NoRow}] /\ rows'[id] = new
      /\ consents' \in [RowIds -> SUBSET Users] /\ consents'[id] = agreed
      /\ \A other \in RowIds \ {id} :
           rows'[other] = rows[other] /\ consents'[other] = consents[other]
  BY DEF TablesSound
<1>2. RowSound(id)'
  <2>1. Taken(id, new.requester, new.addressee)' <=> Taken(id, new.requester, new.addressee)
    BY <1>1 DEF Taken
  <2> QED
    BY <1>1, <2>1 DEF RowSound, Exists, Pair, Taken
<1>3. ASSUME NEW other \in RowIds \ {id} PROVE RowSound(other)'
  <2> SUFFICES ASSUME Exists(other) PROVE RowSound(other)'
    BY <1>1 DEF RowSound, Exists
  <2>1. RowSound(other) /\ rows[other] \in Row
    BY DEF TablesSound, Exists
  <2>2. ~(new.requester = rows[other].requester /\ new.addressee = rows[other].addressee)
    <3>1. CASE new = NoRow
      <4>1. new.requester = Nobody /\ rows[other].requester \in Users
        BY <2>1, <3>1, RowFacts
      <4> QED
        BY <4>1, NobodyAssumption
    <3>2. CASE new # NoRow
      BY <3>2 DEF Taken
    <3> QED
      BY <3>1, <3>2
  <2>3. ~Taken(other, rows[other].requester, rows[other].addressee)'
    <3> SUFFICES ASSUME NEW third \in RowIds \ {other},
                        rows'[third].requester = rows[other].requester,
                        rows'[third].addressee = rows[other].addressee
                 PROVE FALSE
      BY <1>1 DEF Taken
    <3>1. third # id
      BY <1>1, <2>2
    <3> QED
      BY <1>1, <2>1, <3>1 DEF RowSound, Taken
  <2> QED
    BY <1>1, <2>1, <2>3 DEF RowSound, Exists, Pair
<1> QED
  BY <1>1, <1>2, <1>3 DEF TablesSound

\* A row is created.
LEMMA CreateRowInv ==
  ASSUME Inv, NEW c \in Calls, CreateRow(c)
  PROVE Inv'
<1>1. CASE KeyTaken(calls[c].viewer, calls[c].target)
  BY <1>1, FinishStep DEF CreateRow, Finish
<1>2. CASE ~KeyTaken(calls[c].viewer, calls[c].target)
  <2> DEFINE new == [requester |-> calls[c].viewer, addressee |-> calls[c].target,
               state |-> IF calls[c].op = "send" THEN "PENDING" ELSE "BLOCKED"]
             agreed == IF calls[c].op = "send" THEN {calls[c].viewer} ELSE {}
  <2>1. PICK id \in RowIds \ usedIds :
          /\ rows' = [rows EXCEPT ![id] = new]
          /\ usedIds' = usedIds \cup {id}
          /\ consents' = [consents EXCEPT ![id] = agreed]
          /\ raced' = (raced \/ Underway(c))
          /\ Advance(c, "done", NoId)
    BY <1>2 DEF CreateRow
  <2>2. /\ calls[c].viewer \in Users /\ calls[c].target \in Users
        /\ calls[c].viewer # calls[c].target /\ calls[c].op \in {"send", "block"}
        /\ calls[c].stage = "absent"
    BY DEF CreateRow, Inv, CallsSound, CallSound
  <2>3. /\ new \in Row /\ new.requester = calls[c].viewer /\ new.addressee = calls[c].target
        /\ new.state = (IF calls[c].op = "send" THEN "PENDING" ELSE "BLOCKED")
    BY <2>2 DEF Row, States
  <2>4. agreed \in SUBSET Users /\ agreed \subseteq {new.requester, new.addressee}
        /\ (new.state = "PENDING" => new.requester \in agreed) /\ new.state # "ACCEPTED"
    BY <2>2, <2>3
  <2> HIDE DEF new, agreed
  <2>5. ~Taken(id, new.requester, new.addressee)
    <3>1. \A other \in RowIds : ~(rows[other].requester = calls[c].viewer
                                   /\ rows[other].addressee = calls[c].target)
      BY <1>2, NoIdAssumption DEF KeyTaken, Taken
    <3> QED
      BY <2>3, <3>1 DEF Taken
  <2>6. usedIds' \in SUBSET RowIds /\ usedIds \subseteq usedIds' /\ id \in usedIds'
        /\ raced' \in BOOLEAN
    BY <2>1 DEF Inv, TablesSound
  <2>7. TablesSound'
    BY <2>1, <2>2, <2>3, <2>4, <2>5, <2>6, TableStep DEF Inv
  <2>8. ~raced => \A other \in RowIds \ {id} :
          Exists(other) => Pair(other) # {calls[c].viewer, calls[c].target}
    BY <2>2 DEF Inv, Serial, RowsOf
  <2>9. \A other \in RowIds \ {id} : consents'[other] = consents[other]
    BY <2>1 DEF Inv, TablesSound
  <2> QED
    BY <2>1, <2>3, <2>6, <2>7, <2>8, <2>9, WriteStep
<1> QED
  BY <1>1, <1>2

\* What a request that writes a row it has found may rely on.
LEMMA WritesFacts ==
  ASSUME Inv, NEW c \in Calls, NEW op \in {"accept", "remove", "block"}, Writes(c, op)
  PROVE /\ calls[c].id \in RowIds /\ calls[c].id \in usedIds
        /\ rows[calls[c].id] \in Row
        /\ calls[c].viewer \in Users /\ calls[c].target \in Users
        /\ calls[c].viewer # calls[c].target
        /\ Pair(calls[c].id) = {calls[c].viewer, calls[c].target}
        /\ RowSound(calls[c].id)
        /\ consents[calls[c].id] \in SUBSET Users
        /\ ~raced => \A other \in RowIds \ {calls[c].id} :
             Exists(other) => Pair(other) # {calls[c].viewer, calls[c].target}
<1>1. calls[c].stage = "found" /\ CallSound(c) /\ Exists(calls[c].id)
  BY DEF Writes, Inv, CallsSound
<1>2. /\ calls[c].id \in RowIds /\ calls[c].id \in usedIds
      /\ calls[c].viewer # calls[c].target
      /\ Pair(calls[c].id) = {calls[c].viewer, calls[c].target}
  BY <1>1 DEF CallSound, Inv, TablesSound
<1>3. rows[calls[c].id] \in Row /\ RowSound(calls[c].id)
      /\ consents[calls[c].id] \in SUBSET Users
  BY <1>1, <1>2 DEF Inv, TablesSound, Exists
<1>4. ~raced => \A other \in RowIds \ {calls[c].id} :
        Exists(other) => Pair(other) # {calls[c].viewer, calls[c].target}
  BY <1>1, <1>2 DEF Inv, Serial
<1> QED
  BY <1>1, <1>2, <1>3, <1>4 DEF CallSound

\* A request is accepted.
LEMMA AcceptRequestInv ==
  ASSUME Inv, NEW c \in Calls, AcceptRequest(c)
  PROVE Inv'
<1> PICK id \in RowIds : id = calls[c].id
  BY WritesFacts DEF AcceptRequest
<1> DEFINE new == [rows[id] EXCEPT !.state = "ACCEPTED"]
           agreed == consents[id] \cup {calls[c].viewer}
<1>1. /\ id \in usedIds /\ rows[id] \in Row /\ RowSound(id) /\ Exists(id)
      /\ calls[c].viewer \in Users /\ calls[c].target \in Users
      /\ Pair(id) = {calls[c].viewer, calls[c].target}
      /\ consents[id] \in SUBSET Users
      /\ ~raced => \A other \in RowIds \ {id} :
           Exists(other) => Pair(other) # {calls[c].viewer, calls[c].target}
  BY WritesFacts DEF AcceptRequest, Writes
<1>2. calls[c].target \in consents[id]
  BY DEF AcceptRequest, Writes, Inv, CallsSound, CallSound
<1>3. /\ new \in Row /\ new.requester = rows[id].requester
      /\ new.addressee = rows[id].addressee /\ new.state = "ACCEPTED"
  BY <1>1 DEF Row, States
<1>4. /\ agreed \in SUBSET Users /\ consents[id] \subseteq agreed
      /\ agreed = {new.requester, new.addressee}
  BY <1>1, <1>2, <1>3 DEF RowSound, Pair
<1> HIDE DEF new, agreed
<1>5. /\ rows' = [rows EXCEPT ![id] = new] /\ consents' = [consents EXCEPT ![id] = agreed]
      /\ usedIds' = usedIds /\ raced' = (raced \/ Underway(c)) /\ Advance(c, "done", NoId)
  BY DEF AcceptRequest, Wrote, new, agreed, Inv, TablesSound
<1>6. usedIds' \in SUBSET RowIds /\ usedIds \subseteq usedIds' /\ raced' \in BOOLEAN
  BY <1>5 DEF Inv, TablesSound
<1>7. new.requester # new.addressee /\ ~Taken(id, new.requester, new.addressee)
  BY <1>1, <1>3 DEF RowSound
<1>8. TablesSound'
  <2>1. id \in usedIds' /\ TablesSound
    BY <1>1, <1>6 DEF Inv
  <2>2. new.state # "PENDING" /\ agreed \subseteq {new.requester, new.addressee}
    BY <1>3, <1>4
  <2>3. new \in Row \cup {NoRow} /\ agreed \in SUBSET Users
    BY <1>3, <1>4
  <2> QED
    BY <1>4, <1>5, <1>6, <1>7, <2>1, <2>2, <2>3, TableStep
<1>9. /\ \A other \in RowIds \ {id} : consents'[other] = consents[other]
      /\ consents[id] \subseteq consents'[id]
  BY <1>4, <1>5 DEF Inv, TablesSound
<1>10. {new.requester, new.addressee} = {calls[c].viewer, calls[c].target}
  BY <1>1, <1>3 DEF Pair
<1> QED
  BY <1>1, <1>5, <1>6, <1>8, <1>9, <1>10, WriteStep

\* A row is deleted.
LEMMA DeleteRowInv ==
  ASSUME Inv, NEW c \in Calls, DeleteRow(c)
  PROVE Inv'
<1> PICK id \in RowIds : id = calls[c].id
  BY WritesFacts DEF DeleteRow
<1>1. /\ Exists(id) /\ Pair(id) = {calls[c].viewer, calls[c].target}
      /\ consents[id] \in SUBSET Users
      /\ ~raced => \A other \in RowIds \ {id} :
           Exists(other) => Pair(other) # {calls[c].viewer, calls[c].target}
  BY WritesFacts DEF DeleteRow, Writes
<1>2. /\ rows' = [rows EXCEPT ![id] = NoRow] /\ consents' = consents
      /\ usedIds' = usedIds /\ raced' = (raced \/ Underway(c)) /\ Advance(c, "done", NoId)
  BY DEF DeleteRow, Removed, Wrote
<1>3. usedIds' \in SUBSET RowIds /\ usedIds \subseteq usedIds' /\ raced' \in BOOLEAN
      /\ consents' = [consents EXCEPT ![id] = consents[id]]
  BY <1>2 DEF Inv, TablesSound
<1>4. TablesSound'
  BY <1>1, <1>2, <1>3, TableStep DEF Inv
<1> QED
  BY <1>1, <1>2, <1>3, <1>4, WriteStep

\* A row becomes a block.
LEMMA BlockRowInv ==
  ASSUME Inv, NEW c \in Calls, BlockRow(c)
  PROVE Inv'
<1> PICK id \in RowIds : id = calls[c].id
  BY WritesFacts DEF BlockRow
<1>1. CASE Taken(id, calls[c].viewer, calls[c].target)
  BY <1>1, FinishStep DEF BlockRow, Finish
<1>2. CASE ~Taken(id, calls[c].viewer, calls[c].target)
  <2> DEFINE new == [requester |-> calls[c].viewer, addressee |-> calls[c].target,
                     state |-> "BLOCKED"]
  <2>1. /\ id \in usedIds /\ RowSound(id) /\ Exists(id)
        /\ calls[c].viewer \in Users /\ calls[c].target \in Users
        /\ calls[c].viewer # calls[c].target
        /\ Pair(id) = {calls[c].viewer, calls[c].target}
        /\ consents[id] \in SUBSET Users
        /\ ~raced => \A other \in RowIds \ {id} :
             Exists(other) => Pair(other) # {calls[c].viewer, calls[c].target}
    BY WritesFacts DEF BlockRow, Writes
  <2>2. /\ new \in Row /\ new.requester = calls[c].viewer
        /\ new.addressee = calls[c].target /\ new.state = "BLOCKED"
    BY <2>1 DEF Row, States
  <2> HIDE DEF new
  <2>3. /\ rows' = [rows EXCEPT ![id] = new] /\ consents' = consents
        /\ usedIds' = usedIds /\ raced' = (raced \/ Underway(c)) /\ Advance(c, "done", NoId)
    BY <1>2 DEF BlockRow, Wrote, new
  <2>4. usedIds' \in SUBSET RowIds /\ usedIds \subseteq usedIds' /\ raced' \in BOOLEAN
        /\ consents' = [consents EXCEPT ![id] = consents[id]]
    BY <2>3 DEF Inv, TablesSound
  <2>5. consents[id] \subseteq {new.requester, new.addressee}
    BY <2>1, <2>2 DEF RowSound
  <2>6. TablesSound'
    BY <1>2, <2>1, <2>2, <2>3, <2>4, <2>5, TableStep DEF Inv
  <2> QED
    BY <2>1, <2>2, <2>3, <2>4, <2>6, WriteStep
<1> QED
  BY <1>1, <1>2

--------------------------------------------------------------------------
(* The theorems.                                                          *)

\* Every step preserves the invariant.
LEMMA InvNext == Inv /\ [Next]_vars => Inv'
<1> SUFFICES ASSUME Inv, [Next]_vars PROVE Inv'
  OBVIOUS
<1>1. ASSUME NEW c \in Calls, RowGone(c) PROVE Inv'
  BY <1>1, FinishStep DEF RowGone, Finish
<1>2. ASSUME NEW c \in Calls, Handle(c) PROVE Inv'
  BY <1>1, <1>2, StartInv, FindForSendInv, FindForAcceptInv, FindBetweenInv, CreateRowInv,
     AcceptRequestInv, DeleteRowInv, BlockRowInv DEF Handle
<1>3. CASE UNCHANGED vars
  <2>1. TablesSound'
    BY <1>3 DEF vars, Inv, TablesSound, RowSound, Exists, Pair, Taken
  <2>2. CallsSound'
    BY <1>3 DEF vars, Inv, CallsSound, CallSound, Exists, Pair
  <2>3. ~raced' => Serial'
    BY <1>3 DEF vars, Inv, Serial, RowsOf, Exists, Pair
  <2> QED
    BY <2>1, <2>2, <2>3 DEF Inv
<1> QED
  BY <1>2, <1>3 DEF Next

\* The invariant holds in every reachable state.
THEOREM Invariance == Spec => []Inv
BY InvInit, InvNext, PTL DEF Spec

\* The table keeps its shape and its unique key, and nobody has a row with
\* themselves.
THEOREM TypeCorrect == Spec => []TypeOK
<1>1. Inv => TypeOK
  BY DEF Inv, TablesSound, RowSound, CallsSound, TypeOK
<1> QED
  BY <1>1, Invariance, PTL

\* Nobody becomes a friend without having asked for it or accepted it.
THEOREM FriendsBothConsented == Spec => []FriendsConsented
<1>1. Inv => FriendsConsented
  <2> SUFFICES ASSUME Inv, NEW id \in RowIds, rows[id].state = "ACCEPTED"
               PROVE consents[id] = Pair(id)
    BY DEF FriendsConsented
  <2>1. Exists(id)
    BY RowFacts DEF Exists
  <2> QED
    BY <2>1 DEF Inv, TablesSound, RowSound
<1> QED
  BY <1>1, Invariance, PTL

\* Two rows of one pair come of requests that overlapped, and of nothing else.
THEOREM SecondRowsComeOfRaces == Spec => []SerialPairsHaveOneRow
<1>1. Inv => SerialPairsHaveOneRow
  BY DEF Inv, Serial, SerialPairsHaveOneRow, RowsOf
<1> QED
  BY <1>1, Invariance, PTL

\* A block turns into a friendship by requests that overlapped only.
THEOREM BlocksEndByRemovalOrBlock == Spec => SerialBlocksStand
<1> DEFINE Stands == ~raced' => \A id \in RowIds :
             rows[id].state = "BLOCKED" => rows'[id] = NoRow \/ rows'[id].state = "BLOCKED"
<1>1. Inv /\ [Next]_vars => [Stands]_vars
  <2> SUFFICES ASSUME Inv, Next, ~raced', NEW id \in RowIds, rows[id].state = "BLOCKED"
               PROVE rows'[id] = NoRow \/ rows'[id].state = "BLOCKED"
    BY DEF Stands
  <2>1. PICK c \in Calls : Handle(c)
    BY DEF Next
  <2>2. Exists(id) /\ id \in usedIds /\ rows \in [RowIds -> Row \cup {NoRow}]
    BY RowFacts DEF Inv, TablesSound, RowSound, Exists
  <2>3. CASE CreateRow(c)
    <3>1. rows'[id] = rows[id]
      BY <2>2, <2>3 DEF CreateRow, Finish
    <3> QED
      BY <3>1
  <2>4. CASE AcceptRequest(c)
    <3>1. ~raced /\ rows[calls[c].id].state = "PENDING"
      BY <2>4 DEF AcceptRequest, Wrote, Writes, Inv, Serial
    <3>2. rows'[id] = rows[id]
      BY <2>2, <2>4, <3>1 DEF AcceptRequest
    <3> QED
      BY <3>2
  <2>5. CASE DeleteRow(c)
    BY <2>2, <2>5 DEF DeleteRow, Removed
  <2>6. CASE BlockRow(c)
    BY <2>2, <2>6 DEF BlockRow, Finish
  <2>7. CASE UNCHANGED rows
    BY <2>7
  <2>8. UNCHANGED rows \/ CreateRow(c) \/ AcceptRequest(c) \/ DeleteRow(c) \/ BlockRow(c)
    BY <2>1 DEF Handle, Start, FindForSend, FindForAccept, FindBetween, RowGone, Finish
  <2> QED
    BY <2>3, <2>4, <2>5, <2>6, <2>7, <2>8
<1> QED
  BY <1>1, Invariance, PTL DEF Spec, SerialBlocksStand

--------------------------------------------------------------------------
(* DirectThreads.                                                         *)

\* The type of the requests, and of all variables.
RequestRecord ==
  [stage: {"idle", "missing", "creating", "found", "refused", "member", "sending", "sent",
           "marking", "marked", "reread", "notified", "answered"},
   op: {"none", "create", "reply", "mark"},
   user: People \cup {"none"}, target: People \cup {"none"},
   thread: ThreadIds \cup {"none"}, at: Nat, stamp: Nat]

ThreadsTypeOK ==
  /\ clock \in Nat \ {0}
  /\ threads \in [ThreadIds -> [members: SUBSET People, opener: People \cup {"none"},
                                updated: Nat]]
  /\ lastRead \in [ThreadIds -> [People -> Nat]]
  /\ messages \in [Requests -> [thread: ThreadIds \cup {"none"}, at: Nat, crossed: BOOLEAN]]
  /\ requests \in [Requests -> RequestRecord]
  /\ answered \in [People -> SUBSET Requests]
  /\ notes \in [Requests -> [People -> Nat]]
  /\ bothLooked \in BOOLEAN

\* A request of "createDirectThread" that has found no thread.
Creating(c) == requests[c].stage \in {"missing", "creating"}

\* A request whose message is stored, if it has one.
Stored(c) ==
  requests[c].stage \in {"sent", "marking", "marked", "reread", "notified", "answered"}

\* A request of a member of an existing thread.
Inside(c) == requests[c].stage \in {"member", "sending"} \/ Stored(c)

IsThread(id) == id \in ThreadIds /\ threads[id] # NoThread

\* Direct threads are of two users.
ThreadSound(id) ==
  threads[id] # NoThread =>
    \E a, b \in People : a # b /\ threads[id].members = {a, b}

\* What a request knows whatever the others do.
RequestSound(c) ==
  LET Q == requests[c]
  IN /\ Creating(c) => Q.op = "create" /\ Q.user \in People /\ Q.target \in People
                       /\ Q.user # Q.target
     /\ Q.stage = "creating" => Q.stamp # 0 /\ Q.stamp <= clock
     /\ Q.stage = "found" => Q.user \in People /\ IsThread(Q.thread)
     /\ Inside(c) => IsThread(Q.thread) /\ Q.user \in threads[Q.thread].members
     /\ Q.stage \in {"member", "sending", "reread", "notified"} => Q.op # "mark"
     /\ Q.stage = "sending" => Q.at # 0
     /\ messages[c] # NoMessage <=> Stored(c) /\ Q.op # "mark"
     /\ messages[c] # NoMessage => messages[c].thread = Q.thread /\ messages[c].at # 0

\* The other member has been notified once, as soon as the request has come to it.
NotesSound(c) ==
  LET Q == requests[c]
  IN \A user \in People :
       notes[c][user] =
         IF /\ Q.stage \in {"notified", "answered"} /\ Q.op # "mark"
            /\ user \in threads[Q.thread].members \ {Q.user}
         THEN 1 ELSE 0

\* A read mark was stored by a request of the user, which has its time.
MarkOwned(id, user) ==
  lastRead[id][user] # Never =>
    \E d \in Requests : /\ requests[d].user = user /\ requests[d].thread = id
                        /\ requests[d].stage \in {"marked"} \cup Shown
                        /\ requests[d].stamp = lastRead[id][user]

\* A message is unread, or the user was shown it or soon will be, or it was
\* stored late.
Accounted(c, user) ==
  \/ Unread(user, c)
  \/ c \in answered[user]
  \/ messages[c].crossed
  \/ \E d \in Requests :
       /\ requests[d].user = user /\ requests[d].thread = messages[c].thread
       /\ requests[d].stage = "marked" /\ requests[d].stamp >= messages[c].at

\* The readers of a request's message.
Readers(c) == threads[messages[c].thread].members \ {requests[c].user}

PairOf(c) == {requests[c].user, requests[c].target}

\* Whoever goes on to create a thread is the only one and there is none.
CreatesAlone(c) ==
  Creating(c) =>
    /\ \A id \in ThreadIds : threads[id].members # PairOf(c)
    /\ \A d \in Requests \ {c} : Creating(d) => PairOf(d) # PairOf(c)

\* The inductive invariant.
ThreadsInv ==
  /\ ThreadsTypeOK
  /\ \A id \in ThreadIds : ThreadSound(id)
  /\ \A c \in Requests : RequestSound(c)
  /\ \A c \in Requests : NotesSound(c)
  /\ \A id \in ThreadIds, user \in People : MarkOwned(id, user)
  /\ \A c \in Requests : messages[c] # NoMessage =>
       \A user \in Readers(c) : Accounted(c, user)
  /\ OneThreadUnlessRaced
  /\ ~bothLooked => \A c \in Requests : CreatesAlone(c)

(* Steps.                                                                 *)

\* Threads are never changed, and no clock runs backwards.
ThreadsStay ==
  /\ \A id \in ThreadIds : threads[id] # NoThread => threads'[id] = threads[id]
  /\ clock' \in Nat /\ clock <= clock'

\* What one request knows, another's step does not change.
LEMMA OthersSound ==
  ASSUME ThreadsInv, ThreadsStay, NEW d \in Requests,
         requests'[d] = requests[d], messages'[d] = messages[d], notes'[d] = notes[d]
  PROVE  RequestSound(d)' /\ NotesSound(d)'
<1> DEFINE Q == requests[d]
<1>1. /\ RequestSound(d) /\ NotesSound(d)
      /\ Q \in RequestRecord /\ clock \in Nat
  BY DEF ThreadsInv, ThreadsTypeOK
<1>2. Creating(d)' = Creating(d) /\ Stored(d)' = Stored(d) /\ Inside(d)' = Inside(d)
  BY DEF Creating, Stored, Inside
<1>3. IsThread(Q.thread) => IsThread(Q.thread)' /\ threads'[Q.thread] = threads[Q.thread]
  BY DEF IsThread, ThreadsStay
<1>4. Q.stage = "creating" => Q.stamp # 0 /\ Q.stamp <= clock'
  BY <1>1 DEF RequestSound, ThreadsStay, RequestRecord
<1>5. RequestSound(d)'
  BY <1>1, <1>2, <1>3, <1>4 DEF RequestSound
<1>6. Q.stage \in {"notified", "answered"} => threads'[Q.thread] = threads[Q.thread]
  BY <1>1, <1>3 DEF RequestSound, Inside, Stored
<1>7. NotesSound(d)'
  BY <1>1, <1>6 DEF NotesSound
<1>8. QED BY <1>5, <1>7

\* A request that changes neither threads nor marks nor messages keeps the
\* invariant, if it has not set a mark itself and knows what its stage demands.
LEMMA ThreadMoveStep ==
  ASSUME ThreadsInv, NEW c \in Requests, NEW r \in RequestRecord,
         requests' = [requests EXCEPT ![c] = r],
         UNCHANGED <<clock, threads, lastRead, messages, answered, notes>>,
         bothLooked' \in BOOLEAN, bothLooked => bothLooked',
         requests[c].stage \notin {"marked"} \cup Shown,
         messages[c] # NoMessage => r.user = requests[c].user,
         RequestSound(c)', NotesSound(c)',
         ~bothLooked' => \A d \in Requests : CreatesAlone(d)'
  PROVE  ThreadsInv'
<1>1. requests' \in [Requests -> RequestRecord] /\ requests'[c] = r
      /\ \A d \in Requests \ {c} : requests'[d] = requests[d]
  BY DEF ThreadsInv, ThreadsTypeOK
<1>2. ThreadsTypeOK'
  BY <1>1 DEF ThreadsInv, ThreadsTypeOK
<1>3. ThreadsStay
  BY DEF ThreadsInv, ThreadsTypeOK, ThreadsStay
<1>4. \A d \in Requests : RequestSound(d)' /\ NotesSound(d)'
  BY <1>1, <1>3, OthersSound
<1>5. \A id \in ThreadIds : ThreadSound(id)'
  BY DEF ThreadsInv, ThreadSound
<1>6. \A id \in ThreadIds, user \in People : MarkOwned(id, user)'
  BY <1>1 DEF ThreadsInv, MarkOwned
<1>7. ASSUME NEW m \in Requests, messages[m] # NoMessage, NEW user \in Readers(m)'
      PROVE  Accounted(m, user)'
  <2>1. requests'[m].user = requests[m].user
    BY <1>1, <1>7
  <2>2. user \in Readers(m)
    BY <1>7, <2>1 DEF Readers
  <2>3. Accounted(m, user)
    BY <1>7, <2>2 DEF ThreadsInv
  <2>4. Unread(user, m) => Unread(user, m)'
    BY <2>1 DEF Unread
  <2>5. QED BY <1>1, <2>3, <2>4 DEF Accounted
<1>8. OneThreadUnlessRaced'
  BY DEF ThreadsInv, OneThreadUnlessRaced
<1>9. QED
  BY <1>1, <1>2, <1>4, <1>5, <1>6, <1>7, <1>8 DEF ThreadsInv

\* Nobody begins to create a thread, and threads are as they were.
LEMMA AloneStep ==
  ASSUME ThreadsInv, NEW c \in Requests, NEW r \in RequestRecord,
         requests' = [requests EXCEPT ![c] = r], UNCHANGED <<threads, bothLooked>>,
         r.stage \in {"missing", "creating"} =>
           Creating(c) /\ r.user = requests[c].user /\ r.target = requests[c].target
  PROVE  ~bothLooked' => \A d \in Requests : CreatesAlone(d)'
<1>1. requests'[c] = r /\ \A d \in Requests \ {c} : requests'[d] = requests[d]
  BY DEF ThreadsInv, ThreadsTypeOK
<1>2. \A d \in Requests : Creating(d)' => Creating(d) /\ PairOf(d)' = PairOf(d)
  BY <1>1 DEF Creating, PairOf
<1>3. SUFFICES ASSUME ~bothLooked, NEW d \in Requests, Creating(d)'
               PROVE  CreatesAlone(d)'
  BY DEF CreatesAlone
<1>4. CreatesAlone(d) /\ Creating(d) /\ PairOf(d)' = PairOf(d)
  BY <1>2, <1>3 DEF ThreadsInv
<1>5. QED BY <1>2, <1>4 DEF CreatesAlone

LEMMA ThreadsInvInit == ThreadsInit => ThreadsInv
<1> SUFFICES ASSUME ThreadsInit PROVE ThreadsInv
  OBVIOUS
<1>1. ThreadsTypeOK
  <2>1. NoThread \in [members: SUBSET People, opener: People \cup {"none"}, updated: Nat]
    BY DEF NoThread, Never
  <2>2. NoMessage \in [thread: ThreadIds \cup {"none"}, at: Nat, crossed: BOOLEAN]
    BY DEF NoMessage, Never
  <2>3. Idle \in RequestRecord
    BY DEF Idle, RequestRecord, Never
  <2>4. clock \in Nat \ {0}
    BY DEF ThreadsInit
  <2>5. bothLooked \in BOOLEAN
    BY DEF ThreadsInit
  <2>6. threads \in [ThreadIds -> [members: SUBSET People, opener: People \cup {"none"},
                                   updated: Nat]]
    BY <2>1 DEF ThreadsInit
  <2>7. messages \in [Requests -> [thread: ThreadIds \cup {"none"}, at: Nat,
                                   crossed: BOOLEAN]]
    BY <2>2 DEF ThreadsInit
  <2>8. requests \in [Requests -> RequestRecord]
    BY <2>3 DEF ThreadsInit
  <2>9. lastRead \in [ThreadIds -> [People -> Nat]] /\ notes \in [Requests -> [People -> Nat]]
    BY DEF ThreadsInit, Never
  <2>10. answered \in [People -> SUBSET Requests]
    BY DEF ThreadsInit
  <2>11. QED BY <2>4, <2>5, <2>6, <2>7, <2>8, <2>9, <2>10 DEF ThreadsTypeOK
<1>2. \A id \in ThreadIds : ThreadSound(id)
  BY DEF ThreadsInit, ThreadSound
<1>3. \A c \in Requests : requests[c].stage = "idle" /\ messages[c] = NoMessage
  BY DEF ThreadsInit, Idle
<1>4. \A c \in Requests : RequestSound(c) /\ CreatesAlone(c)
  BY <1>3 DEF RequestSound, CreatesAlone, Creating, Inside, Stored
<1>5. \A c \in Requests : NotesSound(c)
  BY <1>3 DEF NotesSound, ThreadsInit
<1>6. \A id \in ThreadIds, user \in People : MarkOwned(id, user)
  BY DEF ThreadsInit, MarkOwned
<1>7. OneThreadUnlessRaced
  BY DEF ThreadsInit, OneThreadUnlessRaced
<1>8. QED BY <1>1, <1>2, <1>3, <1>4, <1>5, <1>6, <1>7 DEF ThreadsInv

LEMMA TickInv ==
  ASSUME ThreadsInv, Tick
  PROVE  ThreadsInv'
<1>1. clock' = clock + 1 /\ clock \in Nat
      /\ UNCHANGED <<threads, lastRead, messages, requests, answered, notes, bothLooked>>
  BY DEF Tick, ThreadsInv, ThreadsTypeOK
<1>2. ThreadsStay /\ ThreadsTypeOK'
  BY <1>1 DEF ThreadsStay, ThreadsInv, ThreadsTypeOK
<1>3. \A d \in Requests : RequestSound(d)' /\ NotesSound(d)'
  BY <1>1, <1>2, OthersSound
<1>4. QED
  BY <1>1, <1>2, <1>3
  DEF ThreadsInv, ThreadSound, MarkOwned, Readers, Accounted, Unread, OneThreadUnlessRaced,
      CreatesAlone, Creating, PairOf

\* Two requests that both look for the thread of a pair are on record.
LEMMA FindThreadInv ==
  ASSUME ThreadsInv, NEW c \in Requests, NEW user \in People, NEW target \in People,
         FindThread(c, user, target)
  PROVE  ThreadsInv'
<1> DEFINE found == DirectThreadsOf(user, target)
           creating == {d \in Requests :
                          /\ requests[d].stage \in {"missing", "creating"}
                          /\ {requests[d].user, requests[d].target} = {user, target}}
           asked == [Idle EXCEPT !.op = "create", !.user = user, !.target = target]
<1>1. /\ requests[c].stage = "idle" /\ user # target
      /\ UNCHANGED <<clock, threads, lastRead, messages, answered, notes>>
      /\ bothLooked' = (bothLooked \/ (found = {} /\ creating # {}))
  BY DEF FindThread
<1>2. \/ found = {} /\ requests' = [requests EXCEPT ![c] = [asked EXCEPT !.stage = "missing"]]
      \/ \E id \in Latest(found) :
           requests' = [requests EXCEPT ![c] = [asked EXCEPT !.stage = "found", !.thread = id]]
  BY DEF FindThread
<1>3. /\ RequestSound(c) /\ NotesSound(c) /\ messages[c] = NoMessage
      /\ bothLooked \in BOOLEAN /\ bothLooked' \in BOOLEAN
  BY <1>1 DEF ThreadsInv, ThreadsTypeOK, RequestSound, Stored
<1>4. CASE found = {} /\ requests' = [requests EXCEPT ![c] = [asked EXCEPT !.stage = "missing"]]
  <2> DEFINE r == [asked EXCEPT !.stage = "missing"]
  <2>1. r \in RequestRecord
    BY DEF RequestRecord, Idle, Never
  <2>2. /\ requests'[c] = r /\ r.stage = "missing" /\ r.op = "create"
        /\ r.user = user /\ r.target = target
        /\ \A d \in Requests \ {c} : requests'[d] = requests[d]
    BY <1>4 DEF ThreadsInv, ThreadsTypeOK, Idle
  <2> HIDE DEF r
  <2>3. RequestSound(c)'
    BY <1>1, <1>3, <2>2 DEF RequestSound, Creating, Inside, Stored
  <2>4. NotesSound(c)'
    BY <1>1, <1>3, <2>2 DEF NotesSound
  <2>5. ASSUME ~bothLooked', NEW d \in Requests, Creating(d)'  PROVE CreatesAlone(d)'
    <3>1. creating = {} /\ ~bothLooked
      BY <1>1, <1>4, <2>5
    <3>2. \A e \in Requests \ {c} : Creating(e) => PairOf(e) # {user, target}
      BY <3>1 DEF Creating, PairOf
    <3>3. \A id \in ThreadIds : threads[id].members # {user, target}
      BY <1>4 DEF DirectThreadsOf
    <3>4. PairOf(c)' = {user, target}
      BY <2>2 DEF PairOf
    <3>5. \A e \in Requests \ {c} : Creating(e)' = Creating(e) /\ PairOf(e)' = PairOf(e)
      BY <2>2 DEF Creating, PairOf
    <3>6. CASE d = c
      BY <1>1, <3>2, <3>3, <3>4, <3>5, <3>6 DEF CreatesAlone
    <3>7. CASE d # c
      <4>1. Creating(d) /\ CreatesAlone(d)
        BY <2>5, <3>1, <3>5, <3>7 DEF ThreadsInv
      <4>2. PairOf(d) # {user, target}
        BY <3>2, <3>7, <4>1
      <4>3. \A id \in ThreadIds : threads'[id].members # PairOf(d)'
        BY <1>1, <3>5, <3>7, <4>1 DEF CreatesAlone
      <4>4. \A e \in Requests \ {d} : Creating(e)' => PairOf(e)' # PairOf(d)'
        BY <3>4, <3>5, <3>7, <4>1, <4>2 DEF CreatesAlone
      <4>5. QED BY <4>3, <4>4 DEF CreatesAlone
    <3>8. QED BY <3>6, <3>7
  <2>6. requests' = [requests EXCEPT ![c] = r]
    BY <1>4 DEF r
  <2>7. ~bothLooked' => \A d \in Requests : CreatesAlone(d)'
    BY <2>5 DEF CreatesAlone
  <2>8. QED
    BY <1>1, <1>3, <2>1, <2>3, <2>4, <2>6, <2>7, ThreadMoveStep DEF Shown
<1>5. ASSUME NEW id \in Latest(found),
             requests' = [requests EXCEPT ![c] = [asked EXCEPT !.stage = "found", !.thread = id]]
      PROVE  ThreadsInv'
  <2> DEFINE r == [asked EXCEPT !.stage = "found", !.thread = id]
  <2>1. id \in ThreadIds /\ threads[id].members = {user, target}
    BY <1>5 DEF Latest, DirectThreadsOf
  <2>2. IsThread(id) /\ found # {}
    BY <1>5, <2>1 DEF IsThread, NoThread, Latest
  <2>3. r \in RequestRecord
    BY <2>1 DEF RequestRecord, Idle, Never
  <2>4. requests'[c] = r /\ r.stage = "found" /\ r.op = "create" /\ r.user = user /\ r.thread = id
    BY <1>5 DEF ThreadsInv, ThreadsTypeOK, Idle
  <2> HIDE DEF r
  <2>5. RequestSound(c)'
    BY <1>1, <1>3, <2>2, <2>4 DEF RequestSound, Creating, Inside, Stored, IsThread
  <2>6. NotesSound(c)'
    BY <1>1, <1>3, <2>4 DEF NotesSound
  <2>7. requests' = [requests EXCEPT ![c] = r]
    BY <1>5 DEF r
  <2>8. bothLooked' = bothLooked
    BY <1>1, <1>3, <2>2
  <2>9. ~bothLooked' => \A d \in Requests : CreatesAlone(d)'
    BY <1>1, <2>3, <2>4, <2>7, <2>8, AloneStep
  <2>10. QED
    BY <1>1, <1>3, <2>3, <2>5, <2>6, <2>7, <2>8, <2>9, ThreadMoveStep DEF Shown
<1>6. QED BY <1>2, <1>4, <1>5

LEMMA AskForThreadInv ==
  ASSUME ThreadsInv, NEW c \in Requests, NEW op \in {"reply", "mark"}, NEW user \in People,
         NEW thread \in ThreadIds, AskForThread(c, op, user, thread)
  PROVE  ThreadsInv'
<1> DEFINE r == [Idle EXCEPT !.stage = "found", !.op = op, !.user = user, !.thread = thread]
<1>1. /\ requests[c].stage = "idle" /\ IsThread(thread)
      /\ requests' = [requests EXCEPT ![c] = r]
      /\ UNCHANGED <<clock, threads, lastRead, messages, answered, notes, bothLooked>>
  BY DEF AskForThread, IsThread
<1>2. r \in RequestRecord
  BY DEF RequestRecord, Idle, Never
<1>3. requests'[c] = r /\ r.stage = "found" /\ r.op = op /\ r.user = user /\ r.thread = thread
  BY <1>1 DEF ThreadsInv, ThreadsTypeOK, Idle
<1> HIDE DEF r
<1>4. RequestSound(c) /\ NotesSound(c) /\ messages[c] = NoMessage /\ bothLooked \in BOOLEAN
  BY <1>1 DEF ThreadsInv, ThreadsTypeOK, RequestSound, Stored
<1>5. RequestSound(c)'
  BY <1>1, <1>3, <1>4 DEF RequestSound, Creating, Inside, Stored, IsThread
<1>6. NotesSound(c)'
  BY <1>1, <1>3, <1>4 DEF NotesSound
<1>7. ~bothLooked' => \A d \in Requests : CreatesAlone(d)'
  BY <1>1, <1>2, <1>3, AloneStep
<1>8. QED
  BY <1>1, <1>2, <1>4, <1>5, <1>6, <1>7, ThreadMoveStep DEF Shown

LEMMA StampThreadInv ==
  ASSUME ThreadsInv, NEW c \in Requests, StampThread(c)
  PROVE  ThreadsInv'
<1> DEFINE Q == requests[c]
           r == [Q EXCEPT !.stage = "creating", !.stamp = clock]
<1>1. /\ Q.stage = "missing" /\ Q \in RequestRecord /\ clock \in Nat \ {0}
      /\ requests' = [requests EXCEPT ![c] = r]
      /\ UNCHANGED <<clock, threads, lastRead, messages, answered, notes, bothLooked>>
      /\ bothLooked \in BOOLEAN
  BY DEF StampThread, ThreadsInv, ThreadsTypeOK
<1>2. r \in RequestRecord
  BY <1>1 DEF RequestRecord
<1>3. /\ requests'[c] = r /\ r.stage = "creating" /\ r.stamp = clock
      /\ r.op = Q.op /\ r.user = Q.user /\ r.target = Q.target
  BY <1>1 DEF ThreadsInv, ThreadsTypeOK, RequestRecord
<1> HIDE DEF r
<1>4. /\ RequestSound(c) /\ NotesSound(c) /\ messages[c] = NoMessage /\ Creating(c)
      /\ clock <= clock'
  BY <1>1 DEF ThreadsInv, RequestSound, Stored, Creating
<1>5. RequestSound(c)'
  BY <1>1, <1>3, <1>4 DEF RequestSound, Creating, Inside, Stored
<1>6. NotesSound(c)'
  BY <1>1, <1>3, <1>4 DEF NotesSound
<1>7. ~bothLooked' => \A d \in Requests : CreatesAlone(d)'
  BY <1>1, <1>2, <1>3, <1>4, AloneStep
<1>8. QED
  BY <1>1, <1>2, <1>4, <1>5, <1>6, <1>7, ThreadMoveStep DEF Shown

\* Others than members are refused, and the request is as if it had not come.
LEMMA AssertMemberInv ==
  ASSUME ThreadsInv, NEW c \in Requests, AssertMember(c)
  PROVE  ThreadsInv'
<1> DEFINE Q == requests[c]
<1>1. /\ Q.stage = "found" /\ Q \in RequestRecord /\ bothLooked \in BOOLEAN
      /\ UNCHANGED <<clock, threads, lastRead, messages, answered, notes, bothLooked>>
      /\ RequestSound(c) /\ NotesSound(c) /\ messages[c] = NoMessage
      /\ Q.user \in People /\ IsThread(Q.thread)
  BY DEF AssertMember, ThreadsInv, ThreadsTypeOK, RequestSound, Stored
<1>2. ASSUME NEW r \in RequestRecord, requests' = [requests EXCEPT ![c] = r],
             r.stage \in {"refused", "member"} \/ (r.stage = "sent" /\ r.op = "mark"),
             r.stage # "refused" =>
               /\ r.thread = Q.thread /\ r.user = Q.user
               /\ Q.user \in threads[Q.thread].members,
             r.stage = "member" => r.op # "mark"
      PROVE  ThreadsInv'
  <2>1. requests'[c] = r
    BY <1>2 DEF ThreadsInv, ThreadsTypeOK
  <2>2. RequestSound(c)'
    BY <1>1, <1>2, <2>1 DEF RequestSound, Creating, Inside, Stored, IsThread
  <2>3. NotesSound(c)'
    BY <1>1, <1>2, <2>1 DEF NotesSound
  <2>4. ~bothLooked' => \A d \in Requests : CreatesAlone(d)'
    BY <1>1, <1>2, AloneStep
  <2>5. QED
    BY <1>1, <1>2, <2>2, <2>3, <2>4, ThreadMoveStep DEF Shown
<1>3. CASE Q.user \notin threads[Q.thread].members
  <2> DEFINE r == [Idle EXCEPT !.stage = "refused"]
  <2>1. requests' = [requests EXCEPT ![c] = r]
    BY <1>3 DEF AssertMember
  <2>2. r \in RequestRecord /\ r.stage = "refused"
    BY DEF RequestRecord, Idle, Never
  <2>3. QED BY <1>2, <2>1, <2>2
<1>4. CASE Q.user \in threads[Q.thread].members
  <2> DEFINE r == [Q EXCEPT !.stage = IF Q.op = "mark" THEN "sent" ELSE "member"]
  <2>1. requests' = [requests EXCEPT ![c] = r]
    BY <1>4 DEF AssertMember, MoveTo
  <2>2. /\ r \in RequestRecord /\ r.op = Q.op /\ r.thread = Q.thread /\ r.user = Q.user
        /\ r.stage = IF Q.op = "mark" THEN "sent" ELSE "member"
    BY <1>1 DEF RequestRecord
  <2> HIDE DEF r
  <2>3. QED BY <1>2, <1>4, <2>1, <2>2
<1>5. QED BY <1>3, <1>4

LEMMA StampMessageInv ==
  ASSUME ThreadsInv, NEW c \in Requests, StampMessage(c)
  PROVE  ThreadsInv'
<1> DEFINE Q == requests[c]
           r == [Q EXCEPT !.stage = "sending", !.at = clock]
<1>1. /\ Q.stage = "member" /\ Q \in RequestRecord /\ clock \in Nat \ {0}
      /\ requests' = [requests EXCEPT ![c] = r]
      /\ UNCHANGED <<clock, threads, lastRead, messages, answered, notes, bothLooked>>
      /\ bothLooked \in BOOLEAN
  BY DEF StampMessage, ThreadsInv, ThreadsTypeOK
<1>2. r \in RequestRecord
  BY <1>1 DEF RequestRecord
<1>3. /\ requests'[c] = r /\ r.stage = "sending" /\ r.at = clock
      /\ r.op = Q.op /\ r.user = Q.user /\ r.thread = Q.thread
  BY <1>1 DEF ThreadsInv, ThreadsTypeOK, RequestRecord
<1> HIDE DEF r
<1>4. /\ RequestSound(c) /\ NotesSound(c) /\ messages[c] = NoMessage
      /\ IsThread(Q.thread) /\ Q.user \in threads[Q.thread].members /\ Q.op # "mark"
  BY <1>1 DEF ThreadsInv, RequestSound, Stored, Inside
<1>5. RequestSound(c)'
  BY <1>1, <1>3, <1>4 DEF RequestSound, Creating, Inside, Stored, IsThread
<1>6. NotesSound(c)'
  BY <1>1, <1>3, <1>4 DEF NotesSound
<1>7. ~bothLooked' => \A d \in Requests : CreatesAlone(d)'
  BY <1>1, <1>2, <1>3, <1>4, AloneStep
<1>8. QED
  BY <1>1, <1>2, <1>4, <1>5, <1>6, <1>7, ThreadMoveStep DEF Shown

\* The time of a mark is taken after the request's message was stored.
LEMMA StampMarkInv ==
  ASSUME ThreadsInv, NEW c \in Requests, StampMark(c)
  PROVE  ThreadsInv'
<1> DEFINE Q == requests[c]
           r == [Q EXCEPT !.stage = "marking", !.stamp = clock]
<1>1. /\ Q.stage = "sent" /\ Q \in RequestRecord /\ clock \in Nat \ {0}
      /\ requests' = [requests EXCEPT ![c] = r]
      /\ UNCHANGED <<clock, threads, lastRead, messages, answered, notes, bothLooked>>
      /\ bothLooked \in BOOLEAN
  BY DEF StampMark, ThreadsInv, ThreadsTypeOK
<1>2. r \in RequestRecord
  BY <1>1 DEF RequestRecord
<1>3. /\ requests'[c] = r /\ r.stage = "marking"
      /\ r.op = Q.op /\ r.user = Q.user /\ r.thread = Q.thread
  BY <1>1 DEF ThreadsInv, ThreadsTypeOK, RequestRecord
<1> HIDE DEF r
<1>4. /\ RequestSound(c) /\ NotesSound(c)
      /\ IsThread(Q.thread) /\ Q.user \in threads[Q.thread].members
  BY <1>1 DEF ThreadsInv, RequestSound, Stored, Inside
<1>5. RequestSound(c)'
  BY <1>1, <1>3, <1>4 DEF RequestSound, Creating, Inside, Stored, IsThread
<1>6. NotesSound(c)'
  BY <1>1, <1>3, <1>4 DEF NotesSound
<1>7. ~bothLooked' => \A d \in Requests : CreatesAlone(d)'
  BY <1>1, <1>2, <1>3, AloneStep
<1>8. QED
  BY <1>1, <1>2, <1>3, <1>4, <1>5, <1>6, <1>7, ThreadMoveStep DEF Shown

\* The request that creates the thread of a pair is the only one, unless raced,
\* and owns its author's read mark.
LEMMA CreateThreadInv ==
  ASSUME ThreadsInv, NEW c \in Requests, CreateThread(c)
  PROVE  ThreadsInv'
<1> DEFINE Q == requests[c]
           user == Q.user
           pair == {Q.user, Q.target}
<1>1. /\ Q.stage = "creating" /\ Q \in RequestRecord /\ RequestSound(c) /\ NotesSound(c)
      /\ user \in People /\ Q.target \in People /\ user # Q.target
      /\ Q.op = "create" /\ Q.stamp \in Nat \ {0} /\ clock \in Nat
      /\ messages[c] = NoMessage
      /\ UNCHANGED <<clock, answered, notes, bothLooked>>
  BY DEF CreateThread, ThreadsInv, ThreadsTypeOK, RequestSound, Creating, Stored, RequestRecord
<1>2. PICK id \in ThreadIds, at \in Q.stamp..clock :
        /\ threads[id] = NoThread
        /\ threads' = [threads EXCEPT
             ![id] = [members |-> pair, opener |-> user, updated |-> at]]
        /\ lastRead' = [lastRead EXCEPT ![id] = FirstMarks(user, Q.stamp)]
        /\ messages' = [messages EXCEPT ![c] = [NoMessage EXCEPT !.thread = id, !.at = at]]
        /\ requests' = [requests EXCEPT ![c].stage = "marked", ![c].thread = id]
  BY DEF CreateThread
<1> DEFINE row == [members |-> pair, opener |-> user, updated |-> at]
           r == [Q EXCEPT !.stage = "marked", !.thread = id]
           m == [NoMessage EXCEPT !.thread = id, !.at = at]
<1>3. at \in Nat \ {0}
  BY <1>1, <1>2
<1>4. /\ row \in [members: SUBSET People, opener: People \cup {"none"}, updated: Nat]
      /\ row.members = pair /\ row # NoThread
  BY <1>1, <1>3 DEF NoThread
<1>5. /\ r \in RequestRecord /\ r.stage = "marked" /\ r.thread = id /\ r.op = "create"
      /\ r.user = user /\ r.stamp = Q.stamp
  BY <1>1 DEF RequestRecord
<1>6. /\ m \in [thread: ThreadIds \cup {"none"}, at: Nat, crossed: BOOLEAN]
      /\ m.thread = id /\ m.at = at /\ m # NoMessage
  <2>1. m.thread = id /\ m.at = at /\ NoMessage.at = 0
    BY DEF NoMessage, Never
  <2>2. m \in [thread: ThreadIds \cup {"none"}, at: Nat, crossed: BOOLEAN]
    BY <1>3 DEF NoMessage
  <2>3. m # NoMessage
    BY <1>3, <2>1
  <2>4. QED BY <2>1, <2>2, <2>3
<1>7. requests' = [requests EXCEPT ![c] = r]
  BY <1>2
<1> HIDE DEF row, r, m
<1>8. FirstMarks(user, Q.stamp) \in [People -> Nat]
  BY <1>1 DEF FirstMarks, Never
<1>9. ThreadsTypeOK'
  <2>1. threads' = [threads EXCEPT ![id] = row] /\ messages' = [messages EXCEPT ![c] = m]
    BY <1>2 DEF row, m
  <2>2. threads' \in [ThreadIds -> [members: SUBSET People, opener: People \cup {"none"},
                                    updated: Nat]]
    BY <1>4, <2>1 DEF ThreadsInv, ThreadsTypeOK
  <2>3. messages' \in [Requests -> [thread: ThreadIds \cup {"none"}, at: Nat,
                                    crossed: BOOLEAN]]
    BY <1>6, <2>1 DEF ThreadsInv, ThreadsTypeOK
  <2>4. requests' \in [Requests -> RequestRecord]
    BY <1>5, <1>7 DEF ThreadsInv, ThreadsTypeOK
  <2>5. lastRead' \in [ThreadIds -> [People -> Nat]]
    BY <1>2, <1>8 DEF ThreadsInv, ThreadsTypeOK
  <2>6. QED BY <1>1, <2>2, <2>3, <2>4, <2>5 DEF ThreadsInv, ThreadsTypeOK
<1>10. /\ threads'[id] = row /\ messages'[c] = m /\ requests'[c] = r
       /\ lastRead'[id] = FirstMarks(user, Q.stamp)
       /\ \A x \in ThreadIds \ {id} : threads'[x] = threads[x] /\ lastRead'[x] = lastRead[x]
       /\ \A d \in Requests \ {c} : requests'[d] = requests[d] /\ messages'[d] = messages[d]
  BY <1>2, <1>7 DEF ThreadsInv, ThreadsTypeOK, row, m
<1>11. ThreadsStay
  BY <1>1, <1>2, <1>10 DEF ThreadsStay
<1>12. \A x \in ThreadIds : ThreadSound(x)'
  <2>1. ThreadSound(id)'
    BY <1>1, <1>4, <1>10 DEF ThreadSound
  <2>2. QED BY <1>10, <2>1 DEF ThreadsInv, ThreadSound
<1>13. RequestSound(c)'
  <2>1. /\ requests'[c].stage = "marked" /\ requests'[c].op = "create"
        /\ requests'[c].thread = id /\ requests'[c].user = user
        /\ threads'[id] # NoThread /\ user \in threads'[id].members
        /\ messages'[c] # NoMessage /\ messages'[c].thread = id /\ messages'[c].at # 0
    BY <1>3, <1>4, <1>5, <1>6, <1>10
  <2>2. QED BY <2>1 DEF RequestSound, Creating, Inside, Stored, IsThread
<1>14. NotesSound(c)'
  BY <1>1, <1>5, <1>10 DEF NotesSound
<1>15. \A d \in Requests : RequestSound(d)' /\ NotesSound(d)'
  BY <1>1, <1>10, <1>11, <1>13, <1>14, OthersSound
<1>16. ASSUME NEW x \in ThreadIds, NEW u \in People  PROVE MarkOwned(x, u)'
  <2>1. CASE x = id /\ u = user
    BY <1>1, <1>5, <1>10, <2>1 DEF MarkOwned, FirstMarks
  <2>2. CASE x = id /\ u # user
    BY <1>10, <2>2 DEF MarkOwned, FirstMarks
  <2>3. CASE x # id
    <3>1. MarkOwned(x, u)
      BY DEF ThreadsInv
    <3>2. requests[c].stage \notin {"marked"} \cup Shown
      BY <1>1 DEF Shown
    <3>3. QED BY <1>10, <2>3, <3>1, <3>2 DEF MarkOwned
  <2>4. QED BY <2>1, <2>2, <2>3
<1>17. ASSUME NEW d \in Requests, messages'[d] # NoMessage, NEW u \in Readers(d)'
       PROVE  Accounted(d, u)'
  <2>1. CASE d = c
    <3>1. /\ messages'[d].thread = id /\ messages'[d].at = at /\ requests'[d].user = user
          /\ u # user /\ u \in People
      BY <1>1, <1>4, <1>5, <1>6, <1>10, <1>17, <2>1 DEF Readers
    <3>2. lastRead'[id][u] = 0
      BY <1>10, <3>1 DEF FirstMarks, Never
    <3>3. QED BY <1>3, <3>1, <3>2 DEF Accounted, Unread
  <2>2. CASE d # c
    <3>1. /\ messages'[d] = messages[d] /\ requests'[d] = requests[d]
          /\ messages[d].thread \in ThreadIds \ {id}
      <4>1. messages'[d] = messages[d] /\ requests'[d] = requests[d] /\ RequestSound(d)
        BY <1>10, <2>2 DEF ThreadsInv
      <4>2. IsThread(messages[d].thread)
        BY <1>17, <4>1 DEF RequestSound, Inside
      <4>3. QED BY <1>2, <4>1, <4>2 DEF IsThread
    <3>2. u \in Readers(d)
      BY <1>10, <1>17, <3>1 DEF Readers
    <3>3. Accounted(d, u)
      BY <1>17, <3>1, <3>2 DEF ThreadsInv
    <3>4. Unread(u, d) => Unread(u, d)'
      BY <1>10, <3>1 DEF Unread
    <3>5. requests[c].stage # "marked" /\ UNCHANGED answered
      BY <1>1
    <3>6. QED BY <1>10, <3>1, <3>3, <3>4, <3>5 DEF Accounted
  <2>3. QED BY <2>1, <2>2
<1>18. ASSUME ~bothLooked  PROVE (\A d \in Requests : CreatesAlone(d)') /\ OneThreadUnlessRaced'
  <2>1. CreatesAlone(c) /\ Creating(c) /\ PairOf(c) = pair
    BY <1>1, <1>18 DEF ThreadsInv, Creating, PairOf
  <2>2. \A x \in ThreadIds : threads[x].members # pair
    BY <2>1 DEF CreatesAlone
  <2>3. OneThreadUnlessRaced'
    <3>1. \A x \in ThreadIds \ {id} : threads'[x].members # threads'[id].members
      BY <1>4, <1>10, <2>2
    <3>2. QED BY <1>10, <1>18, <3>1 DEF ThreadsInv, OneThreadUnlessRaced
  <2>4. ASSUME NEW d \in Requests, Creating(d)'  PROVE CreatesAlone(d)'
    <3>1. d # c
      BY <1>5, <1>10, <2>4 DEF Creating
    <3>2. /\ Creating(d) /\ CreatesAlone(d) /\ PairOf(d)' = PairOf(d) /\ PairOf(d) # pair
      BY <1>10, <1>18, <2>1, <2>4, <3>1 DEF ThreadsInv, Creating, PairOf, CreatesAlone
    <3>3. \A x \in ThreadIds : threads'[x].members # PairOf(d)
      BY <1>4, <1>10, <3>2 DEF CreatesAlone
    <3>4. \A e \in Requests : Creating(e)' => e # c /\ Creating(e) /\ PairOf(e)' = PairOf(e)
      BY <1>5, <1>10 DEF Creating, PairOf
    <3>5. QED BY <3>2, <3>3, <3>4 DEF CreatesAlone
  <2>5. QED BY <2>3, <2>4 DEF CreatesAlone
<1>19. OneThreadUnlessRaced'
  BY <1>1, <1>18 DEF OneThreadUnlessRaced
<1>20. QED
  BY <1>1, <1>9, <1>12, <1>15, <1>16, <1>17, <1>18, <1>19 DEF ThreadsInv

\* A request that has stored its message, if it has one, and goes on with its
\* thread keeps the invariant, if marks and readers are accounted for.
LEMMA LaterStep ==
  ASSUME ThreadsInv, NEW c \in Requests, NEW r \in RequestRecord,
         requests' = [requests EXCEPT ![c] = r],
         Stored(c), r.stage \in {"marked", "reread", "notified", "answered"},
         r.user = requests[c].user, r.thread = requests[c].thread, r.op = requests[c].op,
         r.stage \in {"reread", "notified"} => r.op # "mark",
         UNCHANGED <<clock, threads, messages, bothLooked>>,
         lastRead' \in [ThreadIds -> [People -> Nat]],
         answered' \in [People -> SUBSET Requests],
         notes' \in [Requests -> [People -> Nat]],
         \A d \in Requests \ {c} : notes'[d] = notes[d],
         NotesSound(c)',
         \A id \in ThreadIds, user \in People : MarkOwned(id, user)',
         \A m \in Requests : messages[m] # NoMessage =>
           \A user \in Readers(m) : Accounted(m, user)'
  PROVE  ThreadsInv'
<1>1. requests' \in [Requests -> RequestRecord] /\ requests'[c] = r
      /\ \A d \in Requests \ {c} : requests'[d] = requests[d]
  BY DEF ThreadsInv, ThreadsTypeOK
<1>2. ThreadsTypeOK' /\ ThreadsStay
  BY <1>1 DEF ThreadsInv, ThreadsTypeOK, ThreadsStay
<1>3. RequestSound(c) /\ IsThread(r.thread) /\ r.user \in threads[r.thread].members
  BY DEF ThreadsInv, RequestSound, Inside
<1>4. RequestSound(c)'
  BY <1>1, <1>3 DEF RequestSound, Creating, Inside, Stored, IsThread
<1>5. \A d \in Requests : RequestSound(d)' /\ NotesSound(d)'
  BY <1>1, <1>2, <1>4, OthersSound
<1>6. (\A id \in ThreadIds : ThreadSound(id)') /\ OneThreadUnlessRaced'
  BY DEF ThreadsInv, ThreadSound, OneThreadUnlessRaced
<1>7. ~bothLooked' => \A d \in Requests : CreatesAlone(d)'
  BY AloneStep
<1>8. \A m \in Requests : Readers(m)' = Readers(m)
  BY <1>1 DEF Readers
<1>9. QED
  BY <1>1, <1>2, <1>5, <1>6, <1>7, <1>8 DEF ThreadsInv

\* A message that commits behind a mark is late: whoever set the mark has been
\* shown the thread since, or is about to read it.
LEMMA StoreMessageInv ==
  ASSUME ThreadsInv, NEW c \in Requests, StoreMessage(c)
  PROVE  ThreadsInv'
<1> DEFINE Q == requests[c]
           thread == Q.thread
           passed == \E d \in Requests :
                       /\ requests[d].thread = thread /\ requests[d].user # Q.user
                       /\ requests[d].stage \in Shown /\ requests[d].stamp >= Q.at
           m == [thread |-> thread, at |-> Q.at, crossed |-> passed]
           r == [Q EXCEPT !.stage = "sent"]
<1>1. /\ Q.stage = "sending" /\ Q \in RequestRecord /\ RequestSound(c) /\ NotesSound(c)
      /\ IsThread(thread) /\ Q.user \in threads[thread].members /\ Q.op # "mark"
      /\ Q.at \in Nat \ {0}
  BY DEF StoreMessage, ThreadsInv, ThreadsTypeOK, RequestSound, Inside, RequestRecord
<1>2. /\ messages' = [messages EXCEPT ![c] = m] /\ requests' = [requests EXCEPT ![c] = r]
      /\ UNCHANGED <<clock, threads, lastRead, answered, notes, bothLooked>>
  BY DEF StoreMessage, MoveTo
<1>3. /\ m.thread = thread /\ m.at = Q.at /\ (m.crossed <=> passed) /\ m # NoMessage
      /\ m \in [thread: ThreadIds \cup {"none"}, at: Nat, crossed: BOOLEAN]
  <2>1. m.at # NoMessage.at
    BY <1>1 DEF NoMessage, Never
  <2>2. m \in [thread: ThreadIds \cup {"none"}, at: Nat, crossed: BOOLEAN]
    BY <1>1 DEF IsThread
  <2>3. QED BY <2>1, <2>2
<1>4. /\ r \in RequestRecord /\ r.stage = "sent" /\ r.op = Q.op /\ r.user = Q.user
      /\ r.thread = thread
  BY <1>1 DEF RequestRecord
<1> HIDE DEF m, r
<1>5. /\ messages'[c] = m /\ requests'[c] = r
      /\ \A d \in Requests \ {c} : requests'[d] = requests[d] /\ messages'[d] = messages[d]
  BY <1>2 DEF ThreadsInv, ThreadsTypeOK
<1>6. ThreadsTypeOK' /\ ThreadsStay
  <2>1. messages' \in [Requests -> [thread: ThreadIds \cup {"none"}, at: Nat,
                                    crossed: BOOLEAN]]
    BY <1>2, <1>3 DEF ThreadsInv, ThreadsTypeOK
  <2>2. requests' \in [Requests -> RequestRecord]
    BY <1>2, <1>4 DEF ThreadsInv, ThreadsTypeOK
  <2>3. QED BY <1>2, <2>1, <2>2 DEF ThreadsInv, ThreadsTypeOK, ThreadsStay
<1>7. RequestSound(c)'
  <2>1. /\ requests'[c].stage = "sent" /\ requests'[c].op # "mark"
        /\ requests'[c].thread = thread /\ requests'[c].user = Q.user
        /\ messages'[c] # NoMessage /\ messages'[c].thread = thread /\ messages'[c].at # 0
    BY <1>1, <1>3, <1>4, <1>5
  <2>2. QED BY <1>1, <1>2, <2>1 DEF RequestSound, Creating, Inside, Stored, IsThread
<1>8. NotesSound(c)'
  BY <1>1, <1>2, <1>4, <1>5 DEF NotesSound
<1>9. \A d \in Requests : RequestSound(d)' /\ NotesSound(d)'
  BY <1>2, <1>5, <1>6, <1>7, <1>8, OthersSound
<1>10. (\A id \in ThreadIds : ThreadSound(id)') /\ OneThreadUnlessRaced'
  BY <1>2 DEF ThreadsInv, ThreadSound, OneThreadUnlessRaced
<1>11. ~bothLooked' => \A d \in Requests : CreatesAlone(d)'
  BY <1>2, <1>4, AloneStep
<1>12. requests[c].stage \notin {"marked"} \cup Shown
  BY <1>1 DEF Shown
<1>13. \A id \in ThreadIds, user \in People : MarkOwned(id, user)'
  BY <1>2, <1>5, <1>12 DEF ThreadsInv, MarkOwned
<1>14. ASSUME NEW d \in Requests, messages'[d] # NoMessage, NEW u \in Readers(d)'
       PROVE  Accounted(d, u)'
  <2>1. CASE d = c
    <3>1. /\ messages'[d].thread = thread /\ messages'[d].at = Q.at
          /\ requests'[d].user = Q.user /\ u # Q.user /\ u \in People
          /\ lastRead[thread][u] \in Nat
      BY <1>1, <1>2, <1>3, <1>4, <1>5, <1>14, <2>1
      DEF Readers, IsThread, ThreadsInv, ThreadsTypeOK
    <3>2. CASE Q.at > lastRead[thread][u]
      BY <1>2, <3>1, <3>2 DEF Accounted, Unread
    <3>3. CASE lastRead[thread][u] >= Q.at
      <4>1. PICK e \in Requests :
              /\ requests[e].user = u /\ requests[e].thread = thread
              /\ requests[e].stage \in {"marked"} \cup Shown
              /\ requests[e].stamp = lastRead[thread][u]
        BY <1>1, <3>1, <3>3 DEF ThreadsInv, MarkOwned, IsThread, Never
      <4>2. CASE requests[e].stage = "marked"
        <5>1. e # c /\ requests'[e] = requests[e]
          BY <1>1, <1>5, <4>2
        <5>2. QED BY <3>1, <3>3, <4>1, <4>2, <5>1 DEF Accounted
      <4>3. CASE requests[e].stage \in Shown
        <5>1. passed
          BY <3>1, <3>3, <4>1, <4>3
        <5>2. messages'[d].crossed
          BY <1>3, <1>5, <2>1, <5>1
        <5>3. QED BY <5>2 DEF Accounted
      <4>4. QED BY <4>1, <4>2, <4>3
    <3>4. QED BY <1>1, <3>1, <3>2, <3>3
  <2>2. CASE d # c
    <3>1. messages'[d] = messages[d] /\ requests'[d] = requests[d]
      BY <1>5, <2>2
    <3>2. u \in Readers(d)
      BY <1>2, <1>14, <3>1 DEF Readers
    <3>3. Accounted(d, u)
      BY <1>14, <3>1, <3>2 DEF ThreadsInv
    <3>4. Unread(u, d) => Unread(u, d)'
      BY <1>2, <3>1 DEF Unread
    <3>5. requests[c].stage # "marked"
      BY <1>1
    <3>6. QED BY <1>2, <1>5, <3>1, <3>3, <3>4, <3>5 DEF Accounted
  <2>3. QED BY <2>1, <2>2
<1>15. QED
  BY <1>2, <1>6, <1>9, <1>10, <1>11, <1>13, <1>14 DEF ThreadsInv

\* The mark hides messages up to its time, which the request is about to read.
LEMMA StoreMarkInv ==
  ASSUME ThreadsInv, NEW c \in Requests, StoreMark(c)
  PROVE  ThreadsInv'
<1> DEFINE Q == requests[c]
           r == [Q EXCEPT !.stage = "marked"]
<1>1. /\ Q.stage = "marking" /\ Q \in RequestRecord /\ RequestSound(c) /\ NotesSound(c)
      /\ Stored(c) /\ IsThread(Q.thread) /\ Q.user \in threads[Q.thread].members
  BY DEF StoreMark, ThreadsInv, ThreadsTypeOK, RequestSound, Inside, Stored
<1>2. Q.user \in People /\ Q.thread \in ThreadIds /\ Q.stamp \in Nat
  BY <1>1 DEF IsThread, ThreadsInv, ThreadsTypeOK, RequestRecord
<1>3. /\ lastRead' = [lastRead EXCEPT ![Q.thread][Q.user] = Q.stamp]
      /\ requests' = [requests EXCEPT ![c] = r]
      /\ UNCHANGED <<clock, threads, messages, answered, notes, bothLooked>>
  BY DEF StoreMark, MoveTo
<1>4. /\ r \in RequestRecord /\ r.stage = "marked" /\ r.op = Q.op /\ r.user = Q.user
      /\ r.thread = Q.thread /\ r.stamp = Q.stamp
  BY <1>1 DEF RequestRecord
<1> HIDE DEF r
<1>5. /\ requests'[c] = r /\ \A d \in Requests \ {c} : requests'[d] = requests[d]
      /\ lastRead' \in [ThreadIds -> [People -> Nat]]
      /\ lastRead'[Q.thread][Q.user] = Q.stamp
      /\ \A id \in ThreadIds, u \in People :
           id # Q.thread \/ u # Q.user => lastRead'[id][u] = lastRead[id][u]
  BY <1>2, <1>3 DEF ThreadsInv, ThreadsTypeOK
<1>6. NotesSound(c)'
  BY <1>1, <1>3, <1>4, <1>5 DEF NotesSound
<1>7. ASSUME NEW id \in ThreadIds, NEW u \in People  PROVE MarkOwned(id, u)'
  <2>1. CASE id = Q.thread /\ u = Q.user
    BY <1>4, <1>5, <2>1 DEF MarkOwned
  <2>2. CASE id # Q.thread \/ u # Q.user
    <3>1. requests[c].stage \notin {"marked"} \cup Shown /\ MarkOwned(id, u)
      BY <1>1 DEF Shown, ThreadsInv
    <3>2. QED BY <1>5, <2>2, <3>1 DEF MarkOwned
  <2>3. QED BY <2>1, <2>2
<1>8. ASSUME NEW m \in Requests, messages[m] # NoMessage, NEW u \in Readers(m)
      PROVE  Accounted(m, u)'
  <2>1. /\ Accounted(m, u) /\ requests[c].stage # "marked" /\ requests'[m].user = requests[m].user
        /\ messages[m].at \in Nat /\ messages[m].thread \in ThreadIds /\ u \in People
        /\ u # requests[m].user
    <3>1. IsThread(messages[m].thread)
      BY <1>8 DEF ThreadsInv, RequestSound, Inside
    <3>2. QED
      BY <1>1, <1>4, <1>5, <1>8, <3>1 DEF ThreadsInv, ThreadsTypeOK, Readers, IsThread
  <2>2. CASE u = Q.user /\ messages[m].thread = Q.thread /\ Q.stamp >= messages[m].at
    BY <1>3, <1>4, <1>5, <2>2 DEF Accounted
  <2>3. CASE u = Q.user /\ messages[m].thread = Q.thread /\ messages[m].at > Q.stamp
    BY <1>3, <1>5, <2>1, <2>3 DEF Accounted, Unread
  <2>4. CASE u # Q.user \/ messages[m].thread # Q.thread
    <3>1. Unread(u, m) => Unread(u, m)'
      BY <1>3, <1>5, <2>1, <2>4 DEF Unread
    <3>2. QED BY <1>3, <1>5, <2>1, <3>1 DEF Accounted
  <2>5. QED BY <1>2, <2>1, <2>2, <2>3, <2>4
<1>9. answered' \in [People -> SUBSET Requests] /\ notes' \in [Requests -> [People -> Nat]]
      /\ \A d \in Requests \ {c} : notes'[d] = notes[d]
  BY <1>3 DEF ThreadsInv, ThreadsTypeOK
<1>10. QED
  BY <1>1, <1>3, <1>4, <1>5, <1>6, <1>7, <1>8, <1>9, LaterStep

\* Whoever reads the thread is shown all its messages.
LEMMA ShowStep ==
  ASSUME ThreadsInv, NEW c \in Requests, NEW stage \in {"reread", "answered"},
         requests[c].stage \in {"marked", "notified"},
         stage = "reread" => requests[c].op # "mark",
         answered' = [answered EXCEPT ![requests[c].user] = @ \cup InThread(requests[c].thread)],
         MoveTo(c, stage), NotesSound(c)',
         UNCHANGED <<clock, threads, lastRead, messages, notes, bothLooked>>
  PROVE  ThreadsInv'
<1> DEFINE Q == requests[c]
           r == [Q EXCEPT !.stage = stage]
<1>1. /\ Q \in RequestRecord /\ RequestSound(c) /\ Stored(c)
      /\ IsThread(Q.thread) /\ Q.user \in threads[Q.thread].members
  BY DEF ThreadsInv, ThreadsTypeOK, RequestSound, Inside, Stored
<1>2. Q.user \in People
  BY <1>1 DEF IsThread, ThreadsInv, ThreadsTypeOK
<1>3. requests' = [requests EXCEPT ![c] = r]
  BY DEF MoveTo
<1>4. /\ r \in RequestRecord /\ r.stage = stage /\ r.op = Q.op /\ r.user = Q.user
      /\ r.thread = Q.thread /\ r.stamp = Q.stamp
  BY <1>1 DEF RequestRecord
<1> HIDE DEF r
<1>5. /\ requests'[c] = r /\ \A d \in Requests \ {c} : requests'[d] = requests[d]
      /\ answered' \in [People -> SUBSET Requests]
      /\ answered'[Q.user] = answered[Q.user] \cup InThread(Q.thread)
      /\ \A u \in People : answered[u] \subseteq answered'[u]
  BY <1>2, <1>3 DEF ThreadsInv, ThreadsTypeOK, InThread
<1>6. ASSUME NEW id \in ThreadIds, NEW u \in People  PROVE MarkOwned(id, u)'
  <2>1. MarkOwned(id, u) /\ r.stage \in {"marked"} \cup Shown
    BY <1>4 DEF Shown, ThreadsInv
  <2>2. QED BY <1>4, <1>5, <2>1 DEF MarkOwned
<1>7. ASSUME NEW m \in Requests, messages[m] # NoMessage, NEW u \in Readers(m)
      PROVE  Accounted(m, u)'
  <2>1. Accounted(m, u) /\ requests'[m].user = requests[m].user /\ u \in People
    <3>1. IsThread(messages[m].thread)
      BY <1>7 DEF ThreadsInv, RequestSound, Inside
    <3>2. QED BY <1>4, <1>5, <1>7, <3>1 DEF ThreadsInv, ThreadsTypeOK, Readers, IsThread
  <2>2. CASE u = Q.user /\ messages[m].thread = Q.thread
    BY <1>5, <1>7, <2>2 DEF Accounted, InThread
  <2>3. CASE ~(u = Q.user /\ messages[m].thread = Q.thread)
    <3>1. Unread(u, m) => Unread(u, m)'
      BY <2>1 DEF Unread
    <3>2. QED BY <1>5, <2>1, <2>3, <3>1 DEF Accounted
  <2>4. QED BY <2>2, <2>3
<1>8. /\ lastRead' \in [ThreadIds -> [People -> Nat]] /\ notes' \in [Requests -> [People -> Nat]]
      /\ \A d \in Requests \ {c} : notes'[d] = notes[d]
  BY DEF ThreadsInv, ThreadsTypeOK
<1>9. QED
  BY <1>1, <1>3, <1>4, <1>5, <1>6, <1>7, <1>8, LaterStep

LEMMA ReadThreadInv ==
  ASSUME ThreadsInv, NEW c \in Requests, ReadThread(c)
  PROVE  ThreadsInv'
<1> DEFINE stage == IF requests[c].op = "mark" THEN "answered" ELSE "reread"
<1>1. /\ requests[c].stage = "marked" /\ MoveTo(c, stage)
      /\ answered' = [answered EXCEPT
           ![requests[c].user] = @ \cup InThread(requests[c].thread)]
      /\ UNCHANGED <<clock, threads, lastRead, messages, notes, bothLooked>>
  BY DEF ReadThread
<1>2. stage \in {"reread", "answered"} /\ (stage = "reread" => requests[c].op # "mark")
      /\ (stage = "answered" => requests[c].op = "mark")
  OBVIOUS
<1>3. NotesSound(c) /\ requests[c] \in RequestRecord
  BY DEF ThreadsInv, ThreadsTypeOK
<1> HIDE DEF stage
<1>4. /\ requests'[c].stage = stage /\ requests'[c].op = requests[c].op
      /\ requests'[c].user = requests[c].user /\ requests'[c].thread = requests[c].thread
  BY <1>1, <1>3 DEF MoveTo, ThreadsInv, ThreadsTypeOK, RequestRecord
<1>5. NotesSound(c)'
  BY <1>1, <1>2, <1>3, <1>4 DEF NotesSound
<1>6. QED BY <1>1, <1>2, <1>5, ShowStep

LEMMA ReadAgainInv ==
  ASSUME ThreadsInv, NEW c \in Requests, ReadAgain(c)
  PROVE  ThreadsInv'
<1>1. /\ requests[c].stage = "notified" /\ MoveTo(c, "answered")
      /\ answered' = [answered EXCEPT
           ![requests[c].user] = @ \cup InThread(requests[c].thread)]
      /\ UNCHANGED <<clock, threads, lastRead, messages, notes, bothLooked>>
      /\ requests[c] \in RequestRecord
  BY DEF ReadAgain, ThreadsInv, ThreadsTypeOK
<1>2. /\ requests'[c].stage = "answered" /\ requests'[c].op = requests[c].op
      /\ requests'[c].user = requests[c].user /\ requests'[c].thread = requests[c].thread
  BY <1>1 DEF MoveTo, ThreadsInv, ThreadsTypeOK, RequestRecord
<1>3. NotesSound(c)'
  BY <1>1, <1>2 DEF ThreadsInv, NotesSound
<1>4. QED BY <1>1, <1>3, ShowStep

\* Nobody was notified before, and the other member is now.
LEMMA NotifyMembersInv ==
  ASSUME ThreadsInv, NEW c \in Requests, NotifyMembers(c)
  PROVE  ThreadsInv'
<1> DEFINE Q == requests[c]
           stage == IF Q.at # Never /\ Q.op = "create" THEN "notified" ELSE "answered"
           r == [Q EXCEPT !.stage = stage]
<1>1. /\ Q.stage = "reread" /\ Q \in RequestRecord /\ RequestSound(c) /\ NotesSound(c)
      /\ Stored(c) /\ Q.op # "mark"
  BY DEF NotifyMembers, ThreadsInv, ThreadsTypeOK, RequestSound, Stored
<1>2. /\ notes' = [notes EXCEPT ![c] = [u \in People |-> IF u \in Recipients(Q.thread, Q.user)
                                                        THEN @[u] + 1 ELSE @[u]]]
      /\ requests' = [requests EXCEPT ![c] = r]
      /\ UNCHANGED <<clock, threads, lastRead, messages, answered, bothLooked>>
  BY DEF NotifyMembers, MoveTo
<1>3. stage \in {"notified", "answered"}
  OBVIOUS
<1> HIDE DEF stage
<1>4. /\ r \in RequestRecord /\ r.stage = stage /\ r.op = Q.op /\ r.user = Q.user
      /\ r.thread = Q.thread /\ r.stamp = Q.stamp
  BY <1>1, <1>3 DEF RequestRecord
<1> HIDE DEF r
<1>5. /\ requests'[c] = r /\ \A d \in Requests \ {c} : requests'[d] = requests[d]
      /\ \A d \in Requests \ {c} : notes'[d] = notes[d]
      /\ \A u \in People : notes'[c][u] = IF u \in Recipients(Q.thread, Q.user)
                                          THEN notes[c][u] + 1 ELSE notes[c][u]
  BY <1>2 DEF ThreadsInv, ThreadsTypeOK
<1>6. notes' \in [Requests -> [People -> Nat]]
  <2>1. [u \in People |-> IF u \in Recipients(Q.thread, Q.user)
                          THEN notes[c][u] + 1 ELSE notes[c][u]] \in [People -> Nat]
    BY DEF ThreadsInv, ThreadsTypeOK
  <2>2. QED BY <1>2, <2>1 DEF ThreadsInv, ThreadsTypeOK
<1>7. \A u \in People : notes[c][u] = 0
  BY <1>1 DEF NotesSound
<1>8. NotesSound(c)'
  BY <1>1, <1>2, <1>3, <1>4, <1>5, <1>7 DEF NotesSound, Recipients
<1>9. ASSUME NEW id \in ThreadIds, NEW u \in People  PROVE MarkOwned(id, u)'
  <2>1. MarkOwned(id, u) /\ r.stage \in {"marked"} \cup Shown
    BY <1>3, <1>4 DEF Shown, ThreadsInv
  <2>2. QED BY <1>2, <1>4, <1>5, <2>1 DEF MarkOwned
<1>10. ASSUME NEW m \in Requests, messages[m] # NoMessage, NEW u \in Readers(m)
       PROVE  Accounted(m, u)'
  <2>1. Accounted(m, u) /\ requests'[m].user = requests[m].user
    BY <1>4, <1>5, <1>10 DEF ThreadsInv
  <2>2. Unread(u, m) => Unread(u, m)'
    BY <1>2, <2>1 DEF Unread
  <2>3. QED BY <1>1, <1>2, <1>5, <2>1, <2>2 DEF Accounted
<1>11. lastRead' \in [ThreadIds -> [People -> Nat]] /\ answered' \in [People -> SUBSET Requests]
  BY <1>2 DEF ThreadsInv, ThreadsTypeOK
<1>12. QED
  BY <1>1, <1>2, <1>3, <1>4, <1>5, <1>6, <1>8, <1>9, <1>10, <1>11, LaterStep

LEMMA ThreadsInvNext == ThreadsInv /\ [ThreadsNext]_threadVars => ThreadsInv'
<1> SUFFICES ASSUME ThreadsInv, [ThreadsNext]_threadVars  PROVE ThreadsInv'
  OBVIOUS
<1>1. ASSUME NEW c \in Requests, Arrive(c)  PROVE ThreadsInv'
  BY <1>1, FindThreadInv, AskForThreadInv DEF Arrive
<1>2. ASSUME NEW c \in Requests, Serve(c)  PROVE ThreadsInv'
  BY <1>2, StampThreadInv, CreateThreadInv, AssertMemberInv, StampMessageInv, StoreMessageInv,
     StampMarkInv, StoreMarkInv, ReadThreadInv, NotifyMembersInv, ReadAgainInv DEF Serve
<1>3. CASE UNCHANGED threadVars
  <2>1. UNCHANGED <<clock, threads, lastRead, messages, requests, answered, notes, bothLooked>>
    BY <1>3 DEF threadVars
  <2>2. ThreadsStay /\ ThreadsTypeOK'
    BY <2>1 DEF ThreadsStay, ThreadsInv, ThreadsTypeOK
  <2>3. \A d \in Requests : RequestSound(d)' /\ NotesSound(d)'
    BY <2>1, <2>2, OthersSound
  <2>4. QED
    BY <2>1, <2>2, <2>3
    DEF ThreadsInv, ThreadSound, MarkOwned, Readers, Accounted, Unread, OneThreadUnlessRaced,
        CreatesAlone, Creating, PairOf
<1>4. QED BY <1>1, <1>2, <1>3, TickInv DEF ThreadsNext

\* The invariant of the threads holds, for any people, requests and threads.
THEOREM ThreadsInvariance == ThreadsSpec => []ThreadsInv
<1>1. QED BY ThreadsInvInit, ThreadsInvNext, PTL DEF ThreadsSpec

\* Two users have one thread unless two first messages both looked for it.
THEOREM SecondThreadsComeOfRaces == ThreadsSpec => []OneThreadUnlessRaced
<1>1. ThreadsInv => OneThreadUnlessRaced
  BY DEF ThreadsInv
<1>2. QED BY <1>1, ThreadsInvariance, PTL

\* No message counts as read that its reader was not shown, unless it was stored
\* behind the reader's mark, or the reader's request has yet to read the thread.
THEOREM ReadMessagesWereShown == ThreadsSpec => []ReadWasShown
<1>1. ThreadsInv => ReadWasShown
  BY DEF ThreadsInv, ReadWasShown, Readers, Accounted
<1>2. QED BY <1>1, ThreadsInvariance, PTL

\* An answer to the author of a message means that it is stored and that the
\* other member was notified of it once.
THEOREM AnsweredMeansTold == ThreadsSpec => []OthersToldOnce
<1>1. ASSUME ThreadsInv  PROVE OthersToldOnce
  <2>1. SUFFICES ASSUME NEW c \in Requests, NEW user \in People
                 PROVE  /\ notes[c][user] <= 1
                        /\ notes[c][user] = 1 =>
                             /\ messages[c] # NoMessage /\ user # requests[c].user
                             /\ user \in threads[messages[c].thread].members
                        /\ (requests[c].stage = "answered" /\ requests[c].op # "mark") =>
                             \E other \in People : notes[c][other] = 1
    BY DEF OthersToldOnce
  <2>2. RequestSound(c) /\ NotesSound(c)
    BY <1>1 DEF ThreadsInv
  <2>3. notes[c][user] <= 1
    BY <2>2 DEF NotesSound
  <2>4. ASSUME notes[c][user] = 1
        PROVE  /\ messages[c] # NoMessage /\ user # requests[c].user
               /\ user \in threads[messages[c].thread].members
    BY <2>2, <2>4 DEF NotesSound, RequestSound, Stored
  <2>5. ASSUME requests[c].stage = "answered", requests[c].op # "mark"
        PROVE  \E other \in People : notes[c][other] = 1
    <3>1. IsThread(requests[c].thread)
      BY <2>2, <2>5 DEF RequestSound, Inside, Stored
    <3>2. PICK a, b \in People : a # b /\ threads[requests[c].thread].members = {a, b}
      BY <1>1, <3>1 DEF ThreadsInv, ThreadSound, IsThread
    <3>3. PICK other \in {a, b} : other # requests[c].user
      BY <3>2
    <3>4. QED BY <2>2, <2>5, <3>2, <3>3 DEF NotesSound
  <2>6. QED BY <2>3, <2>4, <2>5
<1>2. QED BY <1>1, ThreadsInvariance, PTL


==========================================================================
