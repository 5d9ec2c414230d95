---------------------- MODULE ProjectFollowsProofs -----------------------
(* Proofs about ProjectFollows, for any finite set of users and any       *)
(* requests.  The inductive invariant is Inv.  It adds to the properties  *)
(* what an open transaction knows while no other commit has overtaken it, *)
(* that the locks keep two writes of one follow row apart, and what a     *)
(* request still owes the search document and the cached page.            *)
EXTENDS ProjectFollows, FiniteSetTheorems, TLAPS

\* What the stage of a request says of the rest of it.
CallSound(c) ==
  LET call == calls[c]
  IN /\ Open(c) => call.op \in FollowOps /\ call.user \in Users
     /\ call.left # {} => call.stage \in {"committed", "failed"}
     /\ "doc" \in call.left =>
          call.op # "view" /\ (call.op \in {"hide", "delete"} => call.count = None)
     /\ call.own # "none" => call.stage \in {"written", "counted"}
     /\ call.own = "added" => call.op = "follow" /\ call.user \notin follows
     /\ call.own = "removed" => call.op = "unfollow" /\ call.user \in follows
     /\ call.stage \in {"counted", "read"} => call.count \in Nat
     /\ call.stage = "idle" => call.own = "none" /\ call.count = None
     /\ call.stage \in {"written", "counted"} /\ call.own = "none"
          /\ status # "deleted" /\ wishes[call.user] # "raced" =>
          (call.op = "follow" <=> call.user \in follows)

\* Only one open transaction has written the follow row of a user.
OneWriter ==
  \A c, d \in Calls :
    calls[c].own # "none" /\ calls[d].own # "none" /\ calls[c].user = calls[d].user => c = d

\* As long as no commit has overtaken a count, every count is right.
CountsRight ==
  /\ followers = Cardinality(follows)
  /\ \A c \in Calls :
       calls[c].stage = "counted" /\ status # "deleted" =>
         calls[c].count = Counted(calls[c].own, calls[c].user)

\* What the document of the row as it is shows.
Target == IF status = "APPROVED" THEN followers ELSE None

\* As long as no commit has overtaken another one's writes: one request at
\* most has writes left, with the number of the row as it is; without it,
\* document and page are right.
Shown ==
  /\ \A c, d \in Calls : calls[c].left # {} /\ calls[d].left # {} => c = d
  /\ \A c \in Calls : calls[c].stage = "read" =>
       status = "APPROVED" /\ calls[c].count = followers
  /\ \A c \in Calls : "doc" \in calls[c].left =>
       IF calls[c].op \in FollowOps
       THEN calls[c].count = followers /\ (doc = None <=> status # "APPROVED")
       ELSE calls[c].count = Target
  /\ (\A c \in Calls : "doc" \notin calls[c].left) => doc = Target
  /\ (\A c \in Calls : "page" \notin calls[c].left) => page \in {None, Target}

Inv ==
  /\ TypeOK
  /\ \A c \in Calls : CallSound(c)
  /\ OneWriter
  /\ ~raced => CountsRight
  /\ OwnRequestsCount
  /\ ~overlapped => Shown

--------------------------------------------------------------------------
(* Lemmas.                                                                *)

\* The number of users in a set of them.
LEMMA CountFacts ==
  ASSUME NEW S \in SUBSET Users
  PROVE Cardinality(S) \in Nat
<1>1. IsFiniteSet(S)
  BY UsersAssumption, FS_Subset
<1> QED
  BY <1>1, FS_CardinalityType

\* A request that moves on, without a commit and without touching document or
\* page, leaves what the others know.
LEMMA MoveStep ==
  ASSUME Inv, NEW c \in Calls, NEW call \in Call,
         calls' = [calls EXCEPT ![c] = call], UNCHANGED <<Tables, doc, page>>,
         CallSound(c)', calls[c].left = {}, call.left = {},
         call.stage = "read" => status = "APPROVED" /\ call.count = followers,
         call.stage = "counted" /\ ~raced /\ status # "deleted" =>
           call.count = Counted(call.own, call.user),
         call.own # "none" =>
           \A d \in Calls \ {c} : calls[d].own # "none" => calls[d].user # call.user
  PROVE Inv'
<1>1. /\ calls' \in [Calls -> Call] /\ calls'[c] = call
      /\ \A d \in Calls \ {c} : calls'[d] = calls[d]
  BY DEF Inv, TypeOK
<1>2. TypeOK'
  BY <1>1 DEF Inv, TypeOK, Tables
<1>3. ASSUME NEW d \in Calls PROVE CallSound(d)'
  <2>1. CASE d = c
    BY <2>1
  <2>2. CASE d # c
    BY <1>1, <2>2 DEF Inv, CallSound, Open, Tables
  <2> QED
    BY <2>1, <2>2
<1>4. OneWriter'
  BY <1>1 DEF Inv, OneWriter
<1>5. ~raced' => CountsRight'
  <2> SUFFICES ASSUME ~raced, CountsRight PROVE CountsRight'
    BY DEF Inv, Tables
  <2>1. ASSUME NEW d \in Calls, calls'[d].stage = "counted", status # "deleted"
        PROVE calls'[d].count = Counted(calls'[d].own, calls'[d].user)
    <3>1. CASE d = c
      BY <1>1, <2>1, <3>1
    <3>2. CASE d # c
      BY <1>1, <2>1, <3>2 DEF CountsRight
    <3> QED
      BY <3>1, <3>2
  <2> QED
    BY <2>1 DEF CountsRight, Counted, Applied, Tables
<1>6. OwnRequestsCount'
  BY DEF Inv, OwnRequestsCount, Tables
<1>7. ~overlapped' => Shown'
  <2> SUFFICES ASSUME Shown PROVE Shown'
    BY DEF Inv, Tables
  <2>1. \A d \in Calls : calls'[d].left # {} => d # c /\ calls'[d] = calls[d]
    BY <1>1
  <2>2. \A d \in Calls : calls'[d].left = calls[d].left
    BY <1>1
  <2>3. ASSUME NEW d \in Calls, calls'[d].stage = "read"
        PROVE status = "APPROVED" /\ calls'[d].count = followers
    <3>1. CASE d = c
      BY <1>1, <2>3, <3>1
    <3>2. CASE d # c
      BY <1>1, <2>3, <3>2 DEF Shown
    <3> QED
      BY <3>1, <3>2
  <2>4. ASSUME NEW d \in Calls, "doc" \in calls'[d].left
        PROVE IF calls'[d].op \in FollowOps
              THEN calls'[d].count = followers /\ (doc = None <=> status # "APPROVED")
              ELSE calls'[d].count = Target
    <3>1. calls'[d] = calls[d]
      BY <2>1, <2>4
    <3> QED
      BY <2>4, <3>1 DEF Shown
  <2> QED
    BY <2>1, <2>2, <2>3, <2>4 DEF Shown, Target, Tables
<1> QED
  BY <1>2, <1>3, <1>4, <1>5, <1>6, <1>7 DEF Inv

\* A request that is over knows nothing that could be wrong.
LEMMA BlankFacts ==
  ASSUME NEW stage \in {"done", "refused"}
  PROVE LET over == [Blank EXCEPT !.stage = stage]
        IN /\ over \in Call /\ over.stage = stage /\ over.left = {}
           /\ over.own = "none" /\ over.count = None
BY DEF Blank, Call, Number

\* A handler throws, or its transaction is rolled back.
LEMMA RefuseStep ==
  ASSUME Inv, NEW c \in Calls, Refuse(c), calls[c].left = {}
  PROVE Inv'
<1> DEFINE call == [Blank EXCEPT !.stage = "refused"]
<1>1. /\ call \in Call /\ call.stage = "refused" /\ call.left = {}
      /\ call.own = "none"
  BY BlankFacts
<1>2. calls' = [calls EXCEPT ![c] = call] /\ UNCHANGED <<Tables, doc, page>>
  BY DEF Refuse
<1> HIDE DEF call
<1>3. calls'[c] = call
  BY <1>2 DEF Inv, TypeOK
<1>4. CallSound(c)'
  BY <1>1, <1>3 DEF CallSound, Open
<1> QED
  BY <1>1, <1>2, <1>4, MoveStep

--------------------------------------------------------------------------
(* The steps before a commit.                                             *)

\* The initial states satisfy the invariant.
LEMMA InvInit == Init => Inv
<1> SUFFICES ASSUME Init PROVE Inv
  OBVIOUS
<1>1. /\ Blank \in Call /\ Blank.stage = "idle" /\ Blank.left = {}
      /\ Blank.own = "none" /\ Blank.count = None
  BY DEF Blank, Call, Number
<1>2. calls \in [Calls -> Call] /\ \A c \in Calls : calls[c] = Blank
  BY <1>1 DEF Init
<1>3. followers \in Nat
  BY CountFacts DEF Init
<1>4. TypeOK
  BY <1>2, <1>3 DEF Init, TypeOK, Statuses, Number, FollowOps
<1>5. \A c \in Calls : CallSound(c)
  BY <1>1, <1>2 DEF CallSound, Open
<1>6. OneWriter
  BY <1>1, <1>2 DEF OneWriter
<1>7. CountsRight
  BY <1>1, <1>2 DEF Init, CountsRight
<1>8. OwnRequestsCount
  BY DEF Init, OwnRequestsCount
<1>9. Shown
  BY <1>1, <1>2 DEF Init, Shown, Target
<1> QED
  BY <1>4, <1>5, <1>6, <1>7, <1>8, <1>9 DEF Inv

\* The lookup of a follow or unfollow.
LEMMA FindProjectInv ==
  ASSUME Inv, NEW c \in Calls, NEW op \in FollowOps, NEW user \in Users,
         FindProject(c, op, user)
  PROVE Inv'
<1>1. calls[c] \in Call /\ calls[c].stage = "idle" /\ CallSound(c)
  BY DEF FindProject, Inv, TypeOK
<1>2. calls[c].left = {} /\ calls[c].own = "none"
  BY <1>1 DEF CallSound
<1> DEFINE call == [calls[c] EXCEPT !.stage = "found", !.op = op, !.user = user]
<1>3. /\ call \in Call /\ call.stage = "found" /\ call.op = op /\ call.user = user
      /\ call.own = "none" /\ call.left = {}
  BY <1>1, <1>2 DEF Call, FollowOps
<1>4. CASE Refuse(c)
  BY <1>2, <1>4, RefuseStep
<1>5. CASE calls' = [calls EXCEPT ![c] = call] /\ UNCHANGED <<Tables, doc, page>>
  <2> HIDE DEF call
  <2>1. calls'[c] = call
    BY <1>5 DEF Inv, TypeOK
  <2>2. CallSound(c)'
    BY <1>3, <2>1 DEF CallSound, Open
  <2> QED
    BY <1>2, <1>3, <1>5, <2>2, MoveStep
<1> QED
  BY <1>4, <1>5 DEF FindProject

\* Where no lock of another transaction stands in the way, none has written
\* the follow row of the user.
LEMMA LockFacts ==
  ASSUME Inv, NEW c \in Calls, NEW user, NEW writes, ~Locked(c, user, writes),
         NEW d \in Calls \ {c}, calls[d].own # "none", calls[d].user = user
  PROVE calls[d].own \notin writes
<1>1. Open(d)
  BY DEF Inv, CallSound, Open
<1> QED
  BY <1>1 DEF Locked

\* The upsert of a follow row.
LEMMA UpsertFollowInv ==
  ASSUME Inv, NEW c \in Calls, UpsertFollow(c)
  PROVE Inv'
<1> DEFINE user == calls[c].user
           own == IF user \in follows THEN "none" ELSE "added"
           call == [calls[c] EXCEPT !.stage = "written", !.own = own]
<1>1. /\ calls[c] \in Call /\ calls[c].stage = "found" /\ calls[c].op = "follow"
      /\ CallSound(c) /\ ~Locked(c, user, {"added", "removed"})
  BY DEF UpsertFollow, Inv, TypeOK
<1>2. calls[c].left = {} /\ user \in Users
  BY <1>1 DEF CallSound, Open
<1>3. /\ call \in Call /\ call.stage = "written" /\ call.op = "follow"
      /\ call.user = user /\ call.own = own /\ call.left = {}
  BY <1>1, <1>2 DEF Call, FollowOps
<1>4. CASE Refuse(c)
  BY <1>2, <1>4, RefuseStep
<1>5. CASE calls' = [calls EXCEPT ![c] = call] /\ UNCHANGED <<Tables, doc, page>>
  <2> HIDE DEF call
  <2>1. calls'[c] = call
    BY <1>5 DEF Inv, TypeOK
  <2>2. CallSound(c)'
    BY <1>2, <1>3, <1>5, <2>1 DEF CallSound, Open, Tables, FollowOps
  <2>3. \A d \in Calls \ {c} : calls[d].own # "none" => calls[d].user # call.user
    <3> SUFFICES ASSUME NEW d \in Calls \ {c}, calls[d].own # "none", calls[d].user = user
                 PROVE FALSE
      BY <1>3
    <3>1. calls[d].own \notin {"added", "removed"}
      BY <1>1, LockFacts
    <3> QED
      BY <3>1 DEF Inv, TypeOK, Call
  <2> QED
    BY <1>2, <1>3, <1>5, <2>2, <2>3, MoveStep
<1> QED
  BY <1>4, <1>5 DEF UpsertFollow

\* The deletion of a follow row.
LEMMA DeleteFollowInv ==
  ASSUME Inv, NEW c \in Calls, DeleteFollow(c)
  PROVE Inv'
<1> DEFINE user == calls[c].user
           own == IF user \in follows THEN "removed" ELSE "none"
           call == [calls[c] EXCEPT !.stage = "written", !.own = own]
<1>1. /\ calls[c] \in Call /\ calls[c].stage = "found" /\ calls[c].op = "unfollow"
      /\ CallSound(c) /\ ~Locked(c, user, {"removed"})
  BY DEF DeleteFollow, Inv, TypeOK
<1>2. calls[c].left = {} /\ user \in Users
  BY <1>1 DEF CallSound, Open
<1>3. /\ call \in Call /\ call.stage = "written" /\ call.op = "unfollow"
      /\ call.user = user /\ call.own = own /\ call.left = {}
  BY <1>1, <1>2 DEF Call, FollowOps
<1>4. calls' = [calls EXCEPT ![c] = call] /\ UNCHANGED <<Tables, doc, page>>
  BY DEF DeleteFollow
<1> HIDE DEF call
<1>5. calls'[c] = call
  BY <1>4 DEF Inv, TypeOK
<1>6. CallSound(c)'
  BY <1>2, <1>3, <1>4, <1>5 DEF CallSound, Open, Tables, FollowOps
<1>7. ASSUME call.own # "none", NEW d \in Calls \ {c}, calls[d].own # "none",
             calls[d].user = user
      PROVE FALSE
  <2>1. calls[d].own # "removed"
    BY <1>1, <1>7, LockFacts
  <2>2. calls[d].own # "added"
    BY <1>3, <1>7 DEF Inv, CallSound
  <2> QED
    BY <1>7, <2>1, <2>2 DEF Inv, TypeOK, Call
<1> QED
  BY <1>2, <1>3, <1>4, <1>6, <1>7, MoveStep

\* The count of the follow rows.
LEMMA CountFollowsInv ==
  ASSUME Inv, NEW c \in Calls, CountFollows(c)
  PROVE Inv'
<1> DEFINE number == Counted(calls[c].own, calls[c].user)
           call == [calls[c] EXCEPT !.stage = "counted", !.count = number]
<1>1. /\ calls[c] \in Call /\ calls[c].stage = "written" /\ CallSound(c)
      /\ follows \in SUBSET Users
  BY DEF CountFollows, Inv, TypeOK
<1>2. calls[c].left = {} /\ calls[c].user \in Users
  BY <1>1 DEF CallSound, Open
<1>3. Applied(calls[c].own, calls[c].user) \in SUBSET Users
  BY <1>1, <1>2 DEF Applied, Call
<1>4. number \in Nat
  BY <1>3, CountFacts DEF Counted
<1> HIDE DEF number
<1>5. /\ call \in Call /\ call.stage = "counted" /\ call.op = calls[c].op
      /\ call.user = calls[c].user /\ call.own = calls[c].own /\ call.left = {}
      /\ call.count = number
  BY <1>1, <1>2, <1>4 DEF Call, Number
<1>6. calls' = [calls EXCEPT ![c] = call] /\ UNCHANGED <<Tables, doc, page>>
  BY DEF CountFollows, number
<1> HIDE DEF call
<1>7. calls'[c] = call
  BY <1>6 DEF Inv, TypeOK
<1>8. CallSound(c)'
  BY <1>1, <1>2, <1>4, <1>5, <1>6, <1>7 DEF CallSound, Open, Tables
<1>9. call.count = Counted(call.own, call.user)
  BY <1>5 DEF number
<1>10. call.own # "none" =>
         \A d \in Calls \ {c} : calls[d].own # "none" => calls[d].user # call.user
  BY <1>5 DEF Inv, OneWriter
<1> QED
  BY <1>2, <1>5, <1>6, <1>8, <1>9, <1>10, MoveStep

\* An open transaction ends without a commit.
LEMMA RollBackInv ==
  ASSUME Inv, NEW c \in Calls, RollBack(c)
  PROVE Inv'
<1>1. calls[c].left = {}
  BY DEF RollBack, Open, Inv, CallSound
<1> QED
  BY <1>1, RefuseStep DEF RollBack

\* A page load that finds no page.
LEMMA MissPageInv ==
  ASSUME Inv, NEW c \in Calls, MissPage(c)
  PROVE Inv'
<1> DEFINE call == [calls[c] EXCEPT !.stage = "missed"]
<1>1. calls[c] \in Call /\ calls[c].stage = "idle" /\ CallSound(c)
  BY DEF MissPage, Inv, TypeOK
<1>2. calls[c].left = {} /\ calls[c].own = "none"
  BY <1>1 DEF CallSound
<1>3. call \in Call /\ call.stage = "missed" /\ call.own = "none" /\ call.left = {}
  BY <1>1, <1>2 DEF Call
<1>4. calls' = [calls EXCEPT ![c] = call] /\ UNCHANGED <<Tables, doc, page>>
  BY DEF MissPage
<1> HIDE DEF call
<1>5. calls'[c] = call
  BY <1>4 DEF Inv, TypeOK
<1>6. CallSound(c)'
  BY <1>3, <1>5 DEF CallSound, Open
<1> QED
  BY <1>2, <1>3, <1>4, <1>6, MoveStep

\* The page load reads the row.
LEMMA ReadRowInv ==
  ASSUME Inv, NEW c \in Calls, ReadRow(c)
  PROVE Inv'
<1> DEFINE call == [calls[c] EXCEPT !.stage = "read", !.count = followers]
<1>1. /\ calls[c] \in Call /\ calls[c].stage = "missed" /\ CallSound(c)
      /\ followers \in Nat
  BY DEF ReadRow, Inv, TypeOK
<1>2. calls[c].left = {} /\ calls[c].own = "none"
  BY <1>1 DEF CallSound
<1>3. /\ call \in Call /\ call.stage = "read" /\ call.own = "none" /\ call.left = {}
      /\ call.count = followers
  BY <1>1, <1>2 DEF Call, Number
<1>4. CASE Refuse(c)
  BY <1>2, <1>4, RefuseStep
<1>5. CASE /\ status = "APPROVED" /\ calls' = [calls EXCEPT ![c] = call]
           /\ UNCHANGED <<Tables, doc, page>>
  <2> HIDE DEF call
  <2>1. calls'[c] = call
    BY <1>5 DEF Inv, TypeOK
  <2>2. CallSound(c)'
    BY <1>1, <1>3, <2>1 DEF CallSound, Open
  <2> QED
    BY <1>2, <1>3, <1>5, <2>2, MoveStep
<1> QED
  BY <1>4, <1>5 DEF ReadRow

--------------------------------------------------------------------------
(* The commits.                                                           *)

\* A commit that leaves the tables right and the other requests sound.
LEMMA CommitStep ==
  ASSUME Inv, NEW c \in Calls, NEW call \in Call, Commit(c, call),
         calls[c].left = {}, calls[c].stage # "read",
         status' \in Statuses, follows' \in SUBSET Users, followers' \in Nat,
         wishes' \in [Users -> FollowOps \cup {"raced"}],
         \A d \in Calls \ {c} : CallSound(d)',
         ~raced => followers' = Cardinality(follows'),
         OwnRequestsCount',
         call.op # "view", call.op \in {"hide", "delete"} => call.count = None,
         IF call.op \in FollowOps THEN call.count = followers' /\ status' = status
         ELSE call.count = Target'
  PROVE Inv'
<1> DEFINE new == [call EXCEPT !.stage = "committed", !.user = Nobody, !.own = "none",
                               !.left = {"doc", "page"}]
<1>1. /\ new \in Call /\ new.stage = "committed" /\ new.own = "none"
      /\ new.left = {"doc", "page"} /\ new.op = call.op /\ new.count = call.count
  BY DEF Call
<1>2. /\ calls' = [calls EXCEPT ![c] = new]
      /\ raced' = (raced \/ \E d \in Calls \ {c} : calls[d].stage = "counted")
      /\ overlapped' = (overlapped \/
           \E d \in Calls \ {c} : calls[d].left # {} \/ calls[d].stage = "read")
      /\ UNCHANGED <<doc, page>>
  BY DEF Commit
<1> HIDE DEF new
<1>3. /\ calls' \in [Calls -> Call] /\ calls'[c] = new
      /\ \A d \in Calls \ {c} : calls'[d] = calls[d]
  BY <1>1, <1>2 DEF Inv, TypeOK
<1>4. TypeOK'
  BY <1>2, <1>3 DEF Inv, TypeOK
<1>5. \A d \in Calls : CallSound(d)'
  <2>1. CallSound(c)'
    BY <1>1, <1>3 DEF CallSound, Open
  <2> QED
    BY <2>1
<1>6. OneWriter'
  BY <1>1, <1>3 DEF Inv, OneWriter
<1>7. ~raced' => CountsRight'
  <2> SUFFICES ASSUME ~raced, \A d \in Calls \ {c} : calls[d].stage # "counted"
               PROVE CountsRight'
    BY <1>2
  <2>1. \A d \in Calls : calls'[d].stage # "counted"
    BY <1>1, <1>3
  <2> QED
    BY <2>1 DEF CountsRight
<1>8. ~overlapped' => Shown'
  <2> SUFFICES ASSUME Shown,
                      \A d \in Calls \ {c} : calls[d].left = {} /\ calls[d].stage # "read"
               PROVE Shown'
    BY <1>2 DEF Inv
  <2>1. \A d \in Calls \ {c} : calls'[d].left = {} /\ calls'[d].stage # "read"
    BY <1>3
  <2>2. doc = Target
    BY DEF Shown
  <2>3. call.op \in FollowOps => (doc = None <=> status # "APPROVED")
    BY <2>2 DEF Target, None, Inv, TypeOK
  <2>4. \A d \in Calls : calls'[d].stage # "read"
    BY <1>1, <1>3, <2>1
  <2>5. \A d \in Calls : calls'[d].left # {} => d = c
    BY <2>1
  <2>6. calls'[c].left = {"doc", "page"} /\ calls'[c].op = call.op /\ calls'[c].count = call.count
    BY <1>1, <1>3
  <2>7. ASSUME NEW d \in Calls, "doc" \in calls'[d].left
        PROVE IF calls'[d].op \in FollowOps
              THEN calls'[d].count = followers' /\ (doc' = None <=> status' # "APPROVED")
              ELSE calls'[d].count = Target'
    <3>1. d = c
      BY <2>5, <2>7
    <3> QED
      BY <1>2, <2>3, <2>6, <3>1
  <2> QED
    BY <2>4, <2>5, <2>6, <2>7 DEF Shown
<1> QED
  BY <1>4, <1>5, <1>6, <1>7, <1>8 DEF Inv

\* The commit of a follow or unfollow.
LEMMA CommitFollowInv ==
  ASSUME Inv, NEW c \in Calls, CommitFollow(c)
  PROVE Inv'
<1>1. /\ calls[c] \in Call /\ calls[c].stage = "counted" /\ CallSound(c)
      /\ follows \in SUBSET Users /\ wishes \in [Users -> FollowOps \cup {"raced"}]
  BY DEF CommitFollow, Inv, TypeOK
<1> DEFINE user == calls[c].user
           own == calls[c].own
           op == calls[c].op
<1>2. /\ calls[c].left = {} /\ user \in Users /\ op \in FollowOps
      /\ calls[c].count \in Nat /\ own \in {"none", "added", "removed"}
  BY <1>1 DEF CallSound, Open, Call
<1>3. CASE Refuse(c)
  BY <1>2, <1>3, RefuseStep
<1>4. CASE status # "deleted" /\ ~Refuse(c)
  <2> DEFINE rivals == \E d \in Calls \ {c} : Open(d) /\ calls[d].user = user
  <2>1. /\ follows' = Applied(own, user) /\ followers' = calls[c].count
        /\ wishes' = [wishes EXCEPT ![user] =
             IF rivals THEN "raced" ELSE IF wishes[user] = "raced" THEN wishes[user] ELSE op]
        /\ Commit(c, calls[c]) /\ status' = status
    BY <1>4 DEF CommitFollow
  <2>2. follows' \in SUBSET Users
    BY <1>1, <1>2, <2>1 DEF Applied
  <2>3. wishes' \in [Users -> FollowOps \cup {"raced"}]
    BY <1>1, <1>2, <2>1
  <2>4. ~raced => followers' = Cardinality(follows')
    BY <1>1, <1>4, <2>1 DEF Inv, CountsRight, Counted
  <2>5. \A u \in Users \ {user} : (u \in follows' <=> u \in follows) /\ wishes'[u] = wishes[u]
    BY <1>1, <1>2, <2>1 DEF Applied
  <2>6. ASSUME NEW d \in Calls \ {c} PROVE CallSound(d)'
    <3>1. calls'[d] = calls[d] /\ CallSound(d)
      BY <2>1 DEF Commit, Inv, TypeOK
    <3>2. CASE calls[d].user # user \/ ~Open(d)
      <4>1. CASE Open(d) /\ calls[d].user # user
        <5>1. calls[d].user \in Users \ {user}
          BY <3>1, <4>1 DEF CallSound
        <5> QED
          BY <2>1, <2>5, <3>1, <5>1 DEF CallSound, Open
      <4>2. CASE ~Open(d)
        BY <3>1, <4>2 DEF CallSound, Open, Inv, TypeOK, Call
      <4> QED
        BY <3>2, <4>1, <4>2
    <3>3. CASE Open(d) /\ calls[d].user = user
      <4>1. wishes'[user] = "raced"
        BY <1>1, <1>2, <2>1, <3>3
      <4>2. calls[d].own # "none" => own = "none"
        BY <3>3 DEF Inv, OneWriter
      <4>3. calls[d].own # "none" => follows' = follows
        BY <2>1, <4>2 DEF Applied
      <4> QED
        BY <2>1, <3>1, <3>3, <4>1, <4>3 DEF CallSound, Open
    <3> QED
      BY <3>2, <3>3
  <2>7. OwnRequestsCount'
    <3> SUFFICES ASSUME NEW u \in Users, wishes'[u] # "raced"
                 PROVE u \in follows' <=> wishes'[u] = "follow"
      BY DEF OwnRequestsCount
    <3>1. CASE u # user
      BY <2>5, <3>1 DEF Inv, OwnRequestsCount
    <3>2. CASE u = user
      <4>1. wishes[user] # "raced" /\ wishes'[user] = op
        BY <1>1, <1>2, <2>1, <3>2
      <4>2. CASE own = "none"
        BY <1>1, <1>4, <2>1, <3>2, <4>1, <4>2 DEF CallSound, Applied
      <4>3. CASE own = "added"
        BY <1>1, <2>1, <3>2, <4>1, <4>3 DEF CallSound, Applied
      <4>4. CASE own = "removed"
        BY <1>1, <2>1, <3>2, <4>1, <4>4 DEF CallSound, Applied
      <4> QED
        BY <1>2, <4>2, <4>3, <4>4
    <3> QED
      BY <3>1, <3>2
  <2>8. status' \in Statuses /\ calls[c].stage # "read"
        /\ op \notin {"view", "hide", "delete"}
    BY <1>1, <1>2, <2>1 DEF Inv, TypeOK, FollowOps
  <2> QED
    BY <1>1, <1>2, <2>1, <2>2, <2>3, <2>4, <2>6, <2>7, <2>8, CommitStep
<1> QED
  BY <1>3, <1>4 DEF CommitFollow

\* updateProject and moderateProject.
LEMMA ChangeProjectInv ==
  ASSUME Inv, NEW c \in Calls, NEW op \in CatalogOps, ChangeProject(c, op)
  PROVE Inv'
<1> DEFINE number == IF status' = "APPROVED" THEN followers ELSE None
           call == [calls[c] EXCEPT !.op = op, !.count = number]
<1>1. /\ calls[c] \in Call /\ calls[c].stage = "idle" /\ CallSound(c)
      /\ status # "deleted" /\ status \in Statuses /\ followers \in Nat
      /\ op \in {"edit", "approve", "hide"}
      /\ UNCHANGED <<follows, followers, wishes>>
  BY DEF ChangeProject, Inv, TypeOK
<1>2. status' \in Statuses /\ status' # "deleted"
  BY <1>1 DEF ChangeProject, Statuses
<1>3. number \in Number /\ number = Target'
  BY <1>1 DEF Number, Target
<1>4. Commit(c, call)
  BY DEF ChangeProject
<1> HIDE DEF number
<1>5. /\ call \in Call /\ call.op = op /\ op \notin FollowOps /\ call.count = number
      /\ op \notin {"view", "delete"}
  BY <1>1, <1>3 DEF Call, CatalogOps, FollowOps
<1> HIDE DEF call
<1>5a. op = "hide" => number = None
  BY DEF ChangeProject, number
<1>6. ASSUME NEW d \in Calls \ {c} PROVE CallSound(d)'
  <2>1. calls'[d] = calls[d] /\ CallSound(d)
    BY <1>4 DEF Commit, Inv, TypeOK
  <2> QED
    BY <1>1, <1>2, <2>1 DEF CallSound, Open
<1>7. calls[c].left = {} /\ calls[c].stage # "read"
  BY <1>1 DEF CallSound
<1>8. ~raced => followers' = Cardinality(follows')
  BY <1>1 DEF Inv, CountsRight
<1>9. OwnRequestsCount'
  BY <1>1 DEF Inv, OwnRequestsCount
<1>10. /\ follows' \in SUBSET Users /\ followers' \in Nat
       /\ wishes' \in [Users -> FollowOps \cup {"raced"}]
  BY <1>1 DEF Inv, TypeOK
<1> QED
  BY <1>2, <1>3, <1>4, <1>5, <1>6, <1>7, <1>8, <1>9, <1>10, <1>5a, CommitStep

\* deleteProject.
LEMMA DeleteProjectInv ==
  ASSUME Inv, NEW c \in Calls, DeleteProject(c)
  PROVE Inv'
<1> DEFINE call == [calls[c] EXCEPT !.op = "delete"]
<1>1. /\ calls[c] \in Call /\ calls[c].stage = "idle" /\ CallSound(c)
      /\ \A d \in Calls : ~(Open(d) /\ calls[d].own # "none")
      /\ status' = "deleted" /\ follows' = {} /\ followers' = 0
      /\ wishes' = [u \in Users |-> "unfollow"] /\ Commit(c, call)
  BY DEF DeleteProject, Inv, TypeOK
<1>2. calls[c].left = {} /\ calls[c].stage # "read" /\ calls[c].count = None
  BY <1>1 DEF CallSound
<1>3. /\ call \in Call /\ call.op = "delete" /\ call.op \notin FollowOps
      /\ call.count = None
  BY <1>1, <1>2 DEF Call, CatalogOps, FollowOps
<1> HIDE DEF call
<1>4. ASSUME NEW d \in Calls \ {c} PROVE CallSound(d)'
  <2>1. calls'[d] = calls[d] /\ CallSound(d)
    BY <1>1 DEF Commit, Inv, TypeOK
  <2>2. calls[d].own = "none"
    BY <1>1, <2>1 DEF CallSound, Open
  <2> QED
    BY <1>1, <2>1, <2>2 DEF CallSound, Open
<1>5. Cardinality({}) = 0
  BY FS_EmptySet
<1>6. OwnRequestsCount'
  BY <1>1 DEF OwnRequestsCount
<1>7. /\ status' \in Statuses /\ follows' \in SUBSET Users /\ followers' \in Nat
      /\ wishes' \in [Users -> FollowOps \cup {"raced"}]
  BY <1>1 DEF Statuses, FollowOps
<1>8. call.count = Target'
  BY <1>1, <1>3 DEF Target
<1> QED
  BY <1>1, <1>2, <1>3, <1>4, <1>5, <1>6, <1>7, <1>8, CommitStep

--------------------------------------------------------------------------
(* The search document and the cached page.                               *)

\* A step of a request that has committed or is over leaves the tables and
\* what the others know of them.
LEMMA StoreStep ==
  ASSUME Inv, NEW c \in Calls, NEW call \in Call, calls' = [calls EXCEPT ![c] = call],
         UNCHANGED Tables, doc' \in Number, page' \in Number,
         call.stage \in {"committed", "failed", "done", "refused"}, call.own = "none",
         call.stage \in {"done", "refused"} => call.left = {},
         "doc" \in call.left => "doc" \in calls[c].left
           /\ call.op = calls[c].op /\ call.count = calls[c].count,
         ~overlapped => Shown'
  PROVE Inv'
<1>1. /\ calls' \in [Calls -> Call] /\ calls'[c] = call
      /\ \A d \in Calls \ {c} : calls'[d] = calls[d]
  BY DEF Inv, TypeOK
<1>2. TypeOK'
  BY <1>1 DEF Inv, TypeOK, Tables
<1>3. ASSUME NEW d \in Calls PROVE CallSound(d)'
  <2>1. CASE d = c
    BY <1>1, <2>1 DEF Inv, CallSound, Open
  <2>2. CASE d # c
    BY <1>1, <2>2 DEF Inv, CallSound, Open, Tables
  <2> QED
    BY <2>1, <2>2
<1>4. OneWriter'
  BY <1>1 DEF Inv, OneWriter
<1>5. ~raced' => CountsRight'
  <2> SUFFICES ASSUME CountsRight PROVE CountsRight'
    BY DEF Inv, Tables
  <2>1. \A d \in Calls : calls'[d].stage = "counted" => calls'[d] = calls[d]
    BY <1>1
  <2> QED
    BY <2>1 DEF CountsRight, Counted, Applied, Tables
<1>6. OwnRequestsCount'
  BY DEF Inv, OwnRequestsCount, Tables
<1> QED
  BY <1>2, <1>3, <1>4, <1>5, <1>6 DEF Inv, Tables

\* What is left of a request whose call to one store has ended.
LEMMA LeaveFacts ==
  ASSUME Inv, NEW c \in Calls, NEW store \in {"doc", "page"}, store \in calls[c].left,
         NEW old \in Call, old.stage \in {"committed", "failed"}, old.own = "none",
         old.left = calls[c].left, old.op = calls[c].op, old.count = calls[c].count,
         Leave(c, store, old)
  PROVE \E call \in Call :
          /\ calls' = [calls EXCEPT ![c] = call]
          /\ call.stage \in {"committed", "failed", "done", "refused"}
          /\ call.own = "none"
          /\ call.left = calls[c].left \ {store}
          /\ call.stage \in {"done", "refused"} => call.left = {}
          /\ call.left # {} => call.op = calls[c].op /\ call.count = calls[c].count
<1>1. CASE old.left = {store}
  <2>1. /\ Finished(old) \in Call /\ Finished(old).stage \in {"done", "refused"}
        /\ Finished(old).left = {} /\ Finished(old).own = "none"
    BY BlankFacts DEF Finished
  <2>2. calls' = [calls EXCEPT ![c] = Finished(old)]
    BY <1>1 DEF Leave
  <2> QED
    BY <1>1, <2>1, <2>2
<1>2. CASE old.left # {store}
  <2> DEFINE call == [old EXCEPT !.left = old.left \ {store}]
  <2>1. /\ call \in Call /\ call.stage \in {"committed", "failed"} /\ call.own = "none"
        /\ call.left = calls[c].left \ {store}
        /\ call.op = calls[c].op /\ call.count = calls[c].count
    BY DEF Call
  <2>2. calls' = [calls EXCEPT ![c] = call]
    BY <1>2 DEF Leave
  <2> HIDE DEF call
  <2> QED
    BY <2>1, <2>2
<1> QED
  BY <1>1, <1>2

\* The search document is written, or the update of a missing one throws.
LEMMA WriteDocumentInv ==
  ASSUME Inv, NEW c \in Calls, WriteDocument(c) \/ UpdateFails(c)
  PROVE Inv'
<1>1. /\ calls[c] \in Call /\ calls[c].stage = "committed" /\ "doc" \in calls[c].left
      /\ UNCHANGED <<Tables, page>>
      /\ doc' = (IF calls[c].op \in FollowOps
                 THEN (IF doc = None THEN None ELSE calls[c].count) ELSE calls[c].count)
  BY DEF WriteDocument, UpdateFails, NumberUpdated, UpdateThrows, Inv, TypeOK
<1>a. calls[c].own = "none"
  BY <1>1 DEF Inv, CallSound
<1>b. PICK old \in Call :
        /\ old.stage \in {"committed", "failed"} /\ old.own = "none"
        /\ old.left = calls[c].left /\ old.op = calls[c].op
        /\ old.count = calls[c].count /\ Leave(c, "doc", old)
  <2> DEFINE failed == [calls[c] EXCEPT !.stage = "failed"]
  <2>1. CASE WriteDocument(c)
    BY <1>1, <1>a, <2>1 DEF WriteDocument
  <2>2. CASE UpdateFails(c)
    <3>1. /\ failed \in Call /\ failed.stage = "failed" /\ failed.own = "none"
          /\ failed.left = calls[c].left /\ failed.op = calls[c].op
          /\ failed.count = calls[c].count
      BY <1>1, <1>a DEF Call
    <3>2. Leave(c, "doc", failed)
      BY <2>2 DEF UpdateFails
    <3> HIDE DEF failed
    <3> QED
      BY <3>1, <3>2
  <2> QED
    BY <2>1, <2>2
<1>2. PICK call \in Call :
        /\ calls' = [calls EXCEPT ![c] = call]
        /\ call.stage \in {"committed", "failed", "done", "refused"}
        /\ call.own = "none"
        /\ call.left = calls[c].left \ {"doc"}
        /\ call.stage \in {"done", "refused"} => call.left = {}
        /\ call.left # {} => call.op = calls[c].op /\ call.count = calls[c].count
  BY <1>1, <1>b, LeaveFacts
<1>3. doc' \in Number /\ page' \in Number
  BY <1>1 DEF Call, Number, Inv, TypeOK
<1>4. /\ calls'[c] = call /\ \A d \in Calls \ {c} : calls'[d] = calls[d]
  BY <1>2 DEF Inv, TypeOK
<1>5. ~overlapped => Shown'
  <2> SUFFICES ASSUME Shown PROVE Shown'
    BY DEF Inv
  <2>1. \A d \in Calls \ {c} : calls'[d].left = {}
    BY <1>1, <1>4 DEF Shown
  <2>2. doc' = Target
    BY <1>1 DEF Shown, Target
  <2>3. \A d \in Calls : "doc" \notin calls'[d].left
    BY <1>2, <1>4, <2>1
  <2>4. \A d \in Calls : calls'[d].stage = "read" => calls'[d] = calls[d]
    BY <1>2, <1>4
  <2>5. \A d \in Calls : calls'[d].left # {} => d = c
    BY <2>1
  <2>6. (\A d \in Calls : "page" \notin calls'[d].left) =>
          \A d \in Calls : "page" \notin calls[d].left
    BY <1>2, <1>4
  <2> QED
    BY <1>1, <2>2, <2>3, <2>4, <2>5, <2>6 DEF Shown, Target, Tables
<1> QED
  BY <1>1, <1>2, <1>3, <1>5, StoreStep

\* The cached page is deleted.
LEMMA DropPageInv ==
  ASSUME Inv, NEW c \in Calls, DropPage(c)
  PROVE Inv'
<1>1. /\ calls[c] \in Call /\ "page" \in calls[c].left
      /\ calls[c].stage \in {"committed", "failed"}
      /\ UNCHANGED <<Tables, doc>> /\ Leave(c, "page", calls[c]) /\ page' = None
  BY DEF DropPage, PageDropped, Inv, TypeOK
<1>a. calls[c].own = "none"
  BY <1>1 DEF Inv, CallSound
<1>2. PICK call \in Call :
        /\ calls' = [calls EXCEPT ![c] = call]
        /\ call.stage \in {"committed", "failed", "done", "refused"}
        /\ call.own = "none"
        /\ call.left = calls[c].left \ {"page"}
        /\ call.stage \in {"done", "refused"} => call.left = {}
        /\ call.left # {} => call.op = calls[c].op /\ call.count = calls[c].count
  BY <1>1, <1>a, LeaveFacts
<1>3. doc' \in Number /\ page' \in Number
  BY <1>1 DEF Number, Inv, TypeOK
<1>4. /\ calls'[c] = call /\ \A d \in Calls \ {c} : calls'[d] = calls[d]
  BY <1>2 DEF Inv, TypeOK
<1>5. ~overlapped => Shown'
  <2> SUFFICES ASSUME Shown PROVE Shown'
    BY DEF Inv
  <2>1. \A d \in Calls \ {c} : calls'[d].left = {}
    BY <1>1, <1>4 DEF Shown
  <2>2. \A d \in Calls : calls'[d].left # {} => d = c
    BY <2>1
  <2>3. \A d \in Calls : calls'[d].stage = "read" => calls'[d] = calls[d]
    BY <1>2, <1>4
  <2>4. \A d \in Calls : "doc" \in calls'[d].left <=> "doc" \in calls[d].left
    BY <1>2, <1>4
  <2>5. \A d \in Calls : "doc" \in calls'[d].left =>
          calls'[d].op = calls[d].op /\ calls'[d].count = calls[d].count
    BY <1>2, <1>4
  <2> QED
    BY <1>1, <2>2, <2>3, <2>4, <2>5 DEF Shown, Target, Tables
<1> QED
  BY <1>1, <1>2, <1>3, <1>5, StoreStep

\* A page is cached.
LEMMA FillPageInv ==
  ASSUME Inv, NEW c \in Calls, FillPage(c)
  PROVE Inv'
<1>1. /\ calls[c].stage = "read" /\ page' = calls[c].count /\ UNCHANGED <<Tables, doc>>
      /\ calls' = [calls EXCEPT ![c] = Finished(calls[c])] /\ calls[c].count \in Nat
      /\ calls[c].left = {}
  BY DEF FillPage, Inv, CallSound
<1> DEFINE over == Finished(calls[c])
<1>2. over \in Call /\ over.stage = "done" /\ over.left = {} /\ over.own = "none"
  BY <1>1, BlankFacts DEF Finished
<1>3. calls' = [calls EXCEPT ![c] = over] /\ calls'[c] = over
      /\ \A d \in Calls \ {c} : calls'[d] = calls[d]
  BY <1>1 DEF Inv, TypeOK
<1> HIDE DEF over
<1>4. ~overlapped => Shown'
  <2> SUFFICES ASSUME Shown PROVE Shown'
    BY DEF Inv
  <2>1. \A d \in Calls : calls'[d].left = calls[d].left
    BY <1>1, <1>2, <1>3
  <2>2. \A d \in Calls : calls'[d].stage = "read" \/ calls'[d].left # {} => calls'[d] = calls[d]
    BY <1>2, <1>3
  <2>3. page' = Target
    BY <1>1 DEF Shown, Target
  <2> QED
    BY <1>1, <2>1, <2>2, <2>3 DEF Shown, Target, Tables
<1>5. doc' \in Number /\ page' \in Number
  BY <1>1 DEF Number, Inv, TypeOK
<1> QED
  BY <1>1, <1>2, <1>3, <1>4, <1>5, StoreStep

\* A page expires.
LEMMA ExpirePageInv ==
  ASSUME Inv, ExpirePage
  PROVE Inv'
<1>1. page' = None /\ UNCHANGED <<Tables, doc, calls>>
  BY DEF ExpirePage
<1>2. TypeOK'
  BY <1>1 DEF Inv, TypeOK, Tables, Number
<1>3. \A c \in Calls : CallSound(c)'
  BY <1>1 DEF Inv, CallSound, Open, Tables
<1>4. OneWriter' /\ OwnRequestsCount'
  BY <1>1 DEF Inv, OneWriter, OwnRequestsCount, Tables
<1>5. ~raced' => CountsRight'
  BY <1>1 DEF Inv, CountsRight, Counted, Applied, Tables
<1>6. ~overlapped' => Shown'
  BY <1>1 DEF Inv, Shown, Target, Tables
<1> QED
  BY <1>2, <1>3, <1>4, <1>5, <1>6 DEF Inv

--------------------------------------------------------------------------
(* The theorems.                                                          *)

\* Every step preserves the invariant.
LEMMA InvNext == Inv /\ [Next]_vars => Inv'
<1> SUFFICES ASSUME Inv, [Next]_vars PROVE Inv'
  OBVIOUS
<1>1. ASSUME NEW c \in Calls, Handle(c) PROVE Inv'
  BY <1>1, FindProjectInv, UpsertFollowInv, DeleteFollowInv, CountFollowsInv,
     CommitFollowInv, RollBackInv, ChangeProjectInv, DeleteProjectInv,
     WriteDocumentInv, DropPageInv, MissPageInv, ReadRowInv, FillPageInv DEF Handle
<1>2. CASE UNCHANGED vars
  <2>1. UNCHANGED <<Tables, doc, page, calls>>
    BY <1>2 DEF vars, Tables
  <2>2. TypeOK' /\ OneWriter' /\ OwnRequestsCount'
    BY <2>1 DEF Inv, TypeOK, OneWriter, OwnRequestsCount, Tables
  <2>3. \A c \in Calls : CallSound(c)'
    BY <2>1 DEF Inv, CallSound, Open, Tables
  <2>4. ~raced' => CountsRight'
    BY <2>1 DEF Inv, CountsRight, Counted, Applied, Tables
  <2>5. ~overlapped' => Shown'
    BY <2>1 DEF Inv, Shown, Target, Tables
  <2> QED
    BY <2>2, <2>3, <2>4, <2>5 DEF Inv
<1> QED
  BY <1>1, <1>2, ExpirePageInv DEF Next

\* The invariant holds in every reachable state.
THEOREM Invariance == Spec => []Inv
BY InvInit, InvNext, PTL DEF Spec

\* Tables, stores and requests keep their shape; the counter is never negative.
THEOREM TypeCorrect == Spec => []TypeOK
<1>1. Inv => TypeOK
  BY DEF Inv
<1> QED
  BY <1>1, Invariance, PTL

\* The counter goes wrong only by a commit between a count and its commit.
THEOREM CounterExactUnlessRaced == Spec => []CounterExact
<1>1. Inv => CounterExact
  BY DEF Inv, CountsRight, CounterExact
<1> QED
  BY <1>1, Invariance, PTL

\* What a user last asked for is what holds, whatever the others do.
THEOREM RequestsOfOthersHarmless == Spec => []OwnRequestsCount
<1>1. Inv => OwnRequestsCount
  BY DEF Inv
<1> QED
  BY <1>1, Invariance, PTL

\* Search document and page show the counter once all is written, unless
\* commits overlapped with these writes.
THEOREM StoresCurrent == Spec => []StoresShowCounter
<1>1. Inv => StoresShowCounter
  <2> SUFFICES ASSUME Inv, Settled, ~overlapped
               PROVE /\ doc = IF status = "APPROVED" THEN followers ELSE None
                     /\ page = None \/ (status = "APPROVED" /\ page = followers)
    BY DEF StoresShowCounter
  <2>1. doc = Target /\ page \in {None, Target}
    BY DEF Inv, Shown, Settled
  <2> QED
    BY <2>1 DEF Target
<1> QED
  BY <1>1, Invariance, PTL

\* Only a decision or an edit of a public project makes a document appear.
THEOREM FollowsNeverIndex == Spec => OnlyPublishingIndexes
<1> DEFINE Publishes == doc = None /\ doc' # None =>
             \E c \in Calls : calls[c].op \in {"edit", "approve"} /\ "doc" \in calls[c].left
<1>1. Inv /\ [Next]_vars => [Publishes]_vars
  <2> SUFFICES ASSUME Inv, Next, doc = None, doc' # None
               PROVE \E c \in Calls :
                       calls[c].op \in {"edit", "approve"} /\ "doc" \in calls[c].left
    BY DEF Publishes
  <2>1. PICK c \in Calls : WriteDocument(c)
    <3>1. UNCHANGED doc \/ \E c \in Calls : WriteDocument(c)
      BY DEF Next, Handle, FindProject, UpsertFollow, DeleteFollow, CountFollows,
         CommitFollow, RollBack, ChangeProject, DeleteProject, UpdateFails, DropPage, MissPage,
         ReadRow, FillPage, ExpirePage, Commit, Refuse
    <3> QED
      BY <3>1
  <2>2. "doc" \in calls[c].left /\ calls[c].op \notin FollowOps /\ calls[c].count # None
    BY <2>1 DEF WriteDocument, UpdateThrows
  <2>3. calls[c].op \in {"edit", "approve"}
    BY <2>2 DEF Inv, TypeOK, Call, CatalogOps, CallSound
  <2> QED
    BY <2>2, <2>3
<1> QED
  BY <1>1, Invariance, PTL DEF Spec, OnlyPublishingIndexes
==========================================================================
