------------------------- MODULE DirectThreads ---------------------------
(* Direct messages (report-direct-threads.service.ts): a user writes      *)
(* another one by name, which finds their thread or creates it, replies   *)
(* in a thread, or marks it read.  The client counts the messages that    *)
(* are later than the viewer's read mark (DirectThreadRow.tsx).           *)
(*                                                                        *)
(* Every await is a step.  Times are taken before the statement that      *)
(* stores them commits, so that stamping and storing are two steps, and   *)
(* several steps may share a time.  A request that takes no further step  *)
(* has failed.                                                            *)
EXTENDS Integers

CONSTANTS
  People,     \* the users of the site
  Requests,   \* the requests that may arrive; each runs once
  ThreadIds,  \* the identifiers of threads
  MaxTime     \* bound: the last time the clocks show

ASSUME MaxTimeAssumption == MaxTime \in Nat \ {0}

VARIABLES
  clock,      \* the time, which the server and the database share
  threads,    \* the threads by identifier
  lastRead,   \* the read mark of each user in each thread
  messages,   \* the message each request has stored
  requests,   \* the requests
  answered,   \* the messages each user has been shown in an answer
  notes,      \* how often a user was notified of a message
  bothLooked  \* have two requests both looked for the thread of one pair?

threadVars == <<clock, threads, lastRead, messages, requests, answered, notes, bothLooked>>

--------------------------------------------------------------------------
(* Data.                                                                  *)

Never == 0

\* Direct threads belong to a pair; "updated" is stored at the creation and
\* by nothing after it: a message does not touch the thread's row.
NoThread == [members |-> {}, opener |-> "none", updated |-> Never]

\* "crossed": when the message was stored, the other member had been answered
\* with the thread as of this message's time or a later one.
NoMessage == [thread |-> "none", at |-> Never, crossed |-> FALSE]

Idle == [stage |-> "idle", op |-> "none", user |-> "none", target |-> "none",
         thread |-> "none", at |-> Never, stamp |-> Never]

\* Requests that have read the thread after setting the mark.
Shown == {"reread", "notified", "answered"}

--------------------------------------------------------------------------
(* Helpers.  A "variant" is a plausible mistake in the code that nothing  *)
(* uses; in place of the helper after it, it must break a property.       *)

\* Variant: only threads that the caller has opened are found.
DirectThreadsOpenedBy(user, target) ==
  {id \in ThreadIds : threads[id].members = {user, target} /\ threads[id].opener = user}

\* directThreadWhere.
DirectThreadsOf(user, target) ==
  {id \in ThreadIds : threads[id].members = {user, target}}

\* orderBy updatedAt desc: any of the latest.
Latest(ids) == {id \in ids : \A other \in ids : threads[other].updated <= threads[id].updated}

\* Variant: both members of a new thread have read it.
FirstMarksForBoth(author, stamp) == [u \in People |-> stamp]

\* members.create: the author has read the thread, the other one has not.
FirstMarks(author, stamp) == [u \in People |-> IF u = author THEN stamp ELSE Never]

\* Variant: the author is notified as well.
AllMembers(thread, author) == threads[thread].members

\* The recipients of notifyDirectThreadMembers.
Recipients(thread, author) == threads[thread].members \ {author}

InThread(thread) == {c \in Requests : messages[c] # NoMessage /\ messages[c].thread = thread}

\* directThreadUnreadCount counts these messages.
Unread(user, c) ==
  /\ requests[c].user # user
  /\ messages[c].at > lastRead[messages[c].thread][user]

--------------------------------------------------------------------------
ThreadsInit ==
  /\ clock = 1
  /\ threads = [id \in ThreadIds |-> NoThread]
  /\ lastRead = [id \in ThreadIds |-> [u \in People |-> Never]]
  /\ messages = [c \in Requests |-> NoMessage]
  /\ requests = [c \in Requests |-> Idle]
  /\ answered = [u \in People |-> {}]
  /\ notes = [c \in Requests |-> [u \in People |-> 0]]
  /\ bothLooked = FALSE

MoveTo(c, stage) == requests' = [requests EXCEPT ![c].stage = stage]

Tick ==
  /\ clock < MaxTime
  /\ clock' = clock + 1
  /\ UNCHANGED <<threads, lastRead, messages, requests, answered, notes, bothLooked>>

\* createDirectThread looks for the thread of the pair.
FindThread(c, user, target) ==
  LET found == DirectThreadsOf(user, target)
      creating == {d \in Requests :
                     /\ requests[d].stage \in {"missing", "creating"}
                     /\ {requests[d].user, requests[d].target} = {user, target}}
      request == [Idle EXCEPT !.op = "create", !.user = user, !.target = target]
  IN /\ requests[c].stage = "idle" /\ user # target
     /\ \/ /\ found = {}
           /\ requests' = [requests EXCEPT ![c] = [request EXCEPT !.stage = "missing"]]
        \/ \E id \in Latest(found) :
             requests' = [requests EXCEPT
               ![c] = [request EXCEPT !.stage = "found", !.thread = id]]
     /\ bothLooked' = (bothLooked \/ (found = {} /\ creating # {}))
     /\ UNCHANGED <<clock, threads, lastRead, messages, answered, notes>>

\* createDirectThreadMessage and markDirectThreadRead name the thread.
AskForThread(c, op, user, thread) ==
  /\ requests[c].stage = "idle"
  /\ op \in {"reply", "mark"} /\ threads[thread] # NoThread
  /\ requests' = [requests EXCEPT
       ![c] = [Idle EXCEPT !.stage = "found", !.op = op, !.user = user, !.thread = thread]]
  /\ UNCHANGED <<clock, threads, lastRead, messages, answered, notes, bothLooked>>

\* The author's mark in a new thread is as of before its creation.
StampThread(c) ==
  /\ requests[c].stage = "missing"
  /\ requests' = [requests EXCEPT ![c].stage = "creating", ![c].stamp = clock]
  /\ UNCHANGED <<clock, threads, lastRead, messages, answered, notes, bothLooked>>

\* thread.create with both members and the first message, at one time since.
CreateThread(c) ==
  LET user == requests[c].user
  IN /\ requests[c].stage = "creating"
     /\ \E id \in ThreadIds, at \in requests[c].stamp..clock :
          /\ threads[id] = NoThread
          /\ threads' = [threads EXCEPT
               ![id] = [members |-> {user, requests[c].target}, opener |-> user, updated |-> at]]
          /\ lastRead' = [lastRead EXCEPT ![id] = FirstMarks(user, requests[c].stamp)]
          /\ messages' = [messages EXCEPT ![c] = [NoMessage EXCEPT !.thread = id, !.at = at]]
          /\ requests' = [requests EXCEPT ![c].stage = "marked", ![c].thread = id]
     /\ UNCHANGED <<clock, answered, notes, bothLooked>>

\* assertThreadMember: others get "Thread access required".
AssertMember(c) ==
  /\ requests[c].stage = "found"
  /\ IF requests[c].user \in threads[requests[c].thread].members
     THEN MoveTo(c, IF requests[c].op = "mark" THEN "sent" ELSE "member")
     ELSE requests' = [requests EXCEPT ![c] = [Idle EXCEPT !.stage = "refused"]]
  /\ UNCHANGED <<clock, threads, lastRead, messages, answered, notes, bothLooked>>

\* createdAt of a message is the time at which its insertion is sent ...
StampMessage(c) ==
  /\ requests[c].stage = "member"
  /\ requests' = [requests EXCEPT ![c].stage = "sending", ![c].at = clock]
  /\ UNCHANGED <<clock, threads, lastRead, messages, answered, notes, bothLooked>>

\* ... and the message can be seen when it commits.
StoreMessage(c) ==
  LET thread == requests[c].thread
      passed == \E d \in Requests :
                  /\ requests[d].thread = thread /\ requests[d].user # requests[c].user
                  /\ requests[d].stage \in Shown /\ requests[d].stamp >= requests[c].at
  IN /\ requests[c].stage = "sending"
     /\ messages' = [messages EXCEPT
          ![c] = [thread |-> thread, at |-> requests[c].at, crossed |-> passed]]
     /\ MoveTo(c, "sent")
     /\ UNCHANGED <<clock, threads, lastRead, answered, notes, bothLooked>>

\* Whoever writes or marks has read the thread: new Date() ...
StampMark(c) ==
  /\ requests[c].stage = "sent"
  /\ requests' = [requests EXCEPT ![c].stage = "marking", ![c].stamp = clock]
  /\ UNCHANGED <<clock, threads, lastRead, messages, answered, notes, bothLooked>>

\* ... and threadMember.update.
StoreMark(c) ==
  /\ requests[c].stage = "marking"
  /\ lastRead' = [lastRead EXCEPT ![requests[c].thread][requests[c].user] = requests[c].stamp]
  /\ MoveTo(c, "marked")
  /\ UNCHANGED <<clock, threads, messages, answered, notes, bothLooked>>

\* findViewerThreadOrThrow reads the thread that the request answers with.
ReadThread(c) ==
  /\ requests[c].stage = "marked"
  /\ answered' = [answered EXCEPT ![requests[c].user] = @ \cup InThread(requests[c].thread)]
  /\ MoveTo(c, IF requests[c].op = "mark" THEN "answered" ELSE "reread")
  /\ UNCHANGED <<clock, threads, lastRead, messages, notes, bothLooked>>

\* notifyDirectThreadMembers.
NotifyMembers(c) ==
  /\ requests[c].stage = "reread"
  /\ notes' = [notes EXCEPT ![c] =
       [u \in People |-> IF u \in Recipients(requests[c].thread, requests[c].user)
                        THEN @[u] + 1 ELSE @[u]]]
  /\ MoveTo(c, IF requests[c].at # Never /\ requests[c].op = "create"
               THEN "notified" ELSE "answered")
  /\ UNCHANGED <<clock, threads, lastRead, messages, answered, bothLooked>>

\* A message written by name into an existing thread is answered with the
\* thread as it is read once more.
ReadAgain(c) ==
  /\ requests[c].stage = "notified"
  /\ answered' = [answered EXCEPT ![requests[c].user] = @ \cup InThread(requests[c].thread)]
  /\ MoveTo(c, "answered")
  /\ UNCHANGED <<clock, threads, lastRead, messages, notes, bothLooked>>

Arrive(c) ==
  \/ \E user, target \in People : FindThread(c, user, target)
  \/ \E op \in {"reply", "mark"}, user \in People, thread \in ThreadIds :
       AskForThread(c, op, user, thread)

Serve(c) ==
  \/ StampThread(c) \/ CreateThread(c)
  \/ AssertMember(c)
  \/ StampMessage(c) \/ StoreMessage(c)
  \/ StampMark(c) \/ StoreMark(c)
  \/ ReadThread(c) \/ NotifyMembers(c) \/ ReadAgain(c)

ThreadsNext == Tick \/ \E c \in Requests : Arrive(c) \/ Serve(c)

ThreadsSpec == ThreadsInit /\ [][ThreadsNext]_threadVars

--------------------------------------------------------------------------
(* Properties.                                                            *)

\* Two users have one direct thread, unless two of their first messages both
\* looked for it before either had created it (findFirst and create are two
\* statements, and no unique key names the pair).
OneThreadUnlessRaced ==
  ~bothLooked => \A id, other \in ThreadIds :
    threads[id].members = threads[other].members => id = other \/ threads[id] = NoThread

\* A message that is not counted as unread is not lost on the reader: the
\* member was shown it in an answer, or a request of the member that set the
\* mark has yet to read the thread (or failed before that), or the message
\* was stored only after an answer of the thread as of a later time.
ReadWasShown ==
  \A c \in Requests : messages[c] # NoMessage =>
    LET thread == messages[c].thread
    IN \A user \in threads[thread].members \ {requests[c].user} :
         \/ Unread(user, c)
         \/ c \in answered[user]
         \/ messages[c].crossed
         \/ \E d \in Requests :
              /\ requests[d].user = user /\ requests[d].thread = thread
              /\ requests[d].stage = "marked" /\ requests[d].stamp >= messages[c].at

\* Whichever way a message was sent, an answer to its author means that it is
\* stored and that the other member, and nobody else, was notified of it once;
\* a request that failed has notified nobody twice.
OthersToldOnce ==
  \A c \in Requests : \A user \in People :
    /\ notes[c][user] <= 1
    /\ notes[c][user] = 1 => /\ messages[c] # NoMessage /\ user # requests[c].user
                             /\ user \in threads[messages[c].thread].members
    /\ (requests[c].stage = "answered" /\ requests[c].op # "mark") =>
         \E other \in People : notes[c][other] = 1
==========================================================================
