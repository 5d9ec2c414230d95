# Moddery: formal model

TLA+ models of Moddery, the mod hosting platform in this repository (its API, and
the navigation of its web client), the TLC configurations that check them and the
TLAPS proofs about them.

## The system

Moddery is a NestJS GraphQL API (`apps/api`) with a React client (`apps/web`).
The API is stateless: every piece of state is in a store it awaits.

* PostgreSQL, through Prisma, holds the truth: users, credentials, sessions,
  teams, projects, versions, files, scans, moderation locks, reports, audit log.
  No isolation level is set, so that transactions run at READ COMMITTED.
* Redis caches the public project page by slug for 60 seconds.
* OpenSearch holds one document for each approved project.
* ClickHouse receives download and view events.
* MinIO/S3 holds uploaded files; ClamAV scans them over a socket.

Each request is an asynchronous function; at every `await` other requests run.
Nothing serialises two requests, and a request can die at any await, after its
database transaction has been committed and before the cache and the index
were told. That is where this code is hard, and what most models are about. The
web client is hard elsewhere: a page, its state, the address and the browser's
history are four copies of where the user is.

## Inventory

Paths are relative to `apps/api/src`, those of the web client to `apps/web/src`.

### Modelled

| component | state | operations | what is hard | what makes it correct |
|---|---|---|---|---|
| Project catalog (`catalog/services/project-management`, `project-moderation`, `catalog`, and the refresh in `versions.service`) | the project row, its search document, its cached page | create, update, delete, moderate, touch by a version, public page, search | three stores written one after the other; page loads that race with commits; a call to the index that throws | nothing unpublished is shown; the review queue agrees with the statuses; stores follow the row when requests do not overlap; the cache recovers from races |
| Teams of projects and of organizations (`catalog/services/project-members`, `organizations/services/organization-management`, `teams`, `audit`, and the deletions of both) | membership rows, the team's existence, audit records, notifications | add, update, remove a member; accept, decline an invitation; delete the team with its owner | every handler reads, decides and writes in separate statements | founder kept; consent of members; an invitation is settled once; the audit log is true; a deleted team stays empty |
| Releases (`versions/services/*`, `analytics/analytics.service`) | version rows, scans, counters, download events | create behind a scan, moderate, edit, delete, rescan, download | slow scans between check and commit; counters under concurrency; failures after the commit | reviews coherent; decisions stand; files vetted; counters exact; decisions audited |
| Moderation locks (`catalog/services/project-moderation-locks`) | the lock row, the page that shows it | lock, release | the holder is checked in one statement and the lock deleted in another | another moderator's lock is not released; answers and pages are current |
| Friendships (`users/services/user-friendship-actions`) | rows with requester, addressee, state | request, accept, remove, block | lookup and write are separate; the unique key covers one order of the pair only | no friendship without consent; one row per pair; blocks stand |
| Accounts and sessions (`auth/services/auth`, `auth-token`, `api-tokens`, `users/services/user-admin`) | status, password, second factor and its secret, sessions and access tokens, reset tokens | sign in, the guard, revoke and issue keys, set up, enable and disable the second factor, request and confirm a reset, change the status | slow hashing and code checks between lookup and write; transactions that name a row and not what was read in it | what was revoked stays revoked; access is current; the second factor keeps its secret; a reset works once |
| Email addresses (`auth/services/auth`, `users/services/users`) | account, address, verified or not; verification tokens; what was mailed | register, change the address, ask for a token, confirm it | the address is compared in one statement and the account marked in another; a token is stored before it is mailed | verified as proved; whoever is answered has a token on its way |
| Follows (`catalog/services/project-follows`) | follow rows, counter, number in document and page | follow, unfollow | READ COMMITTED transactions that count; writes to the stores out of order | the counter is the number of followers; what a user asked for holds; no hidden project reappears |
| Direct threads (`reports/services/report-direct-threads`, `DirectThreadRow` of the client) | threads, messages, read marks | write by name, reply, mark as read | the thread is looked up and created in two statements; marks and messages carry times taken before they are stored | one thread for a pair; no message counts as read that was never shown; the other member is told once |
| ClamAV client (`scanner/clamav-scanner`, the rescan in `versions/services/version-file-scans`) | download, socket, the promise of the answer and its timer | download, connect, send, await the answer, record | five waits with a timer each, and a rejection nobody awaits yet | a verdict is about the whole file; every scan ends; what a failed scan leaves behind harms nobody |
| Navigation of the web client (`app`, `components/discover/useDiscoverState`, `components/project/page`, `components/dashboard/overview/useDashboardSection`) | selections, the list's filter, tab and release, section, history | buttons, links, search, Back, Forward, Reload | two listeners of one event and an effect that writes what a listener reads | the page shown, the list and the address agree; Back shows what was left |

### Not modelled yet, or left out

* **OAuth clients** (`developer`): rows with redirect addresses and scopes, each
  written by a single statement.
* **Rest of the organizations** (`organizations`): creation, editing, the
  projects attached to an organization, the public directory. Planned, but for
  the directory, which only reads.
* **Reports, moderation notes** (`reports`): the life of a report and the thread
  that belongs to it. Planned.
* **Collections, gallery, dependencies** (`collections`,
  `catalog/services/project-gallery`, `versions/services/version-dependencies`):
  ordered lists under concurrent edits. Planned.
* **Storage** (`storage`): signs upload URLs; the store is external.
* **Notifications, mail, audit** (`notifications`, `mail`, `audit`): appended by
  the modelled handlers as their last steps; otherwise single statements.
* **Search, Redis and Prisma clients**: modelled through their use.
* **User directory, platform data, read models, resolvers, inputs,
  configuration, health, logging, throttling, shared contracts**: reads,
  conversions and single statements without an interleaving to get wrong.
* **Rest of the web client** (`apps/web`): session, forms, dashboard views and
  the queries' cache. The session is planned.
* **Scripts, end-to-end tests, containers** (`scripts`, `e2e`): run by hand or in
  CI. Together with the client's views they are most of the repository's lines.

How components meet: the handlers of versions, follows and locks write the row,
the document and the page that ProjectCatalog is about; `ProjectFollows` and
`ModerationLocks` carry the part of the catalog that their own state meets,
`Releases` takes the project's status as an environment (`ModerateProject`,
`DeleteProject`) and a scan's verdict as any answer or failure, which is what
`ScanExchange` looks into. Authorisation of project handlers reads the membership rows of
`TeamMembership`; the other modules leave callers without permission out, who
are refused before anything changes.

## How the models are built

Every module has the same plan. `Calls` is a set of requests, each of which runs
once; `calls[c]` holds the stage a request has reached and what it has read so
far. An action is one awaited call of a handler (a statement, a transaction, a
call to the index or the cache) with the code up to the next await: its guard
comes from the handler's conditions, a refusal is the exception that the handler
throws. `Next` interleaves the requests at these points. A request that dies
takes no further step, which `Spec` allows, as it demands no progress. Three
modules qualify these names (`Requests`, `EmailNext`, `ThreadsSpec`, `NavInit`
and the like), because a module of proofs extends two components at once.

Contents are abstracted: the row of a project is its status and a revision that
changes with every commit, a payload is nothing. History variables, named as
such, remember what the properties speak about (`published`, `consents`,
`overlapped`, `raced`, `bothLooked`, ...); no guard reads them.

A definition introduced as "Variant" is a plausible mistake in the code (a
dropped condition, a missing reset, a stale value written back). Nothing uses
it. Put in place of the helper that follows it, it must violate a property of
the module; `PROJECT.json` lists which ("mutants"), so that every property is
known to depend on the code it is about.

### ProjectCatalog

`row`, `docs` and `cache` are PostgreSQL, OpenSearch and Redis for one slug. A
write finds the project (`FindProject`), commits (`CreateProject`,
`UpdateProject`, `ModerateProject`, `DeleteProject`, `TouchProject`), and then
writes out what its transaction returned: `RecordDecision` (audit), `SyncIndex`,
`InvalidatePage`, `NotifyTeam`, in the order of the handler. A version handler
reads the row again (`RereadProject`) and writes index and cache in parallel.
Reads are `ReadCache`, `ReadRow`, `FillCache` and `QueryIndex`, `HydrateHits`;
`ExpirePage` is the time to live.

### TeamMembership, InvitationLifecycle

`members` is the table of one team, of a project or of an organization
(`TargetKind`: the handlers differ in how the owner is known and in the lookup
that ends them). `Authorise`, `ReadTarget`, `UpsertMember` / `DeleteMember`,
`RecordAudit`, `NotifyInvitee` and `Answer` are the awaits of
`addProjectTeamMember`, `addOrganizationTeamMember` and of the two removals;
`FindInvitation`, `AcceptRow` / `DeclineRow` those of `acceptInvitation` and
`declineInvitation`; `FindOwned`, `DeleteTeam` those of `deleteProject` and
`deleteOrganization`.
`InvitationLifecycle` is the abstract specification: an invitation is issued
under a fresh identifier, joined at most once, ended at most once, and the
founder's row ends with the team only, after which nobody is invited.
TeamMembership implements it under the mapping that reads invitations,
memberships and ended identifiers off the table (`LifecycleSpec`).

### Releases

`versions` are the versions of one project with the latest verdict of each file.
`BeginCreate`, `ScanFile` (once for each file) and `CommitCreate` are
`createVersion`; `FindVersion` followed by `CommitDecision`, `CommitUpdate` or
`CommitDelete` are the other handlers, `FindFile` followed by `StoreScan` or
`CountDownload` a later scan and a download. After the commit come `Refresh` /
`RefreshFails`, `RecordModeration` and `NotifyAuthor`, and for a download
`AnnounceDownload`: ClickHouse, the cached page and the search document are told
of it, or one of them throws, and the caller gets no file for a download that
remains counted. The number that the search document carries is not modelled.

### ModerationLocks

`lock` is the row of `moderation_locks`; `FindForLock`, `UpsertLock`,
`FindForRelease`, `DeleteLock`, `RereadProject`, `InvalidatePage` are the awaits
of the two handlers. `term` numbers the locks in the order of their upserts. The
page loads and the deletion of the project are those of the catalog.

### Friendships

`rows` is the table `friends`. `Start` checks the input, `FindForSend`,
`FindForAccept` and `FindBetween` are the lookups (a request that meets an
incoming request goes on as its acceptance), `CreateRow`, `AcceptRequest`,
`DeleteRow`, `BlockRow` the writes, `RowGone` the error when the row named by its
identifier is no longer there.

### AccountEmail

The table of users by address, and its unique key. `FindTaken`, `CreateAccount`
are `register`, which goes on as `issueEmailVerification` (`FindPending`,
`CreateToken`, `SendMail` or `MailFails`), and so does `FindViewer`, the start of
`requestEmailVerification`. `FindCurrent`, `UpdateAddress` are
`updateViewerProfile`; `FindToken`, `ConfirmAddress` are
`confirmEmailVerification`, which takes any token that was mailed. Addresses are
equal when they are so in lower case, as every handler stores them.

### ProjectFollows

The module that looks into a transaction: `updateProjectFollow` runs
interactively, statement by statement. `own` is the uncommitted write of a
transaction, which it sees and others do not; `Locked` is the row lock under
which a second writer of the same row waits. `CommitFollow` merges the update of
the counter with the commit, because transactions that update the project's row
wait for each other until they commit: whatever else happens between the two is
the same before or after. `RollBack` is a timeout or a lost client.
After the commit `WriteDocument` and `DropPage` run at once. The update of a
document that is missing throws (`UpdateFails`): the request has failed, though
the follow is committed, and a deletion of the page that is under way goes on.

### Credentials

One account. `FindUser`, `CreateSession`, `StoreTokenHash` are the awaits of
`login`: the session exists before its token is signed. `Authenticate` is the
guard, after which a request goes on as `ProposeSecret` (`setupTwoFactor`),
`CheckCode` with `EnableTwoFactor` or `DisableTwoFactor`, `RevokeKey` or
`IssueToken`. `FindForReset`, `Supersede`, `OpenReset` are
`requestPasswordReset`, whose transaction is split between its two statements,
as a second one may run between them at READ COMMITTED; `FindReset`,
`ConfirmReset` are `confirmPasswordReset`. `FindAccount`, `UpdateAccount` are the
administrator's `updateUserAccount`. Passwords are numbered, codes and hashes are
checks with either outcome.

### DirectThreads

`FindThread` begins `createDirectThread`, `AskForThread` a reply or a mark.
`StampThread` and `CreateThread` are the creation with its first message;
`AssertMember`, `StampMessage`, `StoreMessage` a message; `StampMark`,
`StoreMark` the read mark; `ReadThread`, `NotifyMembers`, `ReadAgain` the answer.
A time is taken in one step and stored in another (`clock`, `Tick`), which is
what the client's count of unread messages (`Unread`) depends on.

### ScanExchange

One scan is `Begin` (the download is asked for), then the steps of
`scanReadableStream`: connect, the command, chunk after chunk, the terminator,
the answer, and for a rescan the row of its verdict. The answer is a promise
(`answer`) that settles at any time from the first write on, also after its scan
has failed; `handled` says that awaiting it (`Awaited`) or the catch block
(`Caught`) has attached a handler to it. When it is rejected without one, the
process may end (`up`), with every scan under way.
`Restart` is the restart policy of the container. Each step also fails, or times
out, wherever the code or Node can.

### Navigation

`shell` is what `useAppShellState` holds, `search` the list's filter, `pane` the
project page's tab and release, `section` the dashboard's; `history` and `pos`
are the browser's. A button is an action that sets the state and pushes the
address its writer in `routing.ts` makes (`Go`); `NavigateToUrl` is a click on a
link, taken by the shell; `PopState` runs the listeners in the order in which
they are registered (`ListIsFirst`), with the effects between them.
`PaneOf`, `SectionOf` and `WrittenBack` are what rendering does after each event.

## What is assumed

* One Prisma query with nested selects reads one state; a batch transaction
  commits at once, except where a module splits it (`OpenReset`,
  `ProjectFollows`).
* Transactions run at READ COMMITTED with row locks, as nothing sets a level.
* The permission checks that only refuse are left out, except where a handler
  decides by rows the module has.
* Identifiers are never handed out twice (`usedIds`).
* React runs the effects of a click before the next event, and those of
  `popstate` between two of its listeners (state updates of discrete events are
  flushed when the listener returns).
* The clocks of the API and of the database agree.
* A request may stop at any await, which also covers a call to Redis or
  OpenSearch that throws: the handler then goes no further. Releases names the
  failure (`RefreshFails`), as a property depends on it.

## What is checked

Every run lets all of its requests take any operation with any input, so that
any two handlers meet at every pair of awaits. The bounds are numbers of
requests and of the rows they can create. Two requests are what a race needs;
most runs have one or two more, so that a race can follow on an earlier request
or be seen by a third party.

| run | bounds | what it shows |
|---|---|---|
| `project_catalog` | 2 requests, 2 project ids, fairness | nothing but once-approved versions of the row is ever shown; index and cache follow the row when no commit overlaps with others' reads and writes; the cache ends up empty or right, even after a raced page load |
| `team_membership` | 4 requests, 2 users, 5 rows, an organization | founder kept, consent, one settlement for each invitation, true audit log, refinement of `InvitationLifecycle` |
| `manager_unanswered` | 3 requests, 2 users | a violation, see below |
| `releases` | 3 requests, 2 versions, 2 files, 2 numbers | decisions that stand, vetted files, exact counters, recorded decisions |
| `moderation_locks` | 4 requests, 2 moderators | a release removes no lock of another moderator but one taken after its check; answers are current; a stale page has a request that will delete it or was stored behind its back |
| `credentials` | 4 requests, 3 keys, 2 reset tokens, 2 secrets | revocations hold in every interleaving; current access, proved secrets and resets that work once as long as no change falls between the lookup and the write of another request |
| `account_email` | 4 requests, 2 users, 2 addresses, 3 tokens | unless requests of one account race, it is verified exactly as long as it has the address it proved; whoever is answered has a token mailed, under way, or lost by the transport |
| `friendships` | 4 requests, 2 users, 3 rows | consent in every interleaving; one row per pair and lasting blocks when requests of a pair do not overlap |
| `project_follows` | 3 requests, 3 users | the counter is exact and every user's last wish holds unless transactions raced; stores show the counter; a late number brings no hidden project back |
| `direct_threads` | 3 requests, 3 users, 2 threads, times 1 to 3 | a pair has one thread unless first messages raced; what does not count as unread was shown or was stored late; the other member is told once |
| `scan_exchange` | 2 scans, files of 1 or 2 chunks, fairness | verdicts are about the whole file; of the answers that may still be rejected, those of the scans that are sending, and no others, have no handler, so that neither a scan that waits nor the timer that a failed one leaves behind ends the process; every scan ends |
| `navigation` | histories of 3 entries, 2 project types, 1 version | page, list and address agree after any sequence of events; Back and Forward show what was left; only a step to where one already is parts the project page, or the dashboard, from its address |

Why these bounds are enough for what can happen: the handlers share state by one
row, one document, one page or one pair, so that a violation needs the writer,
the request whose reading it outdates and at most a third one that changes the
row in between. Two identifiers let a row be deleted and created again under
another one; the team has an identifier for each request that can create a row.
Two users, moderators, files or secrets let each meet the other; follows take
three, so that a count can be wrong by others' doing, and so do threads, where a
third must be kept out. Two scans let one die of the other; two chunks let a
file break off before its infected part; a history of three entries has one
behind, one here and one ahead. With three keys a session
can wait for its token while another one and an access token exist. The proofs
below lift the bounds.

Symmetry is declared for model values that no definition tells apart (requests,
rows, users where none is special) and in no run of a liveness property.
Deadlock is not checked: the runs end when all requests are done, and the system
may rest.

Type invariants, and the properties that are near to them or to a key of the
schema (coherent reviews, the secret of a second factor, memberships that an
update leaves alone, the empty team after its deletion, publication by
moderators), are in the modules and most among the theorems, and no run is spent
on them.

Several properties hold as long as a history variable (`overlapped`, `raced`,
`bothLooked`) is false. It becomes true only when a commit falls between another request's
lookup and its write, so that these properties speak of arbitrarily many
requests, interleaved at all other points, and of the state that requests leave
for later ones. Without this condition they do not hold in this code (see below).

Fairness is assumed in two modules. `FairSpec` of ProjectCatalog has
`WF(Proceed(c))`, as a handler that has begun goes on to its next await by
itself (the event loop runs it), and `WF(ExpirePage)`, as Redis drops a page
after 60 seconds. No request has to arrive (`Begin` is not fair). `Fairness` of
ScanExchange lets every timer expire that the service, or `fetch` for headers and
body (300 seconds), has started, lets the database answer, and restarts a process
that ended. Neither clamd nor the store nor the socket ever has to say anything.
In every other run a request may stop for ever.

## Disagreements between the code and what it says

One is a run that TLC must find violated:

* `manager_unanswered`: a member who manages the members of an organization adds
  or removes one; the change is stored, recorded and announced, and the answer is
  "Organization not found", since the last lookup asks for the owner
  (`organization-management.service.ts:162` and `:276`, against
  `organization-management.service.spec.ts:172` and `:358`).

Others were met while modelling; the models reach them, and no run is spent on
them:

* A record of a project that was archived or rejected can be put back into the
  search index by an earlier handler that wrote late, and stays
  (`project-management.service.ts:171`, against
  `project-moderation.service.spec.ts:224` and `:277`).
* `releaseProjectLock` checks the holder in one statement and deletes by the
  project's id in another; a lock taken over in between is released by its former
  holder (`project-moderation-locks.service.ts:87`, against `:84`).
* A request that was blocked after its acceptance had found it is accepted by its
  identifier, and the block is lost (`user-friendship-actions.service.ts:76`,
  against the condition of `:73`).
* Two follows of one project count at once, neither sees the other's row, and the
  counter misses one for good (`project-follows.service.ts:156`, against
  `project-follows.service.spec.ts:97`).
* Two users who send each other a request at once both find no row, and as the
  unique key covers the ordered pair, two pending rows stay
  (`user-friendship-actions.service.ts:30`, against
  `user-friendships.service.spec.ts:182`, which accepts the reverse request).
* An invitation repeated while its first addition is under way is announced
  twice (`project-members.service.ts:167`, against
  `project-members.service.spec.ts:263`); one repeated while it is declined is
  recorded as an update and not announced (against `:154` of the same spec).
* A version is created in a project that was rejected or archived while its
  files were scanned (`versions.service.ts:91` and `:106`, against
  `versions.service.spec.ts:876`).
* A version number that is sent as null is stored as the empty one
  (`versions.service.ts:544`, against the message of line 510).
* The timer of clamd's answer runs while the file is still being sent, when
  nobody awaits the answer: where an unhandled rejection ends the process, it
  ends by a slow scan (`clamav-scanner.service.ts:48`, against `:71`, which would
  report a timeout).
* Two first messages that cross create two threads of one pair, which both stay
  (`report-direct-threads.service.ts:81`).
* A message does not touch the row of its thread: the threads keep the order, and
  the client shows as "updated" the time, of their creation
  (`DirectThreadRow.tsx`, `directThreadTiming`).
* A member of a report's thread who names it in a mutation of direct messages has
  the message stored and is then told "Thread not found"
  (`report-direct-threads.service.ts:198`, against `:228`).
* A link to a section of the dashboard, followed on the dashboard,
  changes the address; the section shown stays, as the shell takes the click and
  pushes the address, which raises neither of the events that the section listens
  to (`useAppShellState.ts:317`, against the comment of
  `useDashboardSection.ts:15`).
* An address that is changed while a verification token of the former one is
  being confirmed is verified without proof (`auth.service.ts:403`, against
  `:395`); an address that is saved again while it was changed and verified
  elsewhere likewise (`users.service.ts:70`).
* A mail that could not be sent leaves its token pending: for a day no other is
  sent, and the client says "Verification email sent."
  (`auth.service.ts:339`, against `useAccountProfileFormState.ts:90` and
  `auth.service.spec.ts:795`, "does not resend"; `SentAsTold` of AccountEmail). A
  registration whose mail fails is answered with an error and has made the
  account.
* Until the catalog's first answer after a list was loaded, Back from it to
  another page leaves the list where it is: the list's listener runs first and
  its effect writes the list's address over the other (`useDiscoverState.ts:55`,
  against `useAppShellState.ts:100`).
* A release's own link changes the address and opens nothing when it is clicked
  on its project's page (`VersionSummary.tsx:37`, `VersionActions.tsx:44`).
* `version` is the parameter of the list's filter and of the project page's
  release (`discoverUrlState.ts`, `projectPageUrlState.ts`), so that either is
  taken for the other when an address is made from the current one.
* Stepping back from one list to another of a different type changes the type,
  and the search of the list that was left is written to the entry
  (`useDiscoverState.ts:64`).

## What is proved

The proofs hold for any sets of requests, users, rows, keys, addresses, pages and
so on, for files and histories of any length, and under the named assumptions of
the modules: placeholders such as `NoId` or `None` are no elements of the sets,
the founder is a user, the users of ProjectFollows are finitely many, and the
list and a user's page have no static address (`SelectionAssumption`, after
`staticViewFromPathname`). TeamMembershipProofs covers both kinds of team, of
which the run takes one.

A module of proofs extends one component, or two that share no variable, and
defines for each an inductive invariant. It proves that the initial states
satisfy the invariant and that each action preserves it (one lemma for each
action, over a few lemmas about what a request may do: move on, end, write one
row), and derives the properties.

| module | component | invariant | theorems |
|---|---|---|---|
| TeamMembershipProofs | TeamMembership | `Inv`: a deleted team has no rows; the table's rows have identifiers that were handed out; a request that has written knows what it wrote; what it read was once there; nobody's row was accepted but by its own request | all properties of the run, the refinement of `InvitationLifecycle`, and that updates leave a membership's standing alone |
| ProjectCatalogProofs | ProjectCatalog | `Inv`: everything in the stores, or in the hands of a request on the way to them, was published; and while no requests overlapped, the stores differ from the row by what the one request in flight still owes them (`InStep`) | `TypeCorrect`, `ShownWasPublished`, `QueueCoherent`, `ModeratorsPublish`, `SerialIndexFollows`, `SerialCacheFollows`, and `RequestsRunOut`, `RestExpires` (below) |
| ReleasesProofs | Releases | `Inv`: rows are coherent; a request that has a version in hand writes back only what its handler changes; decisions not yet on record have a request that will record them | all properties of the run |
| ModerationLocksProofs | ModerationLocks | `Inv`: terms are bounded by the last one and grow; a request's term is not of the future; each stale page has its debtor | all properties of the run |
| AccountProofs | Credentials | `Inv`: revoked keys exist; a session that waits for its token exists; a used reset token is marked; and while no requests overlapped, what each request saw is still the case | all properties of the run |
| | AccountEmail | `EmailInv`: a token keeps its account and address; a request that asks for a verification or works with a token has the account and address that it names; every token was mailed or is in the hands of the request that stored it; and while no requests raced, the address a request compared is still the account's when it writes | `EmailTypeCorrect`, `VerificationIsProof`, `AnswersHaveTokens`: all properties of the run |
| PeopleProofs | Friendships | `Inv`: rows have the consent their state needs; a found row belongs to the request's pair as long as it exists; and while no requests raced, it is as it was found | all properties of the run |
| | DirectThreads | `ThreadsInv`: a direct thread has two members; a request past its check is of a member of an existing thread; every read mark was stored by a request of its user that has its time; every message is unread, shown or soon to be, or was stored late; and while no two first messages both looked, whoever creates a thread is alone | `SecondThreadsComeOfRaces`, `ReadMessagesWereShown`, `AnsweredMeansTold`: all properties of the run |
| ProjectFollowsProofs | ProjectFollows | `Inv`: one uncommitted writer of a row at most; and unless races happened, counter, wishes and stores agree | all properties of the run |
| ClientsProofs | ScanExchange | `Inv`: what a scan awaits was asked for with the whole file, an answer that is no failure is clamd's to the whole file, an answer that may still fail has a handler unless its scan is sending, and a recorded verdict is that of its scan | `TypeCorrect`, `VerdictsAreTrue`, `ExposureIsSending`, and `ScansRunOut`, `WaitsAreTimed` (below) |
| | Navigation | `NavInv`: only the address of a list names a project; every entry of the history was left showing the page of its address; the shell and the list agree with the current one | `PageIsItsAddress`, `ListIsItsAddress`, `StepsShowTheirEntry`, `OwnLinksPart`: all properties of the run |

The invariants are needed because no property is inductive: a session that has
not been signed, for instance, is not "live" and yet must carry the password in
force, as signing it makes it so; and that the page agrees with the current
address says nothing of the entries behind and ahead, which Back and Forward show.

Navigation is proved through what reading and writing an address do to each
other. An address shows the project it names and otherwise the page of its path
(`PageOfAddress`), so that the readers of `routing.ts` undo its writers; what the
list's effect leaves agrees with the state whichever was changed
(`WrittenAgrees`); following a link selects what loading its address would
(`LinkFollowed`). Each handler is then one of three kinds: it sets a state and
pushes an address that shows it or is left to the effect (`Went`), it stays and
keeps the page of the address (`PageKept`), or it rewrites an entry (`Rewritten`).

Only model-checked are `CacheSettles` and `EveryScanEnds`, as liveness under
fairness is out of the prover's reach (so are ENABLED, induction over data and
RECURSIVE operators; none of these is used), and the violation. Every other
property of every run is a theorem.

Of the two liveness properties the safety half is proved. A step changes a
scan only by bringing it nearer to its end, from which it is at most
6 * `MaxChunks` + 27 steps away when it begins (`ScansRunOut`), and of every scan
under way a step that `Fairness` makes happen has its guard satisfied
(`WaitsAreTimed`). A step changes a request of the catalog only by bringing it
nearer to its end, at most seven steps away (`RequestsRunOut`), and while no
request is under way the row stays and what happens to the cached page is that
it expires (`RestExpires`). What is left to TLC is that the fair steps are then
taken.

## Plan

1. Reports with their threads (the message handlers of `DirectThreads` over
   members that come and go), and the projects attached to an organization.
2. Ordered lists: gallery, collections, dependencies of a version, and the state
   that deleting a dependency's target leaves.
3. Scans that end in another order than they began, over `ScanExchange` and
   `Releases`; counters on their way to the search document.
4. The client's session.
