# A verification project for the issue tracker

TLA+ models of the multi-tenant issue tracker in `apps/api` (NestJS, TypeORM on
PostgreSQL, Redis, Socket.IO) and `apps/web` (React, TanStack Query), checked
with TLC on small instances and, where a theorem is worth having for every
size, proved with TLAPS. Paths below are relative to the repository root.

## 1. Inventory

`API` is `apps/api/src`, `WEB` is `apps/web/src`.

| Component | State | Operations | How it interacts | What is hard | What makes it correct |
|---|---|---|---|---|---|
| **Board gateway** `API/modules/issues/issues.gateway.ts` | `viewersMap`, `projectRooms`, `socketMeta` in memory; socket.io rooms | connect, disconnect, `join:project`, `leave:project`; forwards eight domain events; `emitToUser` | socket.io clients; EventEmitter2; called by notifications | re-joins, one socket's clean-up affecting others, restart | the maps and the rooms agree; a broadcast reaches every viewer |
| **Live board client** `WEB/hooks/useSocket.ts`, `useProjectSocket.ts` | one socket per tab, viewers shown, query caches | mount and unmount effects, socket handlers | gateway over a lossy connection with reconnect | buffered commands, late messages, two tabs of one user | a tab is in the room of its board and shows who is there |
| **Sessions** `API/modules/auth/auth.service.ts` | one Redis key per refresh token `{used, createdAt}` with a TTL | login, refresh with rotation and reuse detection, logout, wipe by SCAN and DEL | Redis, users table | overlapping requests between Redis round trips | a token is exchanged once; a spent one stays spent; a wipe leaves nothing of what it found |
| **Token refresh in the client** `WEB/api/client.ts`, `stores/auth.store.ts` | `isRefreshing`, `failedQueue`, tokens in the store and in `localStorage` | interceptors, login, logout, load of the user | sessions | many requests failing at once, a logout or reload meanwhile | every waiting request is settled by one refresh; the tab shows whom its token names |
| **Issues service** `API/modules/issues/issues.service.ts` | rows of issues, changelog, comments, attachments | create, update, move with rebalance, remove, comments, attachments, list by cursor | PostgreSQL transactions, pool, events to gateway and notifications | reads before the transaction, row locks, pool | committed rows are those of some sequence of requests; every request is answered; a list gives no issue twice, and skips none nobody touched |
| **Board drag and drop** `WEB/features/board/useBoardDnd.ts` | optimistic patch of the query cache | drag end, mutation, roll back | issues service, events | midpoints of floats, overlapping fetches | a board shows what the server has |
| **Issue drawer** `WEB/features/board/IssueDetailDrawer.tsx` | queries of the issue and its comments, uncontrolled text boxes | open, close, edit on blur, comment | issues service, events | answers older than events, text under the user's hands | it shows what it has been told of; what was typed is sent |
| **Projects and columns** `API/modules/projects/projects.service.ts` | projects, board columns | CRUD, getBoard | events | max + insert, columns with one status key | a status key has one column |
| **Sprints** `API/modules/projects/sprints.service.ts` | sprint status, issues' sprint | create, start, complete, remove | issues | check then save, row locks | one active sprint; a completed one keeps finished issues only |
| **Notifications** `API/modules/notifications`, `NotificationBell.tsx` | rows, unread count and list in the client | event handlers, mark read, poll | gateway push | detached handlers; push against poll against mutation | who is concerned is told once; the badge becomes right |
| **Plan limits and payments** `API/billing`, `TenantSettingsPage.tsx` | plan, counts cached in Redis, pending payment | guard, create and verify payment, webhook | YooKassa | check then create, one pending key for all payments, repeated notifications | what is paid for can be found until it is given; no cache stays wrong |
| **Tenants** `API/modules/tenants`, `middleware/tenant.middleware.ts`, `RegisterOrgPage.tsx` | tenants, cache by slug, the page's mark of the slug | register, check slug, update, resolve | sessions, Redis | failure after the commit, stale cache, answers out of order | registration is all or nothing |
| **Users** `API/modules/users`, `MembersPage.tsx`, `ProfilePage.tsx` | accounts | update, avatar, invite, remove, list | sessions, notifications | a whole entity saved that was read before | an account is what was last asked for it |
| **Search**, **mail and MinIO**, **guards**, **filters, health, start-up**, **other pages**, **seed and types** | | | | stateless or pure I/O | |

`PROJECT.json` lists every component with its sources and status, and the
hazards at the lines where they bite; each names the properties that cover it or
says why none does.

## 2. Modules

| Module | Models | Lines of the code |
|---|---|---|
| `IssuesGateway` | the gateway, open: any connected socket may send any command in any order | `issues.gateway.ts` |
| `BoardPresence` | the gateway closed with browser tabs | `useSocket.ts`, `useProjectSocket.ts` |
| `AuthService` | refresh tokens in Redis under overlapping requests | `auth.service.ts`, `users.service.ts` remove |
| `WebClient` | tokens, requests and refreshes of a browser tab | `client.ts`, `auth.store.ts`, `LoginPage.tsx`, `ProtectedRoute.tsx`, `Sidebar.tsx`, `router.tsx` |
| `IssueRows` | abstract: what committed rows of issues promise their readers | `issues.service.ts` |
| `IssuesService` | the rows and the changelog of one project under overlapping requests; implements `IssueRows` | `issues.service.ts` create, update, move, rebalance, remove |
| `BoardSync` | the board a client shows beside the rows of the server; its server implements `IssueRows` | `useBoardDnd.ts`, `useProjectSocket.ts`, `queryClient.ts`, `BoardPage.tsx`, `getBoard` |
| `IssueDrawer` | the drawer beside the issue and comments of the server | `IssueDetailDrawer.tsx`, `Drawer.tsx`, comments of `issues.service.ts` |
| `IssuePages` | cursor pages of a list that changes | `issues.service.ts` findAll |
| `ProjectPlanning` | columns, sprints and their issues under overlapping requests | `projects.service.ts`, `sprints.service.ts` |
| `Notifications` | the event handlers and the rows they save | `notifications.service.ts` |
| `NotificationBell` | one user's bell beside those rows | `NotificationBell.tsx`, `notifications.controller.ts` |
| `Billing` | payments, plan, limits and caches of one tenant, and its settings page | `billing/*`, `tenant.middleware.ts`, `TenantSettingsPage.tsx` |
| `Registration` | the registration page and two registrations | `RegisterOrgPage.tsx`, `tenants.service.ts` |
| `Members` | the accounts of a tenant and the list of members | `users.service.ts`, `MembersPage.tsx`, `ProfilePage.tsx` |
| `IssuesGatewayProofs` | theorems about `IssuesGateway` and `BoardPresence` | |
| `AuthServiceProofs`, `WebClientProofs`, `IssuesServiceProofs`, `BoardSyncProofs`, `ProjectPlanningProofs`, `BillingProofs` | theorems about the module of that name | |
| `PagesProofs` | theorems about `IssueDrawer`, `IssuePages`, `Members`, `Registration`, `Notifications` and `NotificationBell` | |
| `MC*` | values of the constants for TLC; `MCPages` runs `IssueDrawer`, `IssuePages`, `Registration`, `Members` and `Notifications`, `MCBoardPresence` `BoardPresence` and `Billing`, one at a time | |

### IssuesGateway

Node runs a handler without interruption up to its first `await`, and no
gateway handler awaits, so each handler is one action: `HandleConnection`,
`HandleDisconnect`, `HandleJoinProject` (with its auto-leave of the previous
room), `HandleJoinRejected` (the `catch` branch), `HandleLeaveProject`, one
`HandleBoardEvent` for the eight `@OnEvent` listeners (they differ in payload
only), `EmitToUser`, `GatewayRestart`. The three maps are functions over all
rooms with a "no entry" value; an empty inner map and a missing one are the
same, as in every read of the code. socket.io is external: `roomMembers` and
`userRooms` are its rooms, `outbox` the FIFO queue of messages to a socket.

### BoardPresence

Extends the gateway with tabs: which board is mounted, the socket singleton
(`sock`, `halted` after a close by the server, which socket.io does not repair),
commands on their way (`toServer`) and the viewers shown. `MountBoard` and
`UnmountBoard` are the effect of `useProjectSocket` and its clean-up; `Receive`
hands one message to whatever handlers are registered now, not those of the
board it was meant for. A reconnect makes a new socket without running the
effect again. Connections get lost with everything in flight, the server learns
of it later (`DetectLoss`), tokens expire (`ServeJoinRejected`), the API restarts.

### AuthService

A request is a sequence of Redis and database round trips; each is an action,
and requests interleave between them. `RefreshRead` is the GET with the three
outcomes of the checks after it, `MarkUsed` the SET of the value that was read,
`FetchUser`, `GenerateTokens` the SET of a new key. The wipe is a loop of SCAN
and DEL: SCAN is modelled by what Redis promises (a key present from beginning
to end is returned, one that comes or goes meanwhile may or may not be).
JWT signatures always verify here; `Expire` is the TTL.

### IssuesService

Each database round trip of a request is an action. PostgreSQL at READ
COMMITTED is external: a statement sees committed rows and those of its own
transaction (`View`), writers of one row wait for each other (`LockedFor`), a
cycle of waits is broken by an error (`Deadlocked`, `DatabaseError`). TypeORM's
`save()` is two steps as it is in the library: read the row, then update the
columns in which the object differs, or insert it if the row is gone. A pool
connection is `held` from `createQueryRunner` to `release`; `PoolStuck` is the state in
which each is held by an update that asks for another before its release. Of the columns the
model keeps status, order and assignee; a dto in which both tracked fields are
`Unset` stands for a change of any other field.

### BoardSync

`cache` is the data of the query `['board', projectId]`, `query` what TanStack
Query keeps about it (`due` is `isInvalidated`, `failed` its error status, which
makes `BoardPage` replace the board by a message and thereby leave the room).
`Patch` is `setQueryData`, `Invalidated` is `invalidateQueries`, which cancels a
fetch under way and starts another while the page is open. `Drop` is
`onDragEnd` with `NewOrder` as it computes it; `Handle` is the handler of the
first event in the inbox. A request is sent, reads
its issue (`Read`, the `findOne` before the transaction), takes effect later (`Commit`,
with the renumbering of `move`; the round trips of the transaction are
`IssuesService`) on whatever the rows are by then, an issue that was deleted being
inserted again as `save()` does, is announced (`Emit`) and answered (`Answer`, `Reject`, `LoseAnswer`). A board is
read by the server (`ServeBoard`) before it arrives (`ReceiveBoard`). Boards,
answers and events overtake each other; only the events of one client are in
order. `SendElsewhere` stands for all other users: boards meet only on the
server, so one board beside arbitrary requests is enough.

`astray` is a history variable: the issues a board may show wrongly for one of
five reasons, each recorded where it happens and cleared when the server reads
the next board for that client: `Untold` (a rebalance whose orders no event
carries; a deleted issue that a move inserts again, for whose `issue:moved` the board
has no card; two changes of one issue announced in the opposite order), `Emit` and
`Leave` (not in the room), `FailBoard`, `Handle` (a patch under a board that was
read before it). `BoardsAgree` says that there is no sixth. An update that inserts an
issue again is none: its event has the board fetched.

### IssueRows: the abstract specification

Who reads the issues of a project is promised this: a commit is a request for
one issue, which it may put anywhere; the others keep their columns and are at
most renumbered along with it, to distinct multiples of 1.0. `IssuesService`,
where a request takes a dozen round trips with locks, rollbacks and a rebalance
that writes orders computed by an earlier SELECT, is shown to implement it with
`issues` mapped to the committed rows. `BoardSync`, where a request commits in
one step, implements it too, so the composition of client and server rests on no
more than the detailed server gives. `IssueRows` allows what the code does allow:
an update saved over a later one, a deleted issue inserted again.

### The other modules of the server

In each, an `await` of a handler that another request could slip into ends an
action, and `save()` is the library's: a read, then an UPDATE of the columns that
differ or an INSERT.

`ProjectPlanning`: `CreateColumnRead` and `CreateColumnSave` are the maximum and
the insert, `StartRead` and `StartSave` the check for an active sprint and the save,
`CompleteSweep` and `CompleteCommit` the transaction of `complete`, which locks the
issues it moves; `CreateIssue` is a creation, in whatever sprint its dto names, `EditRead` and
`EditSave` are an update of an issue, `RemoveRead` and
`RemoveDelete` the removal of a sprint, whose ON DELETE SET NULL waits for those
issues. `raced`, `dropped` and `strays` are history: rows written by a request whose
check another one outdated, status keys whose column was deleted, issues put into
a sprint that was completed by then. Created columns all have the key `NoKey`, which is
`''`: `OneColumnPerKey` is about the others, `StatusKeysUnique` about all.

`Notifications`: `Emit` and `Act` are what the services commit and emit; `Handler` runs
from the lookup of the recipients (`Concerned` are those of an issue that is found)
through one `createAndEmit` each (`Save`, `PushNew`), and fails where a row cannot be saved, as when its user is gone.

`Billing`: `CreatePayment`, `StorePending`, `VerifyKey` to `VerifyDrop`,
`PatchRead` and `PatchSave`, `CheckPlan` to `CountRows` and `Insert` are the round trips of
the requests; `Checkout`, `Return`, `Reload` and `Answered` the settings page that the
payment leads back to. YooKassa is external: it settles a payment either way. `Webhook`
is `handleWebhook` as the code has it: a body with a tenant and a plan is applied, at any
time, and no payment is looked up for it. `applied` and `forgotten` are history: payments
whose plan a verification wrote, payments the pending key stopped naming before. `Expiry`
is the TTL of the keys.

`Registration`: the page types, checks (`Check`, `ServeCheck`, `CheckAnswered`), goes
back and forth and submits; the API's transaction is `Find`, `InsertTenant`,
`InsertUser`, `CommitTenant` and then `Tokens`, outside of it. Two registrations of one
slug meet at the unique index (`Locked`).

`Members`: `UpdateMe` reads the account with its hash, `SaveSelect` and `SaveWrite` are
`save()`; the hash is `select: false`, so it differs from what `save()` reads and is
always written. `Invite` and `InviteInsert`, `Remove` and `RemoveDelete`, `UploadAvatar` and
`AvatarWrite` are a check and a statement each. `meant` keeps what was last asked,
field by field, `overtaken` the accounts saved by an update that had read an older
row.

### The other modules of the client

TanStack Query is external and the same everywhere: `Invalidated` cancels a fetch
under way and starts another while the query has an observer, except on the very
first fetch, which it lets finish; an answer clears `due`; a fetch read by the
server (`Serve...`) arrives later (`Receive...`) or never (`Fail...`).

`WebClient`: a request is `Send`, `Serve`, then `ReceiveOk` or `ReceiveDenied`, which starts a
refresh or joins `failedQueue`; `ServePost`, `ReceivePost` and `LosePost` are that refresh,
`Resolved` is `processQueue`. `Visit` is a reload, `storage` what the store persists. A
page shows a spinner until the profile has arrived; the effect of `ProtectedRoute` that
asks for it depends on the access token, so it runs again when a refresh has replaced
the token: `Told` is what a refresh that has ended tells the page, this request
included. `/login` is open to everybody: `SendPassword` asks for no empty store, and the
tokens of a new user are stored beside the profile of the old one until the new profile
comes. `LeaveApp` and `EnterApp` go there and back without a page load.

`late` marks tabs that something may still reach which is not of their session: requests or
a refresh were under way when the store was cleared or another login filled it; the
tab was loaded while a refresh of it was under way, or with a token in `localStorage` that
it had exchanged; or it signed in over the open session of somebody else. It is taken
back when the tab is loaded, signs in or signs out with nothing of that kind under way.
`spilt` says that such a tab was the last to write `localStorage`. `usedBy` has, of each pair,
the tab that exchanged its refresh token, whichever load of the tab it was.

`IssueDrawer`: `Focus`, `Type` and `Blur` are the description; `Comment` the new comment;
`Hear` an event; `Synced` the effect that writes the server's text into the box. The other
fields that are sent on blur behave otherwise (uncontrolled inputs, a title that is
trimmed) and are left out. `CommitElsewhere` is an update or a comment of somebody else,
which is announced and invalidates the queries; `MoveElsewhere` and `DeleteElsewhere` are
announced to the board only, so nothing tells the drawer: `lost` records that of the query,
until its next fetch.

`IssuePages`: a page is `FindIds`, the SELECT of the ids in their order, and `FindRows`, the
SELECT of these rows with the conditions asked again, as TypeORM's `getMany` does with a
join and `take`; a `Shift` of any issue may come between them, and one of an issue of that
page is recorded by `torn`.

`NotificationBell`: `SaveRow` and `PushRow` are the two halves of `createAndEmit`, `OnNew` a push, `AskCount` to `ReceiveCount` the poll, `ServeList` and
`ReceiveList` the list while it is open, `Mark` to `ReceiveMark` the mutations.

## 3. Runs

| Run | Question | Bounds | Result |
|---|---|---|---|
| `gateway` | do the gateway's records agree after any sequence of handlers? | 3 sockets, 2 users of one tenant, 2 projects; queues of 1 message | pass |
| `presence` | does a quiet tab sit in the right room and show the right people; do payments, plan and caches agree? Two parts, one at a time | tabs: 3 tabs of 2 users, 2 projects, 3 sockets; 3 mounts or unmounts, 1 fault; payments: 2 of 3 requests at a time, 2 payments, 1 notification, 2 rows | pass |
| `broadcast_loss` | does a broadcast reach all viewers of a board? | as `gateway` | **violated** |
| `sessions` | is a token exchanged once, does a spent one stay spent, does a wipe leave nothing of what it found? | 3 overlapping requests, 3 tokens | pass |
| `webclient` | is every request of a tab settled, by one refresh at a time, for the right user, and no token presented twice? | 1 tab, 2 requests, 2 users, 2 pairs of tokens, 1 break (an answer lost, a reload, the app left) | pass |
| `issues` | do overlapping requests look like one after the other, and is each answered? | 2 overlapping requests of any kind, 2 to 3 issues, 2 columns, 2 connections | pass |
| `board` | does a board show what the server has once nothing is under way? | one board, 2 requests on it or elsewhere, 3 issues, 2 columns, 1 break | pass |
| `planning` | one active sprint, columns in order, one column for a key, completed sprints drained? | 2 of 3 requests at a time, 4 columns, 2 sprints, 1 issue | pass |
| `bell` | are list and badge right in the end? | 2 notifications, pages of 1, 1 break | pass |
| `pages` | drawer, pages of the list, registration, members, notifications (is everybody concerned told once?): five parts, one at a time | drawer: 2 issues, 2 requests or changes of others, 1 edit, 2 visits, 1 loss, 4 of these in all; list: 4 issues, 3 orders, pages of 2, 2 changes; registration: 2 slugs, 2 checks, 2 tries; members: 2 accounts, 3 requests, 2 visits or losses; notifications: 2 events, 3 users | pass |
| `column_keys` | is a status key unique in its project? | as `planning` | **violated** |
| `pending_poll` | is a payment that is pending asked for again? | as the payments of `presence` | **violated** |

Why the bounds are enough to be interesting: three sockets give a room two
members while a third changes rooms; three tabs give one user two tabs and a
witness; three requests give a refresh, its rival and a wipe; two issues closer
than `Threshold` force a rebalance, and two requests on two connections are
an update that waits for a second connection while the other request holds it, and two
such updates, which is `PoolStuck`. Four columns are the two a project starts with, one
created and its rival; two sprints are a sprint and the one that must not be
active beside it. A page of one is full with one notification, so the second
pushes the first off. Two pairs of tokens are one refresh; a third would be
another of the same. Two payments are one that overwrites the pending key of the
other. Pages of two with four issues, all initial orders tried, put a change before, at
and after the cursor. Three requests on an account are an update, one that
overtakes it and one that undoes that. Counters (`MaxMoves`, `MaxFaults`, `MaxInFlight`, `MaxRequests`,
`MaxBreaks`, `MaxPosts`, `MaxEdits`, `MaxVisits`, `MaxLosses`, `MaxShifts`, `MaxChecks`,
`MaxTries`, `MaxPairs`, `MaxRows`, `MaxNotices`, `MaxAsks`, `MaxTurns`, `MaxQueued`, `MaxCounted`) appear
in guards only, or in the state constraints of `gateway` and `pages`, neither of which checks
liveness, and only stop the environment from
starting new work. With the bound used up and all requests answered, the
system may stop, so deadlock is not checked; that requests do not
wait for each other forever is `RequestsAnswered`, `Settles` and the like. In `board`
orders are eighths of 1.0, so that as many midpoints as there are requests are
exact, which `BoardSyncAssumption` demands. Interchangeable sockets, tokens and
requests are symmetric in `gateway`, `sessions` and `pages`, which check no
liveness.

Many properties name exceptions, with a history variable that records when one
is met (`astray`, `overtaken`, `raced`, `strays`, `clobbered`, `forgotten`, `late`, `torn`,
`missed`, `lost`, `doubled`), or with a state (`PoolStuck`):
the code has no lock or version there, and the property says that nothing else
goes wrong.

### Fairness

`BoardPresence`: weak fairness for delivery, for the server handling what has
arrived, and for the ping timeout; none for users, connections or faults.
`IssuesService`, `ProjectPlanning`, `Notifications`, `Billing`: weak fairness for every
request or handler that has begun, since the event loop resumes an await that is
answered and PostgreSQL runs what it can; waiting for a lock or a connection is
disabledness, so fairness does not help a request out of it. `Billing` also assumes
that keys expire and that a page that has come back asks; nothing makes a notification
arrive, and customers need not pay, come back or reload.
`NotificationBell`: the poll every 30 s is made and answered, pushes are handled; users
need not do anything. `WebClient`: requests are served and their answers or
failures handled. The other modules are checked for safety only.

### What the violated runs show

`broadcast_loss`: three places delete a room from `projectRooms` when one socket
goes (`issues.gateway.ts:104`, `:137`, `:201`), whoever stays.

`column_keys`: `board-column.entity.ts:31` says of the status key "Must be unique per
project"; `createColumn` (`projects.service.ts:217`) sets none, so every created column has
`''`, and `getBoard` lists the issues of all of them under the last.

`pending_poll`: `TenantSettingsPage.tsx:42` says "retry once more if still pending", and
`verifyPayment` is headed "poll instead of webhook" (`payments.service.ts:133`). `retry` of
`useQuery` is consulted about errors only, and `pending` is an answer: the page asks once.

### Known deviations

What the models, or the reading for them, met. The properties that come near have
these as named exceptions, or leave them aside:

- `user:left` names a user and not a socket: one of two tabs closed takes the user
  off the boards of the others (`useProjectSocket.ts:63`).
- GET, test and SET of the `used` mark are separate (`auth.service.ts:107-128`): two
  refreshes may both exchange a token; and a refresh in flight writes its new token
  behind the SCAN of a wipe (`:191`).
- `update` saves an object read outside its transaction (`issues.service.ts:232`), which
  restores columns others have changed, without an entry in the changelog;
  `updateMe` (`users.service.ts:91`) does so with the password hash. Both, and `move`
  (`:309`), insert a row again that was deleted since; boards that get `issue:moved` of it
  have no card to move (`useProjectSocket.ts:82`).
- `update` re-reads on a second connection before it releases the first
  (`issues.service.ts:279`): as many updates as connections wait for each other
  (`PoolStuck`).
- After a rebalance the event carries the order that was asked for, and names one
  of the issues that were renumbered (`issues.service.ts:339`).
- `issue:moved` and `issue:deleted` patch the board and leave the query of the issue as it
  is (`useProjectSocket.ts:70-92`, `:107-114`): an open drawer keeps the old status, or
  the issue that is gone.
- A page of `findAll` is two SELECTs outside a transaction (`issues.service.ts:118-158`): an
  issue that goes between them makes `hasMore` false, and the rest is never given.
- A page reloaded during a refresh presents its old token again, which ends all
  sessions of the user; `/login` stores the tokens of a new user beside the old one's
  profile (`LoginPage.tsx:55`), for good if the new profile does not come.
- Tabs do not join their board again after a reconnect (`useProjectSocket.ts:55`); the properties of
  `BoardPresence` are about tabs that are joined.
- The limit of a plan is checked against a count of up to a minute ago, and before the
  creation (`plan-limits.service.ts:53-63`): overlapping and quick creations pass it.
- A second checkout overwrites the pending key of the first (`payments.service.ts:122`), and a
  verification deletes it whatever it names by then (`:174`, `:184`). Notifications are
  applied as their body says (`:197`), so a plan need not be one that was paid for.
- A PATCH of a tenant's name writes back the plan it had read
  (`tenants.service.ts:94-113`).
- `projects.api.ts` starts and completes sprints with PATCH, the API has POST;
  `ProjectSettingsPage.tsx` says "saved" without a request; `MembersPage.tsx:42` shows a
  temporary password that `invite` does not return.

## 4. Proofs

All of it holds for every value of the constants that the assumptions allow: any
number of sockets, tabs, issues, requests, users. The eight modules below hold the
theorems; in each, an inductive invariant is stated first, there is a lemma per
action that says the action keeps it, and the theorems follow from it at the end. Each
inductive invariant was checked with TLC, beside the run of its module, before it
was proved.

| Module | Theorems | Inductive invariant |
|---|---|---|
| `IssuesGatewayProofs` | `GatewayTypeCorrect`, `BookkeepingCorrect`, `RegisteredCorrect` | `GatewayInv` |
| | `TabsUseTheGateway` (`BoardPresence` implements `GatewaySpec`), `TabsAreWhereTheyShow`, `NobodyIsShownInVain`, `EverybodyIsShown` | `TabsInv` |
| `AuthServiceProofs` | `SessionsCorrect`, `SpentCorrect`, `WipeCorrect`, `RotationCorrect` | `AuthInv`, `Rotation` |
| `WebClientProofs` | `TabsShowTheirUser`, `RefreshesAreAlone`, `TokensArePresentedOnce` | `ClientInv` |
| `IssuesServiceProofs` | `IssuesTyped`, `RebalanceKeepsOthersWork`, `RequestsImplementIssueRows` | `IssuesInv` |
| `BoardSyncProofs` | `BoardsShowTheRows`, `RowsMoveOneByOne` | `BoardsInv` |
| `ProjectPlanningProofs` | `KeysHaveOneColumn`, `ColumnsAreOrdered`, `OneSprintIsActive`, `SprintsAreDrained` | `ColumnsInv`, `SprintsInv` |
| `BillingProofs` | `PaymentsAreFound` | `PlanInv` |
| `PagesProofs` | `AccountsAreAsMeant`, `ListIsRight`; `IssuesAreGivenOnce`; `DrawerIsRight`, `TypedTextIsSent`; `TenantsAlwaysHaveAdmins`, `RegistrationIsRight`; `EveryoneConcernedTold`; `BellAgrees` | `AccountsInv`, `ListInv`; `PagesInv`; `DrawerKnown`; `RowsInv`, `MarkInv`; `NotifyKnown`; `BellKnown` |

### The gateway and its tabs

`RoomBookkeeping` and `RegisteredRoomsInUse` are not inductive alone: which room
to clean up is read from `socketMeta`, so the types and the bookkeeping are
needed in every departure, and a registered room stays in use because the
departure of the socket that empties it also unregisters it, which needs the
bookkeeping to know that the socket was a member. The argument is cut into what the
clean-up operators do (`WithoutType`, `WithoutEffect`, `WithoutRegistered`), what a
departure and a join do to the records, and one step per handler.

`BoardPresence` only uses the gateway: each of its steps is a step of `GatewayNext`
or leaves the gateway's variables alone, so the three theorems carry over
(`TabsUseTheGateway`). What a tab shows in the end depends on the messages still in its
queue: `WillShow(q, now, u)` is whether u is shown after the whole queue q has
been handled. `TabsInv` says of each connected tab that its last command is about
the board it has mounted (`BoardAsked`), that once its commands have been served it is
in that board's room (`InRoom`), and that with its queue handled it shows nobody who is not
in its room, and everybody who is, but those who were ever there twice (`Informed`);
`doubled` has the latter (`DoubledKnown`). Each handler of the gateway appends to the
queues exactly what keeps `Informed` true of everyone in the room.

### Sessions and tabs

`AuthInv` is `SessionsInv`, which the run checks, and one fact more: a key belongs to an issued
token, and so does the one a refresh is about to mark (`KeysIssued`); what was
usable when a wipe began and still is, SCAN has yet to return (`WipeOwes`); after
the answer none of it is usable (`WipeAnswered`). The wipe holds nothing up: the
proof has to show that each step of another request, the late `MarkUsed` and the new
keys of `GenerateTokens` included, leaves those facts alone. `ExchangedOnce`
(`RotationCorrect`) has an invariant of its own on top of these, `Rotation`: of a token that was not
read twice before a mark, one request at most is exchanging it, which has marked it before it goes on,
or it has a successor and is marked; never both.

`ClientInv` has what a request and a refresh under way know (`RequestsKnown`,
`PostsKnown`: a refresh is its page's only one and has a leader, who waits for it) and,
as long as nothing can reach the tab that is not of its session (`late`), `PageKnown`: its
store has both tokens or none, of one user and no other's profile (`Fits`, which holds of
`localStorage` too unless it is `spilt`); the refresh token of the store was not exchanged
by the tab, in this load or an earlier one, unless the answer is on its way; a refresh under
way is of this load and of that token (`Mine`), and a profile under way of that user
(`Suits`).

### Issues

A request between its first write and its commit has written its own issue and, in
a rebalance, the order of others. `IssuesInv` says that no two open transactions
have written one row (`LocksRight`); that a request has what its next step needs
(`StepRight`); that the other issues a transaction has written are rows still, with the
status and the assignee that are committed (`WritesRight`), which nobody can change
before it ends because of the lock; that only a rebalance has rows left to write
(`TodoRight`); and that the orders it has given or will give are ranks, no two alike
(`RanksRight`). So a commit touches the status and assignee of its own issue only
(`CommitOnlyReorders`), which is `RebalanceMovesOnly`; and it is one `Write` of
`IssueRows`: of the request's issue or, when `save()` had nothing to write there, of any
issue it renumbers, or a stutter (`TransactionWrites`). The insert of a new issue is a
`Write` too, a delete is `Remove`, or a stutter when the issue was gone; all other round
trips leave what others read as it is. That the ranks of a rebalance lie within
1..Cardinality(Issues) is where the finiteness of `Issues` is needed.

`BoardsInv` is about one board and one issue that is not `astray` there: the last
change in the inbox, or of a request committed and not announced, is the row's
(`LastIsRight`); a board that is on its way from the server has the row, unless a change is
still to be announced to it (`FetchIsRight`); so has the cache, unless it is being
fetched or shows a drop that may yet be rejected (`CacheIsRight`). In a quiet state none of these
exceptions is left, and `BoardInv` follows. Which issues are there at all is settled by
`Present`, and by `GoneOrBack`: after the event of its deletion an issue is gone, unless
an update that inserted it again is still to be announced and will have the board fetched
(`WillFetch`). `RequestsRight` has it that a request names its issue, and a creation none
before it is committed. What a listing of a column covers and
that a renumbering gives distinct ranks are lemmas about the operators
(`ListingCovers`, `MoveEffect`). `RowsMoveOneByOne` then maps
`Commit` to `Write` or `Remove` and every other action to a stutter.

Both servers implement the same `IssueRows`, so what `BoardSync` assumes of the server in its
one-step `Commit` is no more than what the transactions of `IssuesService` are
proved to give their readers.

### Planning, billing, notifications and the pages

`ColumnsInv`: columns read by an update or a deletion are as they were read, or were
deleted (`ColumnKnown`), so a save can bring one back only as what it was; a key of the
first board whose column was never deleted has that column alone (`KeysKept`), and no key
other than `''` is held by two columns, be it in the row or by a request that has read it (`KeysApart`). `SprintsInv`: a start that is not `raced` has seen no
sprint that is active now (`StartKnown`); what a completion has not swept are the `strays`
(`SweepKnown`). `PlanInv`: a verification goes on to the UPDATE only with a payment
that has succeeded, and to the DEL once that is applied, or with one that was cancelled
(`Known`); a payment that can still be paid is named by the pending key from the moment
its customer has the address to pay at, or was forgotten (`PaymentsFound`); and no step loses
one that was found (`FoundKept`).

`AccountsInv` and `ListInv`: what was read by an update that nobody overtook is the row;
what a fetch of the members carries is the list there is, unless an answer that will
have it fetched again is on its way. `PagesInv`: an issue that nobody touched was given once
if the cursor is past it, never before; the ids of a page under way are the first that
match, unless the page is torn (`IdsKnown`), and even then no issue is given again; the last page is the last because a finite set
of issues has a last one in the total order of (order, id). `DrawerKnown`: unless an event is
under way or the query is `lost`, a query has what the database has, or fetches it, and the box shows the
data or what was sent from it. `RowsInv`: of a slug there is one tenant or
one transaction that holds its place in the unique index, never two, and a
client that has been told of success has its tenant. `MarkInv`: checks are numbered in
the order they are started, so when the latest to be answered is the latest
started, the mark is about the slug shown.

`NotifyKnown`: a user who is still there has a notification of a handler that has not failed
exactly when the handler has told the user (`ToldBy`: those found and not among those still to be told),
and has it once; users a handler found are not the one it tells about, but for deletions and sprints.
Cardinality 1 in `EveryoneTold` then comes from a table that repeats nothing. Stating
the recipients' cases for a prover showed that they overlapped in an earlier form of the
model (no issue, and an event that names recipients), where TLA+ leaves the value of a CASE open;
`Concerned` has them apart. `BellKnown`: when nothing the list lacks is on its way to the
component (`Quiet`), a page served for the list is the server's page, and so is the list unless
it is due or fetched; and an open list that is due is fetched. The step that needs care is an
invalidation while a first fetch has been served, which goes on: `missed` records it.

### Assumptions

Each is named, in the module that declares the constants, and evaluated by TLC in
the runs. They say that the placeholder values (`NoRow`, `None`, `Removed`, `NoText`
and so on) are not values they stand beside: JavaScript's `undefined` and
`null`, or the absence of a row or key, are no rows, ids or texts. `Issues`, `Columns` and
`Ids` are finite, as a table is. The first board's columns differ in order, as
`DEFAULT_BOARD_COLUMNS` does (`PlanningAssumption`), the limit of a page is positive, 1.0 and
the rebalance's threshold are. `BoardSyncAssumption` wants 1.0 divisible by as many
midpoints as there are requests, so that none is rounded: the code's doubles have 52
bits for that, and rebalances before they are used up. A user is of one tenant
(`ConstantsAssumption` of the gateway). `IssuePages` numbers ids, as text ids are ordered.

### What stays with TLC

- Liveness, out of the provers' reach: `DepartedDisappear`, `RequestsAnswered`,
  `CountSettles`, `CachesSettle`, `Settles`.
- `BroadcastReachesViewers`, `StatusKeysUnique` and `PendingIsAskedAgain` do not hold.

## 5. Plan

1. The lemmas that several modules prove for themselves (a finite set has a greatest
   number) in one module they share.
2. `DropOrder`, the pure part of `BoardSync`: where a dropped card ends, against
   "before the card it was dropped on".
3. Attachments, if a page comes to upload them.

## 6. Not modelled

Passwords and token signatures, roles and policies (decisions on one request
without state), mail and object storage (I/O; their failures are in the models of
their callers), full-text search (PostgreSQL) and `trackRecentView`, which nothing
calls; attachments, which no page uploads, and `update` of a project; forms, texts,
styles and routes, seed data. `features/kanban` and `api/hooks.ts` are older copies of
`features/board` and `api/*.api.ts` that no route mounts.
