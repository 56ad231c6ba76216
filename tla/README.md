# Balu: a verification development

TLA+ modules for the parts of Balu whose correctness depends on the order in
which things happen: the sync endpoint (`server/balu/sync`, `server/balu/routers`),
the offline-first sync client (`packages/sync-client`), the task tree both of
them change by handlers of their own, memberships and invites, sign-in sessions,
attachments, reminders, recurring tasks, and the sessions of the phone app. TLC
checks them on small instances; TLAPS proves the main facts about the endpoint,
the tree, memberships, sessions, attachments, reminders and the phone's logout
for every instance. Line numbers below refer to the repository's `src/` tree.

## 1. The system

A *workspace* is a set of versioned rows (projects, sections, tasks, labels,
comments, attachments, members) in Postgres. Devices edit a local replica,
queue every edit as a *command* with a fresh uuid, and call
`POST /workspaces/{id}/sync` with their queue and their sync token; the reply
says what became of each command and carries every row changed since the token.

### Components

| Component | State it keeps | Operations | Interacts by | What makes it correct |
|---|---|---|---|---|
| **Sync endpoint** `routers/sync.py`, `sync/commands.py`, `sync/engine.py` | `workspaces.version`, rows with `version`/`is_deleted`, `synced_commands`, `temp_id_map` | one transaction per command under the workspace row lock; lock-free replay check; version read; one SELECT per table | HTTP from clients and MCP; row lock shared with the membership routes | a uuid takes effect at most once; an `ok` is final; the token skips nothing; only a user who may write at that moment writes |
| **Sync client** `packages/sync-client` | replica, queue, token, `needsFullSync`, `idAliases` in memory; five keys in storage | mutate, flush, pull, access loss, hydrate | HTTP; callbacks `onCommandsRejected`, `onAccessLost`; storage (localStorage, SQLite) | a saved edit is never silently lost; a refused one does not stay on screen; the device converges; losses are reported |
| **Start of the app, sessions of the phone** `apps/*/src/lib/boot.ts`, `clients.ts` | session epoch, the client in use and the stopped ones, moves and holds; cached session, known workspaces | start, login, switch, delete, land elsewhere, wait for a workspace, expire, log out; discard lost workspaces, boot from cache | `/me`, storage, sync clients, the settings and login screens | a logout leaves nothing; the screen shows what the client serves; one account's data never meets another's; a loss is told once |
| **Memberships, invites, workspaces** `routers/members.py`, `invites.py`, `workspaces.py`, `services.py` | memberships with role and version, invites, users | accept, revoke, change role, remove, delete workspace, rescue | workspace lock, user locks; member rows are synced rows | always an owner; nobody grants more than they have; no account without a workspace; no deadlock |
| **Task tree** handlers in `commands.py` and, on the device, in `apply.ts` | projects, sections, tasks, subtasks, comments, labels | add, move, complete, delete with cascades, reorder, relocation | run inside the endpoint's transaction; the client runs its own version first, on its own tree | a live row never hangs on a deleted container; a subtask is where its parent is; the two versions end up with the same tree |
| **Recurrence** `sync/recurrence.py`, `sync-client/src/recurrence.ts` | none | next occurrence, roll forward | called on completion by both sides | on the rule's grid, after today, the same on both sides |
| **Reminders** `reminders.py` | `reminder_at`, `reminder_sent_at` | the periodic tick; commands re-arm | shares task rows with the commands, without the workspace lock | each armed reminder fires once |
| **Sessions** `auth.py`, `packages/api-client` | refresh-token families, in-process successor cache | issue, rotate, replay detection, logout, shared client refresh | advisory lock per family | one live token per family; a replayed token ends the family; an honest retry does not |
| **Attachments** `routers/attachments.py`, `attachments.py`, `blobs.py` | rows and files | streaming upload, claim between handler and worker, removal after commit, orphan sweep | task rows, file system | a live row has its blob; no live blob is swept |
| **Notifications, rate limits, MCP, parser, views, configuration** | little or none | best effort or pure | - | see section 8 |

### What is hard here

* Requests interleave between their transactions: replay check, each command,
  the counter and every table of the reply see different moments.
* A reply can be lost after its commands committed; a request that timed out
  still runs; a retry overtakes its original.
* The client writes five keys one after the other and can be killed between any
  two; a write can fail.
* Other devices, role changes and the deletion of the workspace happen at every
  point of that.
* Membership requests judge, wait for the workspace's lock, judge again, lock
  accounts and count what they have left; several overlap.
* A refresh token may be used once: tabs share one, answers get lost, the
  server forgets its reuse window at a restart, and logouts race refreshes.
* Bytes and rows of an attachment live in two places without a transaction
  around both; the handler can be cancelled while its worker commits.
* The reminder tick reads, sends for minutes and commits at the end, without the
  lock the commands hold.
* Nine functions of the phone await `/me`, storage or each other and then change
  the session; stopped sync clients go on writing.

## 2. Modules

| Module | What it is |
|---|---|
| `SharedWorkspace` | abstract specification: what a workspace promises when requests do not exist |
| `SyncServer` | the endpoint: requests as processes, each at its own point between transactions |
| `SyncServerProofs` | theorems about `SyncServer` |
| `SyncClient` | one device on top of `SyncServer`: replica, queue, lane, storage, kills, access loss |
| `SyncClientProofs` | theorems about `SyncClient` |
| `TaskTree` | what the handlers of `commands.py` do to projects, sections, tasks, subtasks and notes |
| `TaskTreeProofs` | theorems about `TaskTree` |
| `TreeReplica` | one device's copy of the tree: the handlers of `apply.ts` against those of `TaskTree` |
| `Governance` | abstract specification: who may do what in which workspace, each request at one moment |
| `Accounts` | the same requests with their locks, waits and second judgements; implements `Governance` |
| `AccountsProofs` | theorems about both |
| `Sessions` | refresh-token families at the server, and the tabs of one browser |
| `SessionsProofs` | theorems about `Sessions` |
| `Attachments` | uploads, deletes, removal of files, crashes, the orphan sweep |
| `AttachmentsProofs` | theorems about `Attachments` |
| `Reminders` | the tick beside the commands that arm reminders |
| `RemindersProofs` | theorems about `Reminders` |
| `Recurrence` | `next_occurrence` and `roll_forward`, against what a series is |
| `PhoneSession` | who is signed in on a phone and which workspace it shows: the flows of `boot.ts` and the clients of `clients.ts` |
| `PhoneProofs` | theorems about `PhoneSession` |
| `MCServer`, `MCClient`, `MCTree`, `MCPhone`, `MCSessions` | instances: users, commands, who issues what; the tree to start from; accounts and workspaces; logins |
| `MCRecovery` | an instance of the client that follows one story: a refusal, a lost answer, another device's edit |
| `MCEndpoint` | two instances of the endpoint, one of which a behaviour chooses at its start |
| `MCServices`, `MCDevice` | parts that share no modelled state, one beside the other in one run |

### SyncServer

`rows`, `synced`, `temps`, `version`, `alive` are the database; `req[s]` is the
request in slot `s` (its user, token, commands, the role the router read, the
verdicts so far, the counter it read, the rows collected); `ledger` is history:
the changes in commit order, so that `ledger[v]` is the change that made
version `v`.

| Action | Code |
|---|---|
| `Send`, `Admit` | a request arrives; `get_membership` and the role (`routers/sync.py:31-43`) |
| `CheckLog` | the lock-free replay of a stored success (`commands.py:1064-1078`) |
| `RefuseViewer` | the refusal before the lock (`1087-1092`) |
| `Apply` | one transaction from `ctx.bump()` to commit or rollback (`1102-1222`): log re-read, membership re-read, temp ids, handler, mapping, log row |
| `Unavailable` | a transient database error ends the request with 503 (`1223-1240`, `routers/sync.py:54-56`) |
| `ReadVersion`, `Collect` | the counter first, then one SELECT per table (`routers/sync.py:75-76`, `engine.py:71-132`) |
| `AcceptInvite`, `ChangeRole`, `RemoveMember`, `DeleteWorkspace` | the routes that change membership rows or remove everything |

`Apply` is one action because its first statement takes the workspace row lock
and the lock is held to the end; what the transaction reads afterwards cannot
change under it. Everything the endpoint does without that lock is an action of
its own.

### SyncClient

An action is the code between two awaits. `lane` is the job holding the
exclusive lane (`exclusive`, `client.ts:406-413`) and the step it is at;
`writes` are storage writes issued and not settled; `disk` is what a restart
will find.

| Action | Code (`client.ts`) |
|---|---|
| `Mutate` | `mutate` (906-942); the writes of queue and replica are not awaited |
| `StartFlush`, `SendBatch` | `flush` up to `doSync` (753-766) |
| `MarkNeedsFullSync` | refusals recorded durably first (769-776, 538-546) |
| `ApplyFlush`, `PersistToken`, `PersistReplica`, `ClearNeedsFullSync`, `EndReply` | 777-804: fold in, then queue, token, replica, flag, each awaited |
| `SendPull`, `ApplyPull` | `pull` (848-866) and the recovery pull of a flush (832-837) |
| `RetryLater`, `GiveUp`, `WriteFails` | 503, timeout or broken connection, storage error: the catch blocks; nothing is dropped |
| `LoseAccess`, `ReportLoss` | `loseAccess` (724-751): notice first, queue last, then `onAccessLost` |
| `Kill` | the process dies; memory and unsettled writes are gone |
| `Boot`, `BootFromCache` | start: `/me` lists the workspace, or offline from the cached session |
| `BootPurges`, `RemoveKey`, `BootReports`, `KillInPurge` | a start that `/me` no longer lists the workspace for (`discardLostWorkspaces`, mobile `boot.ts:167-195`): count (`purgeWorkspaceData`, 138-160), remove key after key (171-182), alert; or the process dies in between |
| `Hydrated` | `hydrate` (554-580) after its await: what `Boot` asked for (`stored`) replaces what is in memory |
| `OtherDevice`, `Membership`, `Serving`, `Failing` | everyone else: commands, membership changes, and the endpoint's own steps |

The device's requests are the requests of `SyncServer`; nothing of the endpoint
is simplified for the client. Only the commands of other devices run in one step
(`OtherDevice`), since this device can tell only their order.

### TaskTree and TreeReplica

`SyncServer` shows that a command is one step at the server and takes effect at
most once; so `TaskTree` may take a command as one step and look at what it does.
`rows` holds every row with its containers and the version that last stamped it;
`Execute(c)` is one command. `Verdict` collects the checks of the handlers, in
one place per kind of error (`NotFound`, `Nested`, `WrongSection`); a refused
command is rolled back. A handler is an operator from rows to rows:

| Operator | Code (`commands.py`) |
|---|---|
| `ProjectDelete`, `SectionDelete`, `TaskDelete` | the cascades (404-443, 508-519, 751-766) |
| `TaskAdd`, `Placed` | 522-609: a live parent decides; a deleted target is replaced by the nearest live one |
| `TaskMove`, `Destination` | 621-677: keys not sent keep their value, a subtask follows its parent, subtasks follow the task |
| `Created` | the other adds, and the row of an uploaded attachment |
| `TaskUpdate` | the handlers that change only a row's own fields |

`TreeReplica` puts a device next to it. `Mutate` applies a command to the screen
by the client's version of the handler (`Apply...`, `apply.ts:43-409`), which
checks almost nothing and works on the device's tree, and queues it. `Push` lets
the server judge it against the tree of that moment, `Pull` asks without a
command, `Receive` folds the answer in: a full one replaces the screen and
re-applies what is still queued, a delta overwrites its rows. `Teammate` is any
command the server accepts from somebody else.

### Governance and Accounts

`role[w][u]`, `space[w]` and `invite[i]` are the memberships, workspaces and
invites. In `Governance` a request is one step: `May` is the judgement of the
routers, `Effect` what they change, with a new workspace for everyone it leaves
without one. In `Accounts` a request `req[r]` goes through the code's points:

| Action | Code |
|---|---|
| `Arrive` | the check before any lock: `get_membership`, `_require_admin`, a usable invite, no membership at all for `/me` and login |
| `LockSpace` | `lock_workspace` is granted and the request is judged again, on what the wait ended with |
| `LockUser` | `lock_users`: accounts that lose the workspace, one at a time, in id order (`services.py:86`) |
| `Settle` | `rescue_if_workspaceless` counts what each has left (`services.py:113-126`) |
| `Commit`, `Abort` | the transaction ends; lock timeout, lost connection |

A request's own change is invisible to the others until `Commit` (READ
COMMITTED), so it is kept as the request.

### Sessions

`tok` is the table of refresh tokens in order of issue, `cache` the successors
the process still hands out (`refresh_reuse_grace_seconds`), `calls` what is on
the network, `store` the browser's storage and `tab[t]` a tab with its tokens in
memory. `Read`, `Rotate`, `Repeat`, `Burn` are a refresh at the server
(`auth.py:139-272`): found before the family's advisory lock, judged under it.
`StartRefresh`, `EnterLock`, `TakeAnswer`, `GiveUpAnswer` are the client's
(`index.ts:434-515`), `Login`, `Logout`, `Boot`, `StorageEvent`, `Reconcile` what
the web app does around it (`boot.ts:85-170`). `GraceEnds`, `Restart`, `Close`
and lost answers are the faults.

### Attachments

`row`, `file` and `upload` say where the row, the bytes and the request of an
upload are; `holder` is the workspace lock. `Authorize`, `OpenFile`,
`BodyComplete`, `BodyRefused` stream the body; `Cancel` and `StartWorker` race
for the claim; `Store`, `StoreFails`, `Committed`, `CommitLost`,
`CommitVanishes` are the worker's transaction, whose outcome can stay unknown.
Deletes commit first and leave files to `RemoveBlob`. `FindOrphans`,
`Quarantine`, `PurgeQuarantine` are the sweep an operator may start, also
against the wrong database.

### Reminders and Recurrence

An arming is one value a reminder was given. `SelectDue`, `Deliver`, `CommitTick`
are a tick: what is due is read once, each message sent, the stamp of a message
written with the next one's reads and committed at the end. Commands cannot get
past a row the tick has written, and can past all others. `Recurrence` is pure:
`GiveRule` gives a task a rule, dates and a reminder, `RollOn` completes it by
the code's arithmetic (an index to start from, a scan, month ends clamped), and
the properties compare it with what a date of the series looks like.

### PhoneSession

`app` is the store, `tokens` the api client's, `client[w]` what a sync client of
a workspace may still do (run, finish the job it was stopped in, nothing),
`flows` the functions that are waiting, `disk` what a restart finds. A flow's
`fresh` is its captured epoch still being the current one.

| Action | Code |
|---|---|
| `ServeMe`, `Unreachable`, `Refused401` | `/me` answers, or the request fails with or without a session left (`index.ts:434-554`) |
| `HandleMe`, `PurgeForeign`, `Commit` | `establishSession` (80-150): every check after an await, another account's data, `setSession` and `initSync` in one turn, `discardLostWorkspaces` |
| `After...` | what each caller does with it: `bootApp` (596-642), the login step, `doSwitch`, `landAfterDelete` (332-375), `landOutside` (462-517), `holdForWorkspace` (413-460) |
| `Wake`, `PurgeLeft` | the backoffs; the purge once a move is over |
| `StartApp`, `Login`, `Switch`, `Delete`, `DeleteServed`, `DeleteFails`, `Logout` | what the user starts |
| `PurgeAll`, `Reset` | a logout after its teardown; the end of a logout and of an expiry |
| `Writes`, `Idle`, `SyncLost`, `SyncRefused` | a client stores a result, winds down, meets a 403/404, or a refused session |
| `Kill`, `Gain`, `Lose`, `Refuse` | the app is killed; memberships and sessions change elsewhere |

### Abstractions

* A command is its uuid. An add's temp id is the command, the object's id is
  the version it was created at (a fresh uuid in the code), a member row's id is
  its user. A row keeps the command that last wrote it in place of its fields,
  which is what last-writer-wins makes of them.
* In the tree, a comment and an attachment are one kind of row (a note), since
  their cascades are the same code; names, dates, order and completion are left
  out, and `task_update` stands for the handlers that change only those. Labels,
  reorder and the author's right to a comment are not modelled. A temp id is the
  id the server will give, so rewriting references is the identity; a batch is
  one command, and the rows of a reply are read at its commit. Those three are
  `SyncClient`'s and `SyncServer`'s subjects.
* Two roles: `member` (member, admin, owner: may write) and `viewer`.
* Not modelled in `SyncServer` and `SyncClient`: refusals for malformed arguments and the reuse
  of a temp id (here a temp id is its command, so only a retry could reuse it),
  cascades and relocation, batch sizing, debounce, backoff and `Retry-After`
  times (a job may start whenever the lane is free). Several workspaces on a
  device, `stop()`, `close()` and logout are `PhoneSession`'s.
* `hydrate` is two steps: the four reads are issued together and answered together.
  With `ActsEarly = FALSE` the user and the timers wait for the answer, which the
  code does not make them do; `client_acts_early` lets them act.
* A start's purge counts in one step, removes replica, token and flag in the order
  they were issued, then the queue, then the notice, and tells the user in a last
  step. Left out: a removal that fails (storage refuses it), the same workspace reopened
  before its purge is over, several lost workspaces in one alert, and the alert that
  is dropped on purpose because a session ended meanwhile.
* Storage applies writes in the order they were issued. For SQLite on the phone
  this is the order of one connection; for localStorage every write is immediate,
  which is the case where nothing is ever pending.
* A workspace that is back by the next start waives the notice of an interrupted
  purge, as `discardLostWorkspaces` does on purpose (`boot.ts:182-186`); the
  model counts it in `waived`.
* `Accounts`: no renames, no invite that expires while requests run, no profile.
  `Sessions`: no registration and passwords, no lease in place of Web Locks, no
  end of a token's 30 days, no login in a tab that is still refreshing;
  `setTokens` writes both tokens in one turn of the event loop and is one step.
  `Attachments`: no downloads, names, sizes; an upload is over before its file is
  an hour old, as `blobs.py:46-50` assumes. `Reminders`: no texts and
  recipients; a task deleted softly is one that is completed and never reopened.
  `Recurrence`: no parsing, not the years 2101 and 9999.
* `PhoneSession`: the answer of `/me` and the new session are one step apart from
  the wipe of another account's data, which is a step of its own; the data that
  `discardLostWorkspaces` deletes goes with the session that starts it (the steps of
  that purge are `SyncClient`'s). `/me` may list nothing, as released servers without
  the rescue answer (`services.py:129-131`; the rescue is `Accounts`'). A login may
  come at any time the login screen is up, an expiry or a logout still waiting
  included. Alerts, navigation, language and reminders are left out.

## 3. What is checked

| Run | Instance | Properties | Result |
|---|---|---|---|
| `server_requests` | two requests at once, in two parts. Commands: batches of up to two of {add, update}, any sender, membership changes up to version 2. Delivery: {add, another user's delete}, one per request, tokens up to one version behind, membership changes up to version 3 (accept, then demote or remove). Deletion and 503 in both | `TypeOK` `ExactlyOnce` `OkIsFinal` `NeverZeroTimes` `ImplementsWorkspace` | hold |
| `client_converges` | a device that joins as member or viewer, two own commands, another device deleting the same task, one fault, kills only while storage is at rest; fairness | `ClientTypeOK` `TokenIsHonest` `NoStrandedTemp` `Converges` | hold |
| `client_faults` | two parts (`MCFaults`). Kills: two faults of any kind (kills between any two writes, failing writes, lost replies, 503), starts from the cache, a member with two commands and a teammate's delete. Loss: a member who can be removed and re-invited, or lose the workspace, one fault anywhere and a second one in a start's purge, online starts | `SavedNotLost` `RefusalRecoverable` `LossIsKnown` | hold |
| `client_loss` | as the loss part, storage accepting every write | `LossIsTold` | violated |
| `client_token_ahead` | as `client_converges`, kills anywhere | `TokenIsHonest` | violated |
| `client_acts_early` | two adds, one fault, edits and timers beside the reads of a start | `SavedNotLost` | violated |
| `client_overlaid` | a member with two edits, a teammate who deletes one of the two tasks and edits the other, one lost answer; the order of the changes is told (`MCRecovery`), who answers when is not | `LastWriteWins` | violated |
| `services` | five parts of the server side that share no modelled state, each explored completely while the others stand still; fairness | accounts: `AccountsTypeOK` `AlwaysAnOwner` `OneDefault` `Serial` `NobodyLosesTheLast` `RequestsEnd`; sessions: `SessionsTypeOK` `OneLiveToken` `OverIsOver` `HonestStaysIn` `TabsAgree`; attachments: `AttachmentsTypeOK` `LiveHasBytes` `OnLiveTask` `NothingLeftOver`; reminders: `RemindersTypeOK` `NoneSwallowed` `UsedOnce` `NoneWaitsForever`; recurrence: `NextIsNext` `ReminderFollows` | hold |
| `session_revived` | a browser with two tabs, two logins, one fault | `LogoutIsFinal` | violated |
| `device` | two parts of a device. The tree: a project with a section, a task with a subtask and a note on it, a second project and a third task to add, one command of a teammate, two edits. The phone: two people, two workspaces, every flow of the app, two troubles, four taps | `DeviceTypeOK` `Forest` `TasksHealed` `AddLands`; `LogoutIsClean` `ScreenIsServedUnlessAstray` `OneAccountUnlessAstray` | hold |
| `phone_wrong_account` | the phone, with starts that find no network | `OneAccount` | violated |
| `tree_notes` | the tree of `device` | `NotesHealed` | violated |

A combined run (`MCEndpoint`, `MCFaults`, `MCServices`, `MCDevice`) chooses one part in its initial state
and leaves the others where they start; it is the union of the parts' own state
spaces, not their product, and shows of each part what a run of its own would.

The properties, in words:

* `ExactlyOnce`: a uuid makes at most one version, however often and however
  concurrently it is sent.
* `OkIsFinal`: a command reported `ok` is in the history, and its temp id names
  the object it created, for as long as the workspace exists.
* `NeverZeroTimes`: every change between the client's token and the one it is
  handed is in the reply, or its object changed again above the new token.
* `ImplementsWorkspace`: hide the requests and what remains is
  `SharedWorkspace`, in which whole commands take effect one at a time, each at
  most once, on live objects, by a user who may write at that moment. The
  refinement mapping drops versions and tables from the rows, and maps the log
  to the set of commands done and the temp-id table to the names.
* `TokenIsHonest`: whatever the workspace holds up to the device's token is on
  its screen, except under a pending edit.
* `LastWriteWins`: a device with nothing left to send or to repair shows no edit
  of its own that was overwritten before its token.
* `NoStrandedTemp`: a temp entry is shown only while its add is pending.
* `Converges`: the device of a member ends up showing exactly the workspace, with
  an empty queue and no refusal left to repair. The instance has a viewer too,
  because an edit a viewer's stale screen allows is refused and, being an add,
  only a full sync removes it. Edits and other devices' commands are finite in an instance, so
  "nobody edits any more" needs no assumption of its own.
* `SavedNotLost`: an edit whose queue write settled is in the stored queue, or
  took effect, or was refused by the server, or was discarded with the
  workspace.
* `RefusalRecoverable`: while a refused edit is on the stored screen, a restart
  still has the command or the full-sync flag.
* `LossIsTold`: when the purge of a lost workspace is over, the user has heard
  of at least as many changes as were really lost. The code breaks it (section 5).
* `LossIsKnown`: the same, where what is missing from the account was counted by a
  start's purge that was killed between the removal of the queue and the alert
  (`swallowed`). That is the only way a loss goes untold when every start asks
  `/me` and storage accepts its writes: the purge of a running client, the notice it
  leaves, refused changes that had left the queue, and a workspace that comes back
  all keep the count.
* `Forest`: at the server nothing live hangs on something deleted, a task's
  section is one of its project's, a subtask is one level deep and lives where
  its parent does.
* `TasksHealed`: a device that has nothing queued, nothing to repair and the
  latest token shows the server's projects, sections and tasks.
* `NotesHealed`: the same of comments and attachments.
* `AddLands`: a task typed on the device is refused only for its parent, which has
  become a subtask or was refused itself (the limitation `CONTRACT.md:490-493`
  names); a container deleted meanwhile never costs it. The apps' quick add files a
  task in a project and never names a section (`compose.ts:134-142`); the model lets
  an add name a section of that project.
* `Serial`: hide the locks and waits and what remains is `Governance`: each
  membership request takes effect as if it ran alone at its commit. A right lost
  while the request waited for a lock is not used, a revoked invite admits
  nobody, two workspaces of one account that go at once leave it one.
* `AlwaysAnOwner`: a workspace that exists has an owner.
* `NobodyLosesTheLast`: no step takes the last workspace of an account.
* `OneDefault`: a workspaceless account that several devices ask for gets one
  workspace, not one per request.
* `RequestsEnd`: requests never wait for each other in a circle. The lock
  timeout is an action (`Abort`) without fairness, so it is not what ends them.
* `OneLiveToken`: a session never has two live refresh tokens.
* `OverIsOver`: a session logged out or burned at the server has no live token
  again, whatever rotation was under way.
* `HonestStaysIn`: a session is burned only if the user logged out of it or the
  browser met one of the risks the code accepts (an answer lost past the reuse
  window, a restart inside it, a tab closed between the answer and the storage, a
  refresh handed another login's fresh token while its first request is still
  under way, see section 5).
* `LogoutIsFinal`: a session the user logged out of does not come back into the
  browser's storage.
* `TabsAgree`: tabs that show the app end up on the account whose login is
  stored, unless `LogoutIsFinal` is broken.
* `LiveHasBytes`, `OnLiveTask`: an attachment the workspace lists has all its
  bytes in place, and its task and workspace exist.
* `NothingLeftOver`: once requests and removals are done, a file has a row unless
  something crashed.
* `NoneSwallowed`: a reminder marked sent was sent, or was used up in silence on
  purpose, or was hit by the race of section 5.
* `UsedOnce`: one arming of a reminder is used up once, and again only for a tick
  that failed.
* `NoneWaitsForever`: due reminders are always dealt with in the end.
* `NextIsNext`: a completed recurring task moves to the very next date of its
  series after today, whatever index the scan starts from. The definition of a
  series (`InSeries`) is written without the code's arithmetic: congruence of
  days, weeks or months to the anchor, months clamped.
* `ReminderFollows`: its reminder keeps its time of day and its distance from the
  date it belongs to, and never moves back.
* `LogoutIsClean`: from the end of a logout until somebody signs in, nothing of
  the account is on the phone and no client can still write there.
* `ScreenIsServed`: the workspace on the screen is the one the client in use
  serves, for the user on the screen, or it is being left.
* `OneAccount`: the account on the screen is the one requests go out for, and no
  data or client of another is beside it (the latter alone is `NothingForeign`).
* `ScreenIsServedUnlessAstray`, `OneAccountUnlessAstray`: what the code keeps of these
  two. It breaks both when the tokens part from the session on the screen, and the
  model notes in `astray` the three steps that let them: `"cached"`, a start without
  the network opens the cached session of another account than the one whose tokens
  the phone holds; `"switch"`, a switch is tapped while the session expires; `"login"`,
  a logout drops the tokens of a login under way. A kill and a logout clear the note.
  Section 5 tells each of them; while none has happened both hold, and
  `NothingForeign` holds even then.
* The type invariants say besides types what the code relies on in passing: two
  requests never hold one lock (`AccountsTypeOK`), one tab refreshes at a time
  (`SessionsTypeOK`), one loop of a session waits for a workspace (`DeviceTypeOK`).

### Bounds

Two request slots are the smallest number at which one request overtakes
another; with the client, one slot serves the request it waits for and one a
request it gave up on. Two commands of one author that depend on each other
(add, then update) and one of another author cover temp ids, real ids, refusals
(the update after another's delete) and retries; a third dependent command
repeats the same situations. `MaxVersion` only stops membership changes;
commands are finite by themselves. `Lag` bounds how old a token may be:
`NeverZeroTimes` depends on the token only through what lies above it. `MaxFaults`
bounds kills, lost messages, failed writes and 503s; two let a fault hit the
recovery from another. `KillAnywhere = FALSE` keeps kills to moments at which
no reply is being written. Kills in that window are one way the
properties of `client_converges` are lost (`client_token_ahead`); another needs no kill,
an edit drawn over by the recovery from a refusal (section 5.1), and
`client_converges` does not meet it because the other device makes one command.
`NoStrandedTemp` alone is proved for kills between replies and everything else
(`TempsNotStranded`). `ActsEarly = FALSE` leaves out the reads of a start, beside which
`SavedNotLost` fails; it holds in `client_faults` with every other fault there is.
In the kills part of `client_faults` the fault that follows a lost request is a kill
while that request is still out (`StrayThenKill`). In the loss part one fault of
any kind comes before the start whose purge the second one interrupts, and the workspace is
deleted in the place of the removal, not after it (`GoneOrRemoved`). Without these bounds, checked
once, nothing else was found; the theorems on the three properties have none.

In the tree every difference between screen and server needs one foreign command
between an edit and its reply; two edits let the second build on, or be refused
because of, the first. The ids are one more project and one more task than the
start has, so that a move has somewhere to go and an add something to make; one
section and one note suffice because the handlers treat them one by one.

Accounts: two requests at once, because every judgement, lock and count races
one other request; three users (1 and 2 own a workspace together, 2 owns another
in which 1 is a member, 3 has none and an open invite; ids are ordered because
the locks are), three ids for workspaces to be made, two invites. Sessions: two
tabs, two logins (of the same browser, by two people), three tokens, so that one
family can be rotated twice; one fault. `HonestStaysIn` was also checked alone
with four and with five tokens, and with two faults: four tokens are the least
with which the exception of section 5 occurs. Attachments: two uploads, on two tasks,
one mishap (a crash, a lost commit or a failed removal).
Reminders: two tasks, one recurring and with a
failing channel, two ticks of the clock, three edits, one failing tick.
Recurrence: anchors before a short month and at a leap day, days of
today in it, offsets of 0 and 13 hours, two completions in a row, and rules of
every frequency with intervals that skip months and years.

The phone: two people and two workspaces are the least with which data of
another account and a switch exist. Four things the user starts (`MaxTaps`) and two
troubles (`MaxTroubles`: outage, refused session, kill) are the least with which a
switch goes astray and breaks `OneAccount` and `ScreenIsServed`, and with which a
login does and breaks the latter; ann signs in first, and a membership that changes
takes the place of two taps and a trouble (`PhoneBounds`). The third step, the offline
start, takes three troubles: `phone_wrong_account` has them and asks for `OneAccount`
itself. The phone was also checked alone, with the same properties and without these bounds, with `MaxChanges`, `MaxTroubles`
and `MaxTaps` of 1, 2, 3; 0, 3, 4; and 0, 2, 5, without an error: that the properties
with exceptions hold is not a matter of the bounds, and the theorems have none.

Symmetry among the slots is used in the safety runs; not where liveness is
checked. `CHECK_DEADLOCK FALSE` is used where the system really stops: in
`client_loss` after the workspace is gone and its data purged; in `services`,
`session_revived`, `device`, `phone_wrong_account` and `tree_notes`, where users
and faults are bounded and everything comes to rest when they have been used up.
That nothing stops half-way is then what the liveness properties say.

### Fairness

`FairClientSpec` assumes weak fairness of what the code schedules by itself:
storage writes settle, the debounce timer, the retry timer and the 60 s tick
start the next job, replies are handled, the server serves requests it has
received, and requests nobody waits for end. Nothing is assumed of the user, of
other devices, or of kills and lost messages, which `MaxFaults` only bounds.
A start after a kill is assumed (the user opens the app again).

`AccountsFairness`: PostgreSQL grants a free lock to a waiter, and a request that
was granted it runs on; nothing makes a request arrive or time out.
`SessionsFairness`: the server answers, storage events are delivered, a tab that
has begun to refresh or to boot goes on; nothing makes anybody log in or out, and
the reuse window need not end. `RemindersFairness`: the loop of `reminders.py`
survives a failing tick and runs again. Attachments, recurrence, the tree and the
phone are checked for safety only, without fairness.

## 4. What is proved

Every theorem is proved for all sets of users, ids, requests and tables and for
any bounds, from the named assumptions on the constants. Each proof strengthens
the property to an inductive invariant, and where a module has many actions it
first classifies the steps, so that the invariant is checked against a few kinds
of step and not against every action again.

`SyncServerProofs`, under `ServerConstants`:

* `TypeCorrect`: `Spec => []TypeOK`. Not inductive alone: `rows[Resolve(ref)]`
  is read only when the row is live, and member rows must hold roles for
  `MayWrite` to mean anything. The strengthening `Typed` adds that a request
  between the log check and its transaction stands at one of its commands
  (`AtTheLock`), and what member rows look like (`MemberRows`).
* `CommandsOnce`: `Spec => []ExactlyOnce`. The invariant `LogKept` ties the
  history to the log: while the workspace exists, every command in the history
  is in `synced`, so the check under the lock sees it; afterwards nothing
  commits.
* `OkStandsForever`: `Spec => []OkIsFinal`. On top of that: every logged command
  is in the history and, for an add, its temp id is bound to the object of that
  change (`LogFounded`), and bindings are never replaced, since an add commits
  once.
* `DeliveredAtLeastOnce`: `Spec => []NeverZeroTimes`. While the workspace exists,
  version v of it was made by `ledger[v]`, and the row that change touched still
  exists with a version of at least v. So a row in the window of a
  reply is either read by it or has meanwhile moved above the reply's token,
  where the next request finds it.
* `EndpointImplements`: `Spec => ImplementsWorkspace`, the refinement of
  `SharedWorkspace`. A command that commits inside a request is `Do` of the
  abstract workspace at that moment; every other step of a request hides.

`SyncClientProofs`, under `ServerConstants` and `ClientConstants`, for any number
of faults and any size of a batch:

* `DeviceTypes`: `ClientSpec => []ClientTypeOK`. The invariant `Base` adds to the
  types what an answer may contain (`Answers`: a verdict is about a command of the
  request, a success is committed), which request belongs to the job in the lane
  (`OurRequest`), and that nobody but the user makes commands (`OnlyMade`).
* `NothingSavedIsLost`: `ClientSpec => []SavedNotLost`, assuming `~ActsEarly`
  (with it the property is false: run `client_acts_early`). `Careful` follows a
  saved change through the queue in memory, the writes under way and the disk:
  taken in the order in which they settle, each of these leaves out only commands
  that the server has decided or a purge has counted (`Orderly`), so a kill
  between any two writes finds the command, or its fate, in what has settled.
* `NoLossUntold`: `ClientSpec => []LossIsKnown`, assuming none of `ActsEarly`,
  `CachedBoot` and `WritesFail`. `CachedBoot` breaks it (section 5, "A loss
  reported as zero"). With `WritesFail` and three faults a refused command, of which the user was
  told when it was refused, can be left on disk by a failed queue write and be
  thrown away there by a purge that counts the queue in memory: nothing
  is lost unheard, but the set `discarded` outgrows the notice. `Told` follows
  the count from memory to the notice, from the notice to a start's purge
  (`ToldWhenPurging`), and from there to the user; between two removals of that
  purge a kill moves what the disk no longer shows into `swallowed`, and nothing else does.
* `RefusalsHeal`: `ClientSpec => []RefusalRecoverable`, assuming `~ActsEarly`; failing
  writes and starts from the cache are allowed. `Heals` follows what a refused
  command drew. While the device works, either the flag is on disk and no write
  under way takes it off, or every replica, the one shown and those written or
  about to be, spares the refused commands that were saved and are no longer
  queued (`Healing`). A step from the one case to the other is where the order
  of the code matters (`FlagFirst`): a batch with refusals leaves the queue only
  when the flag has settled, and the flag comes off only when the replica that a
  full reply replaced, which shows nothing but rows of the server and queued
  commands (`DrawnReply`), has settled too. A purge takes the flag and the queue
  off the disk only behind the replica (`Empties`), and `Grounded` says that the
  server's rows hold only what took effect. A command's uuid is no role, or a
  member's row could look like a refused edit.
* `TempsNotStranded`: `ClientSpec => []NoStrandedTemp`, assuming none of `ActsEarly`,
  `KillAnywhere` and `WritesFail`; a kill between the queue's write and the
  replica's does strand a temp entry (section 5), so the theorem is about kills
  that fall between two replies. Such a kill must lose nothing, and that is not obvious, for a reply
  is stored key by key: `Writing` says, by the lane's step, which keys are on
  their way to what the memory holds, and that those of a purge are on their way to
  nothing. `Seen` draws the consequence: what the device shows, or will show at
  its next start, changes only by an edit, a reply, or a purge. With that, `Tidy`
  needs the steps of the lane and no kills: the screen's temp entries are those of
  queued adds, or of refused ones while the flag is up (`TempsCovered`). An answered batch
  leaves the queue as a whole, since a done request has a verdict for every command
  of it: the ok ones are mapped, and the reply drops them; the others were noted and
  flagged before the reply was folded in (`Flagged`); and the flag comes down only
  behind a full reply (`Refilled`). A pull maps nothing, having asked nothing
  (`Asked`, `PullsAsk`).

A queue is rewritten by folds (`FoldLeft` over its commands). The library's
induction rule cannot be instantiated here, so `Induction` and `Least` derive
induction for a set of numbers from the well-foundedness of `<`, and
`FoldExists`, `FoldSteps` and `FoldKeeps` the facts about folds from that.
`TaskTreeProofs` does the same for the queue that is applied to a full reply.

`TaskTreeProofs`, under `TreeConstants` (the kinds of ids are disjoint, `Seed` is
a tree) and `ReplicaConstants` (the token `*` is no number, no command is `None` and no
answer `NoReply`):

* `TreeTyped`: `TreeSpec => []TreeTypeOK`.
* `ForestStands`: `TreeSpec => []Forest`. `IsTree` is inductive together with the
  types, and none of its four parts is so alone: a deleted project spares no
  subtask and no section *because* a subtask's container is its parent's and a
  section's project is its task's. There is one lemma per kind of handler, and
  the deletes share one (`DeletedTogether`): rows may be deleted together if
  everything live that hangs on them goes with them. `MoveFits` and
  `TaskAddTree` show that what the checks let through fits where it ends up.

* `TasksHeal`: `ReplicaSpec => []TasksHealed`, of the device beside the tree, with
  `ReplicaTyped` for its types. The variables alone say too little, for a screen
  may differ from the rows in any way a queue of edits can bring about.
  `ReplicaInv` therefore speaks of two trees nobody holds: `b`, the server's rows
  when the device's token was current, and `a`, the rows the answer on its way was
  read from (`Healing`). Wherever the screen differs from `b`, some queued edit is
  one that changes that row (`Explained`, with `Hit` for the rows an edit changes
  on either side), or the flag for a full sync is up. Each of the client's handlers
  keeps that (`ApplyExplained`): a row its cascade reaches is one the server's
  would, or one an earlier edit accounts for. And the server stamps every row
  that an edit it accepts changes here *or* there (`HandleEvolves`), the property
  the two sets of handlers owe each other: so the delta of an accepted edit brings all
  its rows (`Carries`), what it leaves is accounted for by the rest of the queue
  (`PatchedExplained`), and `a` takes the place of `b`. With the queue empty nothing
  accounts for a difference.
* `AddsLand`: `ReplicaSpec => AddLands`. `Rooted` says that every project and
  section a queued add names, or the screen offers, is known to the server or
  added further ahead in the queue, a section in that project; an answer, a
  delta, or a queue applied again to a full reply keep it.

`AccountsProofs`:

* `RulesHold`: `GovSpec => []GovInv /\ NobodyLosesTheLast`, of the abstract
  specification; the inductive invariant `GovInv` is types, `AlwaysAnOwner`, and
  that an open invite is to a live workspace (`InvitesLive`).
* `AccountsSerial`: `AccountsSpec => Serial`, the refinement. `AccountsInv` says
  what the locks buy: a request past `LockSpace` holds its workspace, and what it
  was allowed there is still allowed (`Judged`), because only the holder of the
  lock changes that workspace; whoever a settled request leaves with nothing is
  locked by it and gets a workspace of its own at the commit (`Taken`,
  `Provided`), because only the holder of an account's lock takes something from it.
* `AccountsOwned` and `NobodyStranded` carry `AlwaysAnOwner` and
  `NobodyLosesTheLast` over to the concurrent requests; `AccountsTypeCorrect`
  includes that no lock has two holders.
* `RescuedOnce`: `AccountsSpec => []OneDefault`. A request counts under the
  account's lock, so the second one finds what the first made (`Housed`).

`SessionsProofs`: `NoSecondToken`, `NoWayBack`, `SessionsTypeCorrect`. The
invariant adds to the three properties that a family which is over has tokens at
all (`OverWasThere`), so that a later login cannot be taken for it. Steps are
those that keep the table of tokens, burn a family, rotate one token or log in.

`HonestIsSpared`: `SessionsSpec => []HonestStaysIn`. A session is burned when a
token arrives that was rotated longer ago than the window. `HonestInv` says why
an honest browser sends none: whoever may still use a token is known (a request
on its way, a tab that holds it, the storage), every request has a tab that waits
for it or is a stray of a refresh that was given up, a token and its successor
are never under way together unless the family is excused, and the stored token
is the live one unless a tab is just replacing it. The attempt to prove this
without the last exception failed for a good reason, see section 5.

`AttachmentsProofs`: `BytesKept`, `TaskStillThere`, `LeavesNothing`,
`AttachmentsTypeCorrect`. `FileOfUpload` ties the file to how far its upload is,
`Removals` says that only files whose row is gone are to be removed, and `Tidy`
that without a mishap a file belongs to an upload under way, a live row, or a
removal that is due.

`RemindersProofs`: `NotSwallowed`, `RemindersTypeCorrect`. `TickHonest` says of a
row the tick has stamped that its arming is the one that was sent, or that the
race of section 5 hit it; `ArmsCounted` keeps armings apart. `OnceEach`:
`RemindersSpec => []UsedOnce`, by counting: for every use of an arming that can
still be used there was a tick that failed (`UsesCounted`), and ticks fail at
most `MaxSlips` times and once for each task that vanished (`SlipsCounted`).

`PhoneProofs`: `LogoutLeavesNothing` (`PhoneSpec => []LogoutIsClean`) and
`PhoneTypeCorrect`. `LogoutIsClean` speaks of the moment after a logout; the
invariant `PhoneInv` follows the logout from its beginning: once it has begun no
client works and nothing that still asks is fresh, after its purge disk and
tokens are empty, and once it has ended the screen offers only the login. The
lemmas follow the ways a flow may take its answer (`AfterCases`): with a
fresh epoch, which a logout has made impossible, or with a stale one, which
leaves everything that matters as it is (`StaleAfter`, `Harmless`).

`NothingOfOthers` (`PhoneSpec => []NothingForeign`, the part of `OneAccount` about
data and clients, offline starts included) rests on `Kin`: data and clients belong
to the account of the cached session; a flow between the closing of the clients
and its purge finds all of them closed, and one about to open finds the cache empty
or its own. Most steps are `Tame`: they only take away. `AccountIsOne` and
`ScreenIsOfItsClient` prove `OneAccountUnlessAstray` and `ScreenIsServedUnlessAstray`
of every behaviour: the three steps noted in `astray` are exceptions in the
properties and no hypotheses. `Tok`
says that a flow which could still open a session asked with the tokens the api
client holds today, so that the account it opens is theirs. `ScreenInv` says that while
no logout or expiry runs, the client in use runs for the store's workspace and
account, or a landing for that workspace has yet to take its answer.

Only model-checked:

* `TokenIsHonest`. Even without kills in the middle of a job
  it holds only of behaviours in which no command that took effect is still queued
  when a recovery pull is answered: `client_overlaid` shows one that breaks
  it, an attempt at the proof is what found it.
* `DeviceTypeOK`: its parts are `ReplicaTyped` and `PhoneTypeCorrect`.
* `NextIsNext` and `ReminderFollows`: their dates come out of arithmetic with `%` and
  of searches over a calendar, induction over data that is out of reach here.
* `Converges`, `RequestsEnd`, `TabsAgree` and `NoneWaitsForever`: liveness.

## 5. Disagreements found

Each of the first seven has a run that ends in a counterexample.

1. **An edit drawn over a later one** (`LastWriteWins`, `client.ts:643`). A full
   reply is drawn over with whatever is queued, as "what I have not sent yet". But
   what is queued may have been sent. An edit was refused, so the device is to ask
   for everything; the answer to its next edit is lost; another device edits the
   same object; and the recovery pull comes back with that later edit and a token
   above it. The device draws its own edit over it, sends it again, is told ok from
   the log with an empty delta, and shows the overwritten edit until something else
   asks for a full sync. `TokenIsHonest` and `Converges` fail on the same behaviour;
   they hold in `client_converges` because its other device makes one command
   only. No kill and no failing write is needed.
2. **The stored token can run ahead of the stored replica** (`TokenIsHonest`,
   `client.ts:782-783`, `858-859`). A kill between the two writes leaves a device
   that never asks for the difference; only another full sync would show it. The
   same window, between the queue's write (781) and the replica's, strands a temp
   entry: the acknowledged add stays under its temp id beside the real object,
   and no later reply maps it (check `NoStrandedTemp` with
   `client_token_ahead.cfg` to see it).
3. **Comments that do not come back** (`NotesHealed`, `apply.ts:105-116`,
   `310-321`). A teammate moves a task out of a project, or makes a subtask a task
   of its own; a device that has not heard of it deletes the project, or the
   parent. The device's cascade marks the task with its comments and attachments
   deleted, the server's spares them. The reply brings the task back, because the
   move stamped it; its comments and attachments were stamped by nobody and stay
   hidden on that device until something asks for a full sync. Nothing is lost at
   the server.
4. **A session that comes back after a logout** (`LogoutIsFinal`,
   `api-client/src/index.ts:488`, web `boot.ts:93-109`). A tab that follows
   another tab's logout drops its tokens without a new session generation; the
   answer of a refresh it had under way passes the check of the generation and is
   stored after the purge. A page opened meanwhile boots signed in, until the
   server refuses the token. The opposite race has the same cause: such a refresh
   that is *refused* clears the storage, tokens of a newer login included.
5. **Another account's data on the phone** (`OneAccount`, mobile `boot.ts:625`
   against `103-104` and `kv.ts:49-51`). Only `establishSession` compares the
   cached session with the tokens. Ann's session expires, Bob logs in, the app is
   killed before Ann's data is wiped, and the next start is offline: the phone
   shows Ann's workspace, and sends Ann's queue with Bob's tokens when the network is
   back.
6. **An edit made while a start reads** (`SavedNotLost`, `client.ts:556`).
   `hydrate` marks itself done before its reads return, and neither `mutate` nor
   `sync` waits for them. An edit made meanwhile goes onto an empty queue and is
   written over the stored one; then the answer replaces the queue in memory by
   the old one. A kill before the next flush loses the commands of the last
   session; without one it is the new edit that is never sent, though its queue
   write had settled. The contract (`CONTRACT.md:505-506`) calls the queue durable.
   The window is short, from the first paint to the answer of the storage. In the
   same window a pull (focus, tick) may store a new token that the answer then
   takes back in memory together with the replica.

7. **A loss that is never told** (`LossIsTold`, `client.ts:138-161` with mobile
   `boot.ts:188-194`). When the app starts after its workspace was lost, the purge
   counts the queue, removes it with everything else, and only then is the alert
   shown. It writes no notice of its own. A kill in between, after the queue's
   removal, leaves an empty disk: the next start counts nothing. `client.ts:120` says the
   notice is there "so a kill mid-purge cannot swallow the notice", and 170 that
   "a boot after a kill still finds what was lost"; the purge of a running client
   keeps both promises, this one only until its queue is gone. What was lost this way is
   the `swallowed` of `LossIsKnown`.

Found while modelling, without a run:

* **A reply is not one coherent moment** (`engine.py:96`). The filter
  `version <= upper` looks at a row's *current* version: an object that existed when
  the counter was read and is changed before its table is read is in a full reply in
  neither form, and a client that replaces its replica shows it missing until the
  next sync. `CONTRACT.md:393` and `engine.py:79-80` promise one moment. Nothing is
  lost for good: `NeverZeroTimes` holds. `OneMoment` in the place of `NeverZeroTimes`
  in `server_requests.cfg` shows it.
* **A loss reported as zero** (`client.ts:733-736` with the cached start of
  mobile `boot.ts:623-635`). A purge cut short after the queue was removed leaves
  the notice; an offline start runs the client again, whose next 403 overwrites
  the notice with the count of an empty queue. `LossIsKnown` with `CachedBoot = TRUE`
  in `client_loss.cfg` shows it; the loss part of `client_faults` starts online.
* **The race of the reminder tick** (`reminders.py:74`). The tick decides what to
  stamp from rows it read before it sent. A task whose reminder is set to a new
  time after that read and before its stamp gets the new time marked as sent,
  and the new reminder never comes. `Reminders` takes this step and keeps these armings
  in `overrun`. `NoneSwallowed` excuses them, and `UsedOnce` counts uses and not their
  absence, so neither fails on this race: they show that it is the only way a reminder
  is swallowed. A tick that fails at a row
  which has vanished rolls back the stamps of the others, which are then sent
  again (`UsedOnce` allows that much).
* **A refresh that changes accounts while it waits** (`api-client/src/index.ts:43-52`
  against `441-444` and web `boot.ts:93-109`). The comment accepts that a slow first
  attempt may reach the server more than 60 s after its token was rotated, and
  says that nothing else retries within the window. A tab that queues for the
  refresh lock reads the token when it gets the lock. If another tab has meanwhile
  logged in, that token is the other login's and can be seconds old, the product of
  a retry whose first attempt is still on its way. The queued tab rotates it at
  once, inside the window, and the stray attempt then arrives with a token
  two rotations old: the server burns the new session. It takes four tokens, a lost
  answer and a login during the wait. `AskServer` excuses a family that
  meets this, and without that excuse `HonestStaysIn` fails with `MaxTokens = 4`.
* **A switch tapped while a session expires** (mobile `boot.ts:543-556` against
  `649-659`, `api-client/src/index.ts:549-553`). `expireSession` bumps the epoch and
  drops the tokens first; the store still shows Ann's session until the awaited
  `api.logout()` has cleared the secure store. A switch tapped in between passes
  (`switchWorkspace` asks for `endingSession` only), captures the *new* epoch, and
  its `/me` goes out without a token. If Ann logs in again before the 401 arrives,
  `authedRaw` refreshes and repeats the request with her new tokens. Should her
  login then find no network and Bob log in on the same phone, his tokens are the ones in
  use (a login bumps no epoch) when the late answer opens Ann's session beside them.
  `boot.ts:57-58` says that "a loop of an older session never blocks or outlives into a
  newer one"; this request does. `OneAccount` and `ScreenIsServed` fail on it with `MaxTaps = 4` and
  `MaxTroubles = 2`; put them in the place of the two properties with exceptions in
  `device.cfg` to see it. This switch is the `"switch"` of `astray`.
* **A login under way while a logout ends** (mobile `boot.ts:672-704`,
  `onboarding.tsx:192-203`). An expiry waits for its request, a logout is tapped and waits
  for the clients to stop, and the expiry's `reset()` brings up the login. A login
  made now stores its tokens and captures the logout's epoch; the logout then purges the
  tokens and everything else, and ends. The login's `/me`, answered meanwhile, opens
  its session on a phone without tokens, whose requests are all refused; a workspace it loses
  stays on the screen, since the landing has nobody to ask for. This is the `"login"` of
  `astray`: `ScreenIsServed` fails on it, `OneAccount` did not in any bounds tried.
* **A subtask goes with its refused parent** (`commands.py` `task_add`). The proof of
  `AddLands` did not go through as it first read, that an add is refused only when
  its parent has become a subtask: the parent may be an add in the same queue that
  was itself refused. The contract names this as a known limitation
  (`CONTRACT.md:490-493`); the property now says it too.
* **Month ends drift over completions.** `CONTRACT.md:193-195` and
  `recurrence.py:87-88` promise Jan 31 → Feb 28 → Mar 31. That holds inside one
  computation; but a completion stores the clamped date as the task's date
  (`roll_forward`), which is the anchor of the next: Jan 31 → Feb 28 → Mar 28.
  `NextIsNext` therefore speaks of the series from the date the task has.
* **The phone, late steps of a flow.** `expireSession` ends with `reset()` after
  an awaited logout (`boot.ts:654-658`) and throws out a login made while it
  hung; `landOutside`'s fallback over the survivors (`491-498`) lacks the check
  for a session that `fallBackToKnownWorkspace` documents; a stopped client
  may send its next batch, or repeat one after a 401, with the next user's tokens
  until `establishSession` closes it; the list of known workspaces can be written
  after a logout's purge; the purge at the end of a move deletes the
  data of a workspace that came back meanwhile. The first is in the
  model (`Reset` beside `Login`) and breaks none of its properties; the others are
  below its grain.

## 6. How to run

    tlc -workers 2 -config server_requests.cfg MCEndpoint
    tlc -workers 2 -config client_faults.cfg MCFaults
    tlc -workers 2 -config client_overlaid.cfg MCRecovery
    tlc -workers 2 -config services.cfg MCServices
    tlc -workers 2 -config device.cfg MCDevice
    tlc -workers 2 -config session_revived.cfg MCSessions
    tlc -workers 2 -config phone_wrong_account.cfg MCPhone
    tlc -workers 2 -config tree_notes.cfg MCTree
    for m in SyncServer SyncClient TaskTree Accounts Sessions Attachments Reminders Phone
    do tlapm ${m}Proofs.tla; done

The violation runs end with a counterexample; the others with no error.
`PROJECT.json` lists, for each property, a mutation of one mapped definition
under which it fails, and for each definition the lines it models.

## 7. Plan

Done: the endpoint and its abstract specification, the sync client, the task
tree at the server and on a device, memberships with their abstract
specification, sessions, attachments, reminders, recurrence, the phone's
sessions, and the theorems of section 4. Next, in this order:

1. The rest of **`TaskTree`**: labels (names unique, a deleted label leaves every
   task), `task_reorder` with its skipped items, who may edit a comment.
2. **The web app's start**, switch and landing, as `PhoneSession` has the phone's.
3. Two clients over one storage
   (the web app without Web Locks), and the lease of the api client.
4. Relocation notices.

Theorems still worth proving: `TokenIsHonest` of behaviours without the recovery
of section 5.1.

## 8. Not modelled, and why

* The quick-add parser, the domain library, formatting and the views:
  character-level or pure UI.
* Notifications and channels: best effort after the commit, they never change
  synced state. The phone's local scheduler of reminders: it only mirrors the
  snapshot into the system's notifications (a reconcile under way when a logout
  cancels them goes on scheduling; nothing of the session depends on it).
* Rate limits: counters in one process behind one lock.
* MCP: a second caller of `process_commands`; the same model covers its effect.
* Configuration, migrations, URL guard: no state the protocol depends on.
* What is left out inside a modelled part is listed under Abstractions.
