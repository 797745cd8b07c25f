# Launch++ in TLA+

This directory holds a TLA+ model of Launch++, the self-hosted, single-node
project tracker in this repository: modules that are checked with TLC, and
proofs that are checked with TLAPS. Paths below are relative to the repository's
root, as in `packages/core/src/tasks/task-service.ts`; `PROJECT.json` names, for
every definition that models code, the lines it was translated from.

1. [The system](#1-the-system): components, their state and operations, how they
   interact, and what is hard about them
2. [The modules](#2-the-modules) and the code they stand for
3. [The runs](#3-the-runs), their bounds and what they show
4. [Fairness](#4-fairness)
5. [What is proved](#5-what-is-proved), and what is only model-checked
6. [Disagreements found](#6-disagreements-found)
7. [What is not modelled](#7-what-is-not-modelled), and the plan

To repeat a run: `tlc -config Lock.cfg MCServerLifecycle`. To repeat the proofs
of a module: `tlapm ServerLifecycleProofs.tla`.

## 1. The system

One Node.js process (`apps/server`) serves an HTTP API and a web client from one
SQLite database in WAL mode, reached through one writing connection. Around it
are command-line programs (migrate, backup, restore), the browsers, and a plugin
platform: packages, a capability broker, isolated handlers and a developer mode.

| component | state | operations | correct when |
|---|---|---|---|
| **Task board** (`core/src/tasks`, `core/src/projects`, task and project repositories) | rows of tasks, columns and the project: position, number, parent, lifecycle, revision | create, update, move, archive, restore a task; create, rename, delete, reorder columns; archive, restore, delete the project; each with an expected revision | order and numbering are sound after any history of commands; a task never changes under an unchanged revision; valid commands are not refused; each change is announced |
| **SQLite access** (`sqlite-database.ts`) | one connection, a queue of writes | `read`, `write` (immediate transaction, synchronous callback), `close` | transactions are serial and all or nothing |
| **Installation lock** (`installation-lock.ts`) | a lock file with owner token, pid and creation time | acquire, recover a stale lock, release | one writer; a dead owner's lock is recovered; a live one's is not |
| **Idempotent commands** (`http-contract.ts`, `idempotency-repository.ts`) | a record per user, operation and key, kept 24 hours | reserve, execute, complete, abandon, expire | one effect per key; true answers |
| **Outbox and dispatcher** (`outbox-repository.ts`, `outbox-dispatcher.ts`) | an outbox row per fact: availability, lease, completion | append, lease, project and complete, retry, start, stop | each fact is recorded once and none is lost |
| **Event log, activity, search** (`projection-repository.ts`) | `invalidation_events`, `activity_entries`, `search_documents` | project a fact, list events, rebuild the search index | the log is append-only, the index equals the current tables |
| **Event streams** (`invalidation-hub.ts`, `event-routes.ts`) | subscribers; a cursor per stream | subscribe and replay, publish, close | a resumed stream neither skips nor repeats |
| **Invalidation in the browser** (`apps/web/src/invalidation.tsx`) | the stored cursor, the query cache | handle an event, refetch | a browser ends up showing what is stored |
| **Server life cycle** (`application-server.ts`, `lifecycle.ts`, `readiness.ts`) | what has been opened, whether it is draining | start, drain, shut down in 10 s | resources are released in order, the lock last |
| **Local operations** (`local-operations.ts`) | the database file, its -wal and -shm, backups and manifests | backup, restore, migrate | a crash anywhere leaves a database or its backup |
| **First owner, organization registration** (`setup-routes.ts`, `register-organization-owner.ts`, `organization-registration-repository.ts`) | the setup link, the claims of browsers, two flags; accounts, organizations, a command row per key | claim, sign-up, transaction; reserve, provision, commit, discard, abandon | one installation; no owner loses its account; every account or pending row that is left over has a reason |
| **Task panel** (`apps/web/src/task-detail.tsx`) | the task shown, the draft, requests in flight | load, edit, save as a chain of requests, upload, turn to another task | it ends up showing the server's task; a save that closes has stored each field of its draft and overwrites nothing unseen |
| **Board in the browser** (`apps/web/src/project-tasks.tsx`) | a list of tasks, a layout, a card in the air, a move in progress | load, drag, drop, move from the menu, create, delete, take the panel's answers, roll back | it settles on the server's list; a move moves what its user saw; it ends |
| **Developer mode** (`developer-mode.ts`, `connected-dev.ts`) | pairings, handoffs, sessions in memory with expiry; a watched manifest on the author's disk | pair, approve, poll, register a manifest, approve permissions, revoke, switch off | one session per plugin; it serves only what was granted; it follows the file |
| **Capability broker** (`capability-broker.ts`, `capability-broker-routes.ts`) | calls in flight, deadlines, abort signals | admit, authorise, run, cancel, time out, answer | nothing starts for a session that is over |
| **Transport, isolated runtime, plugin packages, registry, tool chain** | requests and workers; stored packages; CLI state files | – | see section 7 |
| **Identity, routes, other pages, component library** | sessions of an external library; none; view state | – | adapters and presentation |

How they interact:

    browser --HTTP--> executeIdempotent --> command (one SQLite transaction)
       ^                 Idempotency          TaskBoard | appends a fact
       |                                                v
       +-- refetch <- events <- hub <- dispatcher <- outbox_messages
                  EventDelivery (implements EventLog)

    task panel, board --commands, loads--> the same services   TaskDrawer, BoardClient
       ^---------- invalidation events ----'

    setup, registration --sign-up--> identity adapter, then one transaction
       '-- discard by hand when it fails                       OwnerAccounts

    command line --pair, manifest--> developer mode <--grants-- capability broker
                  DeveloperMode                      PluginCalls

    server, migrate, restore --acquire--> InstallationLock --> the database
    server: start, work, stop                            ServerLifecycle
    backup (without the lock) ------------reads------------>   LocalOperations

Commands are synchronous inside `SqliteDatabase.write`, so two commands never
interleave; what interleaves is everything *around* the transactions: the three
transactions of an idempotent request, the drain's transactions and its
publication, streams that start between the two, file operations of several
processes, sagas over the identity library's connection and the database, callbacks
of a browser between its requests and their answers, and crashes between any of
them. The commands themselves are hard for
another reason: the ordering indexes are checked row by row, so whether a command
succeeds depends on the whole history of positions. The list of hazards, each at
its line, is in `PROJECT.json`.

## 2. The modules

| module | models | built on |
|---|---|---|
| `TaskBoard` | the board of one project: commands of `TaskService` on tasks, commands of `ProjectCatalogService` on columns and the project's life cycle, and the UNIQUE indexes | – |
| `InstallationLock` | `acquireInstallationLock` and `release` of concurrent processes, one step per file operation | – |
| `ServerLifecycle` | servers from the lock to its release: start, work, stop, failing closes | extends `InstallationLock` |
| `Idempotency` | `executeIdempotent` and its record, for the requests that carry one key | – |
| `LocalOperations` | backups and restores beside a server that starts, commits and stops; the database, its -wal file and the backups on disk | – |
| `EventLog` | abstract: what the outbox promises of committed facts | – |
| `EventDelivery` | outbox, dispatcher, hub, streams and browsers composed | implements `EventLog` |
| `OwnerAccounts` | setup of the first owner and registration of organizations, one step per `await`, with restarts | – |
| `TaskDrawer` | the task panel of a browser beside a server that others use | – |
| `BoardClient` | the board of a browser beside a server that others use | – |
| `DeveloperMode` | pairings, development sessions and the command lines that hold them | – |
| `PluginCalls` | calls through the capability broker, composed with the sessions that grant them | extends `DeveloperMode` |
| `MC...` | instances for TLC: nodes, rows and their constants | the module they name |
| `...Proofs` | theorems and proofs about the module they name; `TaskBoardProofs` also about `Idempotency`, in which the board's commands run, `ServerLifecycleProofs` about `InstallationLock`, `PluginCallsProofs` about `DeveloperMode` | TLAPS |

**TaskBoard.** `task`, `status` and `project` are the rows. A command is one
action, because `write` runs its callback in one immediate transaction; failed
validation (a wrong revision, an unknown column) changes nothing and is a guard. A
validated command that a UNIQUE index refuses is rolled back, which is visible:
`aborted` holds the command's name. This matters in `MoveTask` and
`ReorderStatuses`: both first shift all positions by an offset and then write the
final ones, and SQLite checks the index at every row of the shift, in an order it
chooses. `ShiftCollides` says whether some order collides, and then both outcomes
are possible. `recorded` says whether the transaction appended a fact. Members,
assignees, labels and texts are reduced to one value `text` per task.

**InstallationLock.** An *instance* is one run of a program; it creates at most
one file, so the instance stands for the owner token too. Every `await` of the
function is a step: `Open` (`wx`), `WriteRecord`, `ReadRecord`, `CheckOwner`,
`RereadRecord`, `UnlinkStale`, and for release `CloseHandle`, `ReadOwnRecord`,
`RemoveOwn`. `unlink` removes whatever is at the path by then. File operations fail
where the code goes on afterwards: `open` with something other than EEXIST
(`OpenFails`) and a write of the record (`WriteFails`) are thrown, a handle that cannot be
closed makes the release throw before it removes anything (`CloseHandle`), and
the three unlinks swallow their failure and leave the file (`Unlinked`). A record's
process may look running although it is dead, because another program has its id
(`ForeignPid`) or because it has the reader's own id and the file was created within a
second of the reader's start (`hasty`, settled at its `Launch`). An instance crashes at
any step. `raced` is a history variable: a lock was created while a recovery stood
between its second read of the record and its unlink.

**ServerLifecycle.** `phase` is how far a server has come, from `buildApplicationServer` with
its catch block (`OpenDatabase` to `Listen`) over `serving` to the stop (`PreClose`,
`Drained`, `CloseIdentity`, `CloseDatabase`, `CallRelease`). A server is followed with
one request, or event stream, and one drain at a time; each writes through the queue of
`SqliteDatabase` (`Write` accepts, `WriteRuns` is the transaction, `WriteRefused` the
rejection once `close()` was called). The end of the grace period, or a second signal,
cuts connections (`CutConnections`), after which the handler behind one goes on
without it. That Fastify runs the preClose hooks, then waits for its connections, then
runs the onClose hooks is taken from its documentation. `lost` is a history variable.
The rest of the lock's steps are those of `InstallationLock`; instances outside `Server`
are the other programs.

**Idempotency.** The requests that carry one key in one scope: reservation,
command, completion and abandonment are separate transactions, as in the code.
`Complete` and `Abandon` look for a pending record *with the same hash*, not for
the one this request reserved, and so do the model's. `Crash` ends every
request in flight; the record stays. `Expire` ends a record's 24 hours at any
moment, also while its command executes.

**LocalOperations.** A file is known by the *state* of the database in it, the number
of its last commit; `main` and `wal` are what lies at the database's path and beside
it, `store` the backups with the state their manifest has sums of. Each file
operation of `createInstallationBackup` and `restoreInstallationBackup` is a step
(`Begin` to `PublishManifest`, `VerifySource` to `Release`); a restore runs the
backup's steps for its recovery backup. Any step may fail, where the code's
`catch` and `finally` follow (`Discard`, `ReplaceFails`, `Release`; the lock is kept
when the temporary file cannot be removed before it), and a process
crashes between any two. The server opens, commits and closes; `migrate` is a server
without a commit. Of SQLite, taken from how the code uses it: the -wal file is written
into the database by the last connection to close and removed, stays after a crash,
and is replayed into whatever database it lies beside: if that is another one, it
is `Torn`. Checkpoints in between change nothing that `Opened` tells, and are left out.
Three assumptions: verification finds a torn database; two operations never have one
backup path (`PathsAssumption`; default paths carry a time stamp); of three removals
begun together, those in flight when one fails end before the lock is taken again.
`current` is what a user would find, `replaced` what restores and starts put
aside. The lock is taken in one step; `InstallationLock` has its steps.

**EventDelivery.** `row[f]` is the state of a fact's outbox row: `available`,
`waiting` for a retry, `leased`, `overdue` (its lease has run out) or `processed`.
A drain leases up to `Limit` rows, handles them one by one (`Project` is the one
transaction of projection and completion), and publishes each after its
transaction. The server's first drain is awaited before it listens (`starting`,
`catching_up`, `serving`). `log` is `invalidation_events`; its indices are the
sequence numbers. A stream's `Connect` subscribes and replays in one step, because
the handler does not yield from the first read of the log on; `inbox` holds
what was written and not yet handled. A push is lost to a stream whose read of the
membership throws (`dropped`); the stream stays open. `Crash` drops streams and the batch; rows
and log stay. Lease owners are left out: only one server runs (that is what the
lock is for), and it only ever completes what it has leased.

**EventLog** is what `EventDelivery` is measured by: facts are committed, each
fact of an organization is recorded once, later, and for good. The refinement
maps `committed` to the facts whose row exists and `log` to the event log.

**OwnerAccounts.** The database (`accounts`, `installations`, `organizations`,
`commands`), the memory of the setup coordinator (`initialized`, `setupInProgress`,
the printed link `token`, `claims`, `expired`) and the place `pc` each request has
reached. A setup is `SetupOwner` (the guards up to the awaited sign-up),
`SetupSignUp`, `SetupInstall` and `SetupAnswer`; a registration is `Reserve`,
`FindUserByEmail`, `CreateProvisionalOwner`, `Commit`, and then `IssueSession`, or
`Discard` and `Abandon`. Every step can fail where the code catches it. `Restart`
loses what is in flight and the coordinator's memory, and computes `initialized`
anew from the database. `CreateProvisionalOwner` may also throw after it has made
the account, which the command then neither knows nor discards (`AbandonedEnd`), and a
setup's sign-up likewise (`half_failed`). The identity adapter is modelled from its own
source as far as its accounts matter: an email address is unique, and an account that owns an
organization cannot be deleted (the foreign key of migration 0009). `CommandExpires`
is the end of a row's 24 hours, at any moment.

**TaskDrawer.** `task` is the server's truth; `detail`, `draft` and `editing` are the
state hooks of `TaskDetailPanel`; `load`, `upload` and `save` are its requests. The
fields are of two kinds: those sent with an expected revision, in the order of the
panel's requests, and those of plugins, which `setExtensionField` writes without one.
`save` is a loop over the fields that differ (`Advance`), each request answered by
`Accepted` or `Refused`; its end awaits a reload (`SaveReloads`). A change by someone
else is followed by an event, except that a neighbour's move revises a task without
an event for it (`NeighbourMoves`). `base`, `newest`, `overtaken`, `save.mixed`,
`save.held` and the `changed` of a task are history variables: what the form was filled
with, how the answer on display got there, which fields the answers of a save showed
with the draft's value, and when the server changed a task last.

**BoardClient.** `tasks`, `layout`, `drag` and `mover` are the state of
`ProjectTaskOrganization`; `load` are its lists under way, among them the one a move
awaits (`Own`). A move starts from a drop or from the card's menu (`MenuMove`). `dialog`
is the request of the editor, of the delete dialog or of the task panel over the board,
one at a time and from the moment the server has accepted it: before, and when it is refused,
it changes nothing here. The panel's answers reach the list through `onTaskChanged` and
`onTaskDeleted` (`PanelHeard`, `DeleteHeard`); `PanelServed` is an upload or a request
of a save, which may be followed by others before the panel reports. A drop moves the
card at once (`OptimisticallyMove`); the answer starts a load that the move awaits, a
refusal restores the snapshot of the drop and starts one too. `LayoutEffect`
recomputes the layout whenever the list changes and no card is in the air, as React
runs the effect. Position arithmetic is that of `moveTask` on the server.

**DeveloperMode** and **PluginCalls.** A run of `launchpp dev --connect` names its
pairing and its session. Time is the moment a record becomes old (`PairingAges`,
`SessionAges`); what the code does with an old record it does when it next looks at it
(`Expire`). `Register` starts an upload of the manifest without awaiting the one
before; `puts` are the uploads under way, which reach the server in any order or get
lost. `PluginCalls` adds `call`: admission by the route (`Invoke`), the grant and the
start of the handler in one step (`Begin`: the broker awaits an authority that reads
synchronously, so that no other request or timer runs in between), the handler's
transaction (`Commit`, `Fail`), and the deadline or cancellation that abandons it (`Abandon`). A restart ends the calls of the old process.

## 3. The runs

| run | module, cfg | distinct states | shows |
|---|---|---|---|
| `task_board` | `MCTaskBoard`, `TaskBoard.cfg` | 993,555 | positions in a scope are unique, columns differ in place and name, a valid move is never refused, a command changes the relative order of one task at most, a visible task changes only with its revision, and an archived project is frozen for its tasks |
| `lock` | `MCServerLifecycle`, `Lock.cfg` | 87,773 | one writer, unless a lock is created under a recovery; with it, no connection without the lock file; neither a stop nor a failing start closes the database under work that was not cut off; a stop ends; a file without a record is removed by its creator only; a dead lock is recovered |
| `lock_race` | `MCServerLifecycle`, `LockRace.cfg` | violation | a disagreement of section 6 |
| `idempotency` | `MCIdempotency`, `Idempotency.cfg` | 16,892 | no second effect without a fault, true answers |
| `event_delivery` | `MCEventDelivery`, `EventDelivery.cfg` | 377,316 | the outbox implements `EventLog`; resumed streams skip and repeat nothing; browsers converge |
| `local_operations` | `MCLocalOperations`, `LocalOperations.cfg` | 1,533,433 | no crash or failing step loses a state, a reported backup stays true, a running server's database is its own, and without crash or fault of a restore whoever gets the lock finds a whole database |
| `owner_accounts` | `MCOwnerAccounts`, `OwnerAccounts.cfg` | 444,428 | one installation; owners keep their accounts; accounts and pending rows left over have a reason; successes are true; one setup at a time, and never a setup locked by one that is over |
| `task_drawer` | `MCTaskDrawer`, `TaskDrawer.cfg` | 2,126,540 | a save that closes the form was told of every field of the draft that the server held it; it overwrites an unseen value of a revised field only if an upload had refreshed the revision under the draft |
| `panel_switch` | `MCTaskDrawer`, `PanelSwitch.cfg` | 2,692,789 | when everything is answered, the panel shows the server's task, or that loading failed; unless an older answer, or one for the task shown before, came last |
| `board_client` | `MCBoardClient`, `BoardClient.cfg` | 458,623 | the list settles on the server's, the panel's writes included; an accepted move takes a card from the column where it was seen; every move ends |
| `connected_development` | `MCPluginCalls`, `PluginCalls.cfg` | 2.7 million | one session per plugin; it serves what was granted; it has the file's manifest unless an upload went astray; no work starts for a session that is over |
| `silent_overwrite` | `MCTaskDrawer`, `SilentOverwrite.cfg` | violation | a disagreement of section 6 |

*Bounds and why they are enough.*

- `TaskBoard.cfg`: three tasks are enough for a parent with two subtasks, or for
  an archived parent whose subtask is shifted by the move of another; two columns
  and two names for moves between columns, for the deletion of one, for an order and for
  names that meet; revisions up to 3 for archive and restore after a move, or for any
  command on a task before and after its project is archived. The owner has
  deleted and renamed the default columns but one: `DefaultColumns` is a constant.
  `TaskSymmetry` is sound: nothing tells task ids apart and the run has no liveness
  property.
- `Lock.cfg`: three instances are the crashed owner, the one that recovers and one
  that comes in between; two of them are servers, the second another program. Requests,
  drains, writes and failures are not bounded. The third has the first one's process id,
  as after a container's restart, and the second one's may belong to a foreign program.
  Recoveries overlap freely. `ExclusiveUnlessRaced`, `ConnectionsUnderLock` and
  `UnreadableKept` end with `raced`, because the exclusion does: `LockRace.cfg` is the same
  instance without the exception, and TLC finds two holders. `DeadLockRecovered` is
  about every instance that starts while no other runs, except beside a process id that
  a foreign program may have, or on its own id within a second.
- `Idempotency.cfg`: a first request, two retries and a misuse of the key; two
  expiries, so that a late completion can meet the record of another attempt; one
  failed completion or abandonment. Crashes are not bounded.
- `EventDelivery.cfg`: four facts for a `Limit` of two, so that a drain
  leaves some for the next; among them one the user may not see and one without
  an organization. Two *troubles* (a transaction that throws, a crash, a lost
  stream or push) in any combination: a failed projection followed by a failed retry, a
  crash between commit and publication followed by another. Runs of leases,
  retries and reconnections are not bounded.
- `LocalOperations.cfg`: a backup before and one after, and two restores, the
  second of which may take back what the first replaced; one commit beyond the state
  in place; two crashes, of the server and of restores, so that a restore
  meets what another left behind; one failing file operation.
- `OwnerAccounts.cfg`: one browser on the server's machine and one with the printed
  link; a registration, its retry and a misuse of its key with the same email
  address, which is also that of one of the setups. `ClaimLimit` is 1 (16 in the code)
  so that a claim is pushed out. Restarts, expiries and failures are not bounded.
- `TaskDrawer.cfg`: two fields with revisions, so that a save has a first request that
  takes effect and a second that does not, and a plugin's field; three changes of
  the server: another person's, an upload and a save. One load at a time; the panel
  stays on its task. `PanelSwitch.cfg` is about overlapping answers instead: two
  loads, an upload and a save in flight, one field, one turn to another task.
- `BoardClient.cfg`: a card and one to be created, two columns, one load besides the
  one a move awaits, two changes of the server, of which each may be the board's, the
  panel's or someone else's. Drags, failures and retries are not bounded.
- `PluginCalls.cfg`: two runs of the command line, three manifests (one and two
  permissions, another plugin), two edits of the file, two uploads of a run under
  way, one restart or switch of the setting, one call. Pairings, approvals,
  revocations and expiries are not bounded.

`CHECK_DEADLOCK FALSE` is given where a system may really come to rest: all
facts recorded and shown, all requests answered, all instances and operations gone, or a
board at its revision bound.

Every property is sensitive to the code: `PROJECT.json` names, for each, a
plausible bug (marked *mutant* or *a bug of* in the modules) with which TLC finds it
violated.

## 4. Fairness

- `ServerLifecycle!FairServers`: a process that runs finishes the acquisition it has
  begun, since the promises of file operations settle; a stop takes its next step (hooks
  are called, the timer fires: `Stopping`, `CallRelease`); each queued write runs, the
  queue being first in, first out; and a drain, which has fifty facts at most, finishes
  (strong fairness, as its writes come and go). Nothing is assumed of requests, which
  may take forever, of clients, launches, crashes or of when a stop is requested.
- `EventDelivery!FairSpec`: the dispatcher's timer fires again after each drain
  (`schedule` runs in `finally`) and a drain goes through its batch (weak
  fairness of `Lease`, of some `Project`, `Publish`, `Retry` and `Serve`);
  clocks advance (`Wake`, `LeaseEnds`); somebody starts the server again (its
  service manager or the operator); and a browser's EventSource reconnects and
  delivers (`retry: 2000`, `Connect`, `Handle`), and its query is fetched while
  the server serves. Nothing is assumed of commits, failures or crashes; that
  troubles end is the bound, without which no system could promise progress.

- `BoardClient`: weak fairness of `MoveProgress`, the steps of a move in progress. A
  request that was sent is answered or fails, and the browser runs the callback; `fetch`
  rejects when its connection is lost. Failing is one of the steps, so nothing is
  assumed of the server. Nothing is assumed of drags, events or other people.

The other runs use `Spec`, without fairness.

## 5. What is proved

The proofs hold for every value of the constants that satisfies the named
assumptions: any number of tasks, columns, processes, requests, facts,
browsers, plugins and calls, and any bounds.

**TaskBoardProofs.** `IInv` joins the type invariant with `PositionsUnique`,
`NumbersUnique`, `ColumnsUnique`, `ColumnKept` and `MovesCommit`. Types and `PositionsUnique` carry the others: without distinct
positions there are no ranks, and a move may be refused. That a move commits rests on two
facts: the rows of a scope have distinct positions, and `MoveOffset` exceeds
their maximum (`MoveShiftClears`). That positions stay distinct after a move rests on
`ReorderedDense`: the new places of the listed rows are an injection into
`0 .. n - 1`, shown by counting the rows before each (`RankMonotone`,
`RankBound`), and the hidden rows lie past them. `GreatestExists`, that a
finite set of naturals has a greatest element, is shown with a minimal
counterexample in the well-founded order of its subsets (`WFMin`). From the invariant follow the
action properties `FrozenProject`, `RevisedTogether` and `MovesKeepOrder`: only
the named task of a move can change places relative to others. Assumptions:
`IdsAssumption`, `DefaultsAssumption`, `BoundAssumption`.
The last part of the module is about `Idempotency`: `OneAtATime`, `OnceUnlessFault`,
`AnswersTrue` and `CompletionKept`. The invariant `KeyInv` adds that whoever is in flight
holds the pending record (`InFlightHolds`), that once there is an effect no other request
can come between the record and its completion (`EffectIsGuarded`), and that a
completed record is true (`RecordIsTrue`). Assumptions: `AttemptsAssumption`,
`BoundsAssumption`.

**ServerLifecycleProofs.** First the lock: `OwnerIsVisible`, `ExclusiveUnlessRaced` and
`UnreadableKept`, for any number of overlapping acquisitions, recoveries and releases. The
invariant says what an instance knows at each line until a lock is created under a
recovery (`raced`): a writer's file is at the path, an owner's is and is readable, who
is about to unlink a stale file has seen a dead owner, and that file is still there
or nothing is (`UnlinkerIsRight`): several recoveries may stand at that line, and all but the
first to get there find nothing to remove. The last is what a new lock under
a recovery breaks, and the only way to break it.
Then the server. `LockImplemented`: every step of servers and other programs is
one of the lock's or leaves it alone, so that the lock's theorems hold of the composition.
With them, `ConnectionsUnderLock` follows from `HeldWhileUp` and from where connections
can be open (`IdentityPhases`: past its own close the identity adapter's is open only if
a failure was kept, and then nothing releases), and `WorkFinished` from who may still
write when (`WorkersInTime`) and that the database is open then (`OpenWhileWorking`).
`ConnectionsUnderLock` too is
about the time before `raced`. Assumptions: `InstancesAssumption`, `ServersAssumption`.

**LocalOperationsProofs.** `NothingLost`, `BackupsTrue`, `WholeUnlessInterrupted` and
`RunningUndisturbed`. The invariant follows a restore along its lines: only the lock's
owner touches the database (`LockHeld`), only its own operation writes at a backup path and never
once the backup is complete (`PathsOwned`, `CompleteStays`), the verified source stays
complete (`SourceKept`), and before the database is moved away its state is in
the recovery backup (`RecoveryKept`). For `WholeUnlessInterrupted` it is joined by
`CopiesVerified` and `Intact`: without a crash or a failing step of a restore the database
is missing, or beside another's -wal file, only while a restore is between its renames or
before its removal, and then it holds the lock (`HandsOff`). Assumptions:
`OperationsAssumption`, `PathsAssumption`, `BoundsAssumption`.

**EventDeliveryProofs.** `RecordedOnce`: `Spec => Abstract!Safety`, the step
simulation of `EventLog` without its fairness, from the invariant that the drain
only handles facts it has leased (`LeasesHeld`): a leased fact has been
committed and is not yet in the log. `NothingSkipped` and `NoEventTwice` rest on a second
invariant: the log holds a fact once (`LogIsHistory`); between projection and
publication the drain records nothing else (`PublishesLast`), so that beyond the cursor
of a stream lies at most the event about to be published (`AtCursor`); what is on its
way to a browser is in order, after what it handled last and not after the cursor
(`InStreamOrder`), with no event missing in between (`NoGap`). The replay of a
reconnecting stream is a list in order of a set of sequence numbers; that each number
has its place in it (`InOrderLists`) is shown by counting the numbers before each.
Assumptions: `FactsAssumption`, `BoundsAssumption`.

**OwnerAccountsProofs.** `OneInstallation`, `SetupExclusive`, `OwnersExist`,
`OrphansExplained`, `PendingExplained` and `AnswersTrue`. No row in the schema forbids
a second installation, so the argument is about memory: `FlagTrue` says that an
installation the server does not know of belongs to the one request that is about to
say so, and `SetupPlaces` that whoever is past its sign-up has seen no installation.
`RegistrationPlaces` says at which steps a registration has an account, and
`CompletionsTrue` that a completion, in a row or on its way to a client, names an
organization registered for the same input. `Commit` is the hard step: it may find its
row expired and replaced. Assumptions: `RequestsAssumption`, `ClaimsAssumption`.

**PluginCallsProofs.** For `DeveloperMode` the invariant joins `OneSession` and
`ServesWhatWasGranted` with `LastsWhileWanted`, that a session lasts only while the mode
is on and its command line has not reported its end (which gives `TornDown`), and
`HandedOnce`, that a command line that was handed a session left its pairing approved,
so that no second approval can follow its end. `PluginCalls` takes its steps from
there: `NoWorkAfterTeardown`, an action property. For
`ManifestCurrent` the file is followed on its way (`SentInv`): nothing is sent before the
handoff, while a command line waits its pairing has the file's manifest
(`PairedWithFile`), and afterwards the last upload under way carries the file or, with
none under way, the session has it (`LastSent`). Assumptions: `ManifestAssumption`,
`LimitAssumption`.

**TaskDrawerProofs.** `OverwriteExplained`, `Converged` and `SaveWhole`. An answer is not
newer than the task, and with the task's revision it has the task's value in every field
sent with a revision (`AnswersTrusted`); that is how a save, which the server accepts at its
revision only, knows what it overwrites (`SeenBefore`), plugin fields excepted. An answer
that is new enough shows the task (`AnswersShow`), and unless the panel has one, one is
on its way (`NewsAhead`): the hard part of `Converged` is that no turn to another task, no
failure and no late answer loses the last request that would bring it. `PassedHeld`
carries `SaveWhole`, which first said that the *server* has the whole draft
when the form closes. Its proof failed for a reason that TLC then showed with one revised
and two plugin fields: someone else can change a plugin field that the save has
written while it writes the next one, since `setExtensionField` asks for no revision. What
the code can promise, and the property says now, is that the save was told of every field
that the server held it. Assumptions: `FieldsAssumption`, `BoundAssumption`,
`PanelAssumption`.

**BoardClientProofs.** `Settled` and `MoveFromSeen`. With nothing on its way that will
bring the latest list (`Ahead`), the board has been given the latest version and shows it,
unless a move is under way or an older answer came after it (`UpToDate`), be it a
list, a created task or the panel's task; an answer at the
latest version has the server's rows (`LoadsTrue`) or, the panel's, the server's row
(`InFlight`), and what is drawn is the list
(`Drawn`). A move is accepted at the expected revision only, so `MoveFromSeen` needs that
whoever has a row with the server's revision has the server's column for it (`Earlier`):
in the list, in the loads and in the dialog's answer, but not for the card that was moved
before the server answered (`Placed`), and in the snapshot the move remembers
(`MoveRemembers`). The operators on lists carry this: a column's cards in order are all of
its cards once (`OrderedLists`, by rank), a drop changes the place of one card
(`OptimisticRows`, `MovedRows`). Assumptions: `TasksAssumption`, `SlotAssumption`,
`BoundAssumption`, and of the list at the start `StartAssumption`, which is the index on
positions.

`OwnerIsVisible`, `OneAtATime`, `CompletionKept`, `TypeCorrect` and `Typed`, `NumbersAlwaysUnique` (task numbers are never reused),
`ColumnAlwaysKept` (a project keeps a column) and `Teardown` are proved and not
repeated by a run.

*Only model-checked:* liveness, which needs ENABLED: `DeadLockRecovered`, `StopEnds`,
`ShowsEverything`, `MoveEnds` and the fairness of `EventLog` inside `EventsRecorded`. Every
invariant and every action property of the passing runs has a theorem.

## 6. Disagreements found

With a run whose trace shows it, and listed in `PROJECT.json` under `findings`:

- `lock_race`: two processes that recover one stale lock at once can both hold it. The
  second read of the record narrows the window down, but the unlink after it removes
  whatever lies at the path (`installation-lock.ts:105`): a lock another process has
  created in between, too, against `docs/local-operations.md:72`, which says that a
  second server, migration or restore is rejected. `ExclusiveUnlessRaced` says that there
  is no other way to get two holders.

- `silent_overwrite`: the answer of an attachment's upload refreshes the panel's
  revision and keeps the draft of an open form (`task-detail.tsx:825`). The save that
  follows sends the fields that differ from the *new* task, also those its user
  never touched, under the current revision: another person's change is
  overwritten without a conflict, against `docs/implementation-roadmap.md:136`.
  `OverwriteExplained` says that there is no other way to lose one.

Read in the code while modelling it, without a run of their own:

- a task archived from a column that is deleted afterwards is restored into it
  (`task-service.ts:964`); it is active, but no column of the board shows it;
- after deletions and creations a column may lie exactly `2n + 1` above another; a valid
  order of the columns then fails with a constraint error (`project-repository.ts:426`;
  `ReorderStatuses` has both outcomes, and `ColumnsUnique` holds in either: no property
  promises that a valid order is accepted). The task shift has an offset that depends on
  the maximum and is proved correct;
- `createStatus` validates a name against the active columns only and the index covers
  the deleted ones, so reusing a deleted column's name is an internal error (both
  outcomes are in the model);
- an update that changes nothing revises the task without a fact
  (`task-service.ts:688`), and so does a neighbour's move (`NeighbourMoves`); other
  browsers learn of it by a conflict;
- when the completion of a committed command cannot be written, its reservation is
  abandoned, and a retry repeats the effect (`http-contract.ts:147`), which is why
  `OnceUnlessFault` excepts that fault;
- a restore renames the database away before it renames the restored one into place,
  and removes the -wal file last (`local-operations.ts:271`): a crash between leaves no
  database, and the next start creates an empty one, or leaves the -wal file of one
  database beside another. `NothingLost` says that the recovery backup survives
  both. A torn database then blocks every further restore, because its recovery backup
  fails verification; two backups that overlap at one chosen path may replace or
  remove each other's files (`local-operations.ts:147`, `:191`), which is outside
  `BackupsTrue` by `PathsAssumption`;
- a browser that has never handled an event resumes at the latest sequence number; a
  refetch that meets a stopped server is not repeated; the reset signal for cursors
  beyond the log (`docs/data-and-api-architecture.md:521`) is not implemented;
- an account that a failed or cut-off registration or setup leaves behind keeps its
  email address, so its owner's next attempt is refused as a conflict
  (`register-organization-owner.ts:204`, `setup-routes.ts:269`); `OrphansExplained` lists
  the ways to get there, among them an identity adapter that throws after it has made
  the account, which nothing then discards;
- a pairing that was approved and handed over still expires after five minutes when
  it is next looked at, and revokes its session (`developer-mode.ts:479`), which
  `docs/plugin-author-preview.md:357` says lasts thirty; a command line that is killed
  leaves its session to that expiry;
- the command line does not await one upload of the manifest before the next, does not
  watch the file until it is approved, and does not repeat an upload that failed
  (`connected-dev.ts:174`): `ManifestCurrent` excepts the three and is about all other ways
  to serve an old manifest;
- the owner approves whatever permissions the session asks for when the request
  arrives, not those that were shown (`developer-mode.ts:367`);
- a handler abandoned by its deadline or its caller goes on and may commit, a client
  that leaves while the route resolves its identity is not noticed, and a call that
  meets its deadline may be answered as cancelled (`capability-broker.ts:304`). The model
  has these steps; the caller is told of an error, about which nothing is promised;
- an event while the form is open reloads the task over what was typed, and answers are
  shown in the order they arrive, also one for the task shown before
  (`task-detail.tsx:343`), which `Converged` excepts as `overtaken`;
- a created task is appended to the board's list without a look at what the list holds
  (`project-tasks.tsx:930`): if a load brought it first, it is there twice until the next
  load, which need not come. `Settled` is about which tasks the list has and with which
  rows, not how often; `twice` in the model says which ones are doubled;
- the panel's answer replaces a row without a look at its revision
  (`project-tasks.tsx:2006`): after the last load it can put an older row back, which
  stays until the next event. `Settled` excepts it, like any older answer that comes
  last (`overtaken`), and says that there is no other way to end up with a wrong list;
- a list that is loaded while a card is in the air leaves the layout as it was drawn,
  but gives the drop its revisions (`project-tasks.tsx:554`): the server may then accept a
  move from a column the user did not see. `MoveFromSeen` excepts it (`frozen`).

## 7. What is not modelled

Worth doing next, the most consequential first:

1. The projection's reindexing for the search against the rows it reads, with
   organizations and projects archived under it.
2. Browsers that outlive a restore: `LocalOperations` composed with `EventDelivery`.
3. The rest of the catalog (folders, the order of projects, comments, labels and
   assignees): transactions like those of `TaskBoard`, without ordering indexes
   that interact. Installation and enablement of plugin packages.
4. The other pages of the web client, which load and submit forms; in the two that are
   modelled, comments and labels (the panel's answers to a comment as well), filters and
   further pages of the list.

Left out, with the reason:

- the plugin transport and the browser bridge are wired only to the proof of the
  plugin host, and the isolated handler runtime is used by scripts and tests only:
  no behaviour of the product at this commit runs through them;
- heartbeats of the developer mode change nothing that is read, and no route calls
  `rejectPairing`;
- what a registration's transaction writes besides the organization (workspace
  defaults, audit entries), sign-in, invitations and the rest of the identity library;
- rendering and component libraries, the generated API client, argument and schema
  validation, archive parsing, the scaffolding and packing tools: presentation,
  generated code and sequential transformations without a state of their own.
