# Verification of the Barq control plane

TLA+ models of the server in this repository, the TLC runs that check them on
small instances, and TLAPS proofs for every value of their constants.
Paths are relative to the root of the repository.

## 1. The system

`barq-server` is one process beside Core (the data plane, a C++ server whose
source is not here). It keeps its own records in one embedded database.

| component | state | operations | talks to |
|---|---|---|---|
| control store (`internal/control`) | records: collection, key, value, version | `Get`, `List`, `Put`, `Delete`, `Apply` (a batch) | the embedded database, under one mutex |
| sync rules (`internal/syncrules`) | collections `sync_rule_pending`, `sync_rule_revisions`, `sync_rule_heads`; Core's active rules | `Apply`, `Restore`, `Current`, `Plan`, `Test`, `History`; `Reconcile` at the start | Core, control store |
| webhook service (`internal/webhooks/service.go`) | hooks, their revisions and secrets | register, update, disable, rotate, replay, test | control store, transforms |
| webhook dispatcher (`internal/webhooks/dispatcher.go`) | materializations, deliveries, a cursor per hook scope | `PollOnce`, `DeliverDue` in one goroutine | Core's change feed, control store, transforms, the endpoints |
| transforms (`internal/transforms`) | none (a fresh sandbox per call) | `Validate`, `Execute` | - |
| auth manager (`internal/auth/manager.go`) | collections `api_keys` and `tenants`, a mutex | bootstrap, create, update, disable, revoke, rotate, find | control store |
| auth middleware, HTTP API (`internal/auth/auth.go`, `internal/api`) | the principal of a request | authorise, decode, dispatch, encode | everything above |
| server main (`cmd/barq-server`) | the process | start: health, schema, keys, `Reconcile`, serve; the dispatcher's loop | everything above |
| deployment (`internal/deployment`) | `.env`, manifest, bundle files, the data volume, local backups, the maintenance lock | init, up, backup, restore, upgrade, rollback | Docker, Cosign |
| remote backups (`internal/deployment/remote_backup.go`) | configuration, recovery key, status file; encrypted repositories | configure, backup, check, restore test, restore | Restic, deployment |
| `barqctl`, doctor, schedule | none | parse flags and call the deployment package; report; install timers | deployment |

How they interact: an HTTP handler runs in its own goroutine and makes a
sequence of separate calls to the store and to Core. Only one call at a time is
atomic. Handlers share nothing else but the store (the auth manager adds a
mutex of its own). The dispatcher polls Core's change feed and turns changes
into deliveries; it too keeps everything in the store.

What is hard here: handlers interleave between any two calls; a caller's context
may end between any two; a request may reach Core after its caller has given up;
the process may end at any point and is restarted; versions read in one call are
used in a later one; several records that belong together are written in separate
calls. A maintenance command is a long sequence of file writes and docker calls, each of
which may fail or be the last, while clients go on writing whenever containers run. The `hazards` of `PROJECT.json` list these, each at its line.

What makes each component correct:

- *control store*: a batch takes effect as a whole or not at all, a list is a
  snapshot, an expected version is compared with the version that is replaced,
  every call returns.
- *sync rules*: the history is Core's; what Core has activated is recorded or can
  be recovered; success means recorded; a start settles what was interrupted.
- *webhooks*: a change that the cursor has passed has a delivery for every
  matching hook; a delivery is decided once, tried a bounded number of times, and
  never reverts from completed; one delivery per hook revision and change.
- *auth*: a root key always remains; an operation's conditions still hold when it
  takes effect; a start never overwrites what was changed since; the dispatcher's
  scopes follow the tenants.
- *deployment*: a failed upgrade leaves the old release with its data or the new
  one, never a mixture; data is copied and replaced only while nothing runs on it, and
  what is replaced is in a backup.
- *remote backups*: the key that the operator keeps opens the repository in use; what
  the status reports has a snapshot behind it.

## 2. Modules

| module | what it is |
|---|---|
| `VersionedRecords` | records with versions and the comparison with an expected version |
| `AtomicStore` | abstract: what the control store promises |
| `ControlStore` | `internal/control/barq.go`, with the mutex, the loops over a batch and a list, and the transaction |
| `MCControlStore` | instances of `ControlStore` |
| `ControlStoreProofs` | theorems about `ControlStore`, the refinement among them |
| `RuleLedger` | abstract: what the history of sync rules promises |
| `SyncRules` | `internal/syncrules/service.go` with its start in `cmd/barq-server/main.go` |
| `MCSyncRules` | instances of `SyncRules` |
| `SyncRulesProofs` | theorems about `SyncRules`: the history |
| `SyncRecoveryProofs` | theorems about `SyncRules`: the pending records and the start |
| `WebhookQueue` | abstract: what the webhook dispatcher promises |
| `WebhookDispatch` | `internal/webhooks`: the service's handlers, and the dispatcher with its loop in `cmd/barq-server/main.go` |
| `MCWebhookDispatch` | instances of `WebhookDispatch` |
| `WebhookProofs` | theorems about `WebhookDispatch`, the refinement among them |
| `AccessRules` | keys, tenants, and what the checks of `internal/auth` and the routes of `internal/api` ask of them |
| `KeyRegistry` | abstract: what the auth manager promises |
| `AccessControl` | `internal/auth/manager.go`, the middleware's two reads, the routes that lead to it, `Bootstrap` and the scope refresh of `cmd/barq-server` |
| `MCAccessControl` | instances of `AccessControl` |
| `AccessControlProofs` | theorems about `AccessControl` |
| `Deployment` | `internal/deployment`: upgrade, rollback, backup, restore, up, the lock, and the control schema migrations that they run |
| `RemoteBackup` | extends `Deployment` with `remote_backup.go` |
| `MCDeployment` | instances of `RemoteBackup`, and so of `Deployment` |
| `DeploymentProofs` | theorems about `RemoteBackup` and `Deployment` together |
| `HealingProofs` | the theorems that a command heals one fault, and that one that succeeds mends what it found |
| `KilledCommands` | extends `RemoteBackup` with the docker calls that go on after `barqctl` was killed |
| `MCKilledCommands` | instances of `KilledCommands` |
| `KilledCommandsProofs` | theorems about `KilledCommands` |

`AccessControl` and `SyncRules` and `WebhookDispatch` take each store call as one step; that
`ControlStore` implements `AtomicStore` justifies it. `AccessControl` and `WebhookDispatch`
meet in `scopes`: the first says how the dispatcher's scopes follow the tenants, the second
lets them be refreshed to anything.

### ControlStore

`records` is the committed database; `tx` what the open transaction has made of
it; `lock` the mutex; `plan`, `written` and `todo` what the holder of the mutex
keeps on its stack (checked mutations, mutations already written, records that a
list has not read yet). `calls` gives per caller its step, its request and its
answer. `Put` and `Delete` are batches of one.

- `Invoke`, `RefuseSize`, `Acquire`: entry of `Get`, `List`, `Apply` (lines 60-81, 136-147).
- `GetRecord`; `ScanRecord`, `FinishScan`: the body of `Get`, and the loop of `List`.
- `Check` is one round of the first loop of `Apply` (157-193), `Write` one round of
  the second (196-227), `Commit` the end of the transaction and the answer.
- `Fail`: the context has ended before the lock or between two records of a list, or
  the database returns an error. `Crash`: the process ends; the committed records stay.

Keys stand for collection and key; a prefix stands for the set of keys that have it.
JSON validity and empty names are left out: they are refused before anything is read.
The embedded database is trusted to commit a transaction as a whole.

### SyncRules

One tenant/database scope: the records of different scopes have different keys
and Core keeps their rules apart. (`Reconcile` does go through the pending applies
of all scopes in one loop; that one of them can block the start of all is a
finding below.) Every store call is one step, which `ControlStore` justifies.

| variable | code |
|---|---|
| `log` | Core: the rule set of every revision so far |
| `delayed` | requests to Core whose caller is gone |
| `pending`, `history`, `head` | the three collections, with record versions |
| `server`, `queue` | the life of the process; what `Reconcile` has still to handle |
| `proc` | per handler, and for the start: the call it makes next and its arguments |

`proc[p].call` names the call that the handler makes next: `putPending`,
`getPending`, `core`, `reject` in `Apply`; `getRevision`, `dropPending`, `getHead`,
`commit` in `finishApply`; `readHead`, `putHead` in `writeHead`; `readRevision`,
`putRevision` in `reconcile`; `discard` in `Reconcile`. Each has an action of that
name, whose guard is the call and whose disjuncts are the code's branches.
`Cancel` ends a handler before any call: its context ended, Core did not answer, or
the store failed. A request that was on its way to Core may then arrive later
(`DelayedArrives`). An ignored error of a delete is `TryDeletePending`.

Abstractions: equal rule sets have equal hashes, so rules stand for both; actor,
source and times are left out, but whether two calls can have read the same time
is a constant, because `samePending` compares times; request IDs are numbers,
because `Reconcile` lists them in key order. Core is external: it answers an apply
that it has already carried out as before, refuses a wrong expected revision, and
refuses some rule sets. Core's own durability is trusted. `Plan`, `Test`, `Schema` and
`History` change nothing and are left out.

### WebhookDispatch

| variable | code |
|---|---|
| `feed` | Core: the events of each scope; an event's cursor is its place |
| `scopes` | the scopes that the goroutine polls, as last refreshed |
| `hooks`, `revisions`, `materializations`, `deliveries`, `cursors` | the five collections, with record versions |
| `early` | deliveries whose `NextAttemptAt` has not come |
| `accepted` | the receivers: items that were accepted at least once |
| `disp` | the dispatcher's goroutine: its next call and its local variables |
| `proc` | the same per handler of the service |

An *item* is hook, revision and event, the key of a materialization and of its delivery.
`disp.call` goes from `idle` (between ticks) to `poll` (the next scope), `next` (the next
event), `list` (`processEvent` lists the hooks), `hooks` (the next hook, or `SaveCursor`), `put`,
`transform`, `create`, and after the last scope to `due`, `pick`, `record` of `DeliverDue`. Each
action is one call, with the branches of the code as disjuncts. `Fail` ends the poll or the
pass as every error does; `Crash` loses `disp` and `proc`.

`WebhookQueue` has one state per item (none, skipped, queued, completed, dead) and takes one
event at a time: the hooks that match when they are listed claim an item each, and the
cursor moves on when all claims are settled. `ItemState` maps the two records of an item to
its state: a materialization without a delivery is not settled yet.

Abstractions: what an event type and an object type select is a topic, and a hook asks for
a set of them; URL, reads, name and limits change with the revision and are left out; a
source and a secret are named by the revision that introduced them; the transform's outcome
and payload are a choice at every run, since a script may fail for lack of time; times are
left out but for `early`. A materialized context is not kept: the next record holds what
was made of it. The order of the deliveries in a list is the order of random IDs: any. The
feed is in order, and may repeat an event, as `contracts/README.md` says.

### AccessControl

| variable | code |
|---|---|
| `keys`, `tenants` | the two collections |
| `server`, `todo` | the life of the process, and the tenants that `Bootstrap` has still to store |
| `mutex` | the manager's mutex |
| `scopes` | the scopes that `runDispatcher` polls |
| `req` | per handler: its step, the principal as it was read, the call and the record as read under the mutex |
| `served` | history: some start has got as far as serving |

- The start (`manager.go` 95-234): `StoreBootKeys`, `RebuildTenants` or `KeepState`, by what is
  stored, then one `FillTenant` per tenant, then `Serve`. `Crash` may come anywhere.
- Authentication: `FindKey`, then `FindTenant`, two reads without the mutex. `Route` decides
  with that principal (`Allowed`, one operator per group of routes of `server.go`).
- An operation: `Lock`, then its store calls in order (`ReadTenant` or `ReadKey`, `CheckScope`,
  `CheckRoot`), then `PutTenant` or `PutKey`. A rotation is one batch of two mutations. `End`
  is every refusal, failed call and lost version conflict; nothing ends the wait for the mutex.

`KeyRegistry` has one step per operation whose guard is the condition that the operation
checked some calls earlier. Abstractions: digests stand for themselves (a secret's hash is
the key's place in the collection, unique by being random), labels, IDs and times are left
out, and requests to read change nothing.

### Deployment and RemoteBackup

| variable | code |
|---|---|
| `files` | `.env` (its release), the manifest with its history, and the bundle's files |
| `volume` | the data volume: clients' writes, the control schema, and whether it was unpacked in whole |
| `control`, `core` | the containers: the release that edge and control run, and Core |
| `backups` | the local backups that `verifyBackup` accepts |
| `conf`, `recovery`, `status` | `secrets/` with the repository and password, the recovery key, the status file |
| `repos` | the restic repositories: password and snapshots |
| `cmd` | the command that holds the lock: its kind, its next step, and what it has read or made |
| `job` | a configure's input and the two files as it found them |
| `cmd.faults`, `cmd.late`, `cmd.fit`, `acked` | history: which steps failed, which writes came after the archive, whether all was well at the start |

`cmd.step` names the write or docker call that comes next; the action of that step has one
disjunct for its success and one for each way in which it fails, and goes on where the
code's error path and its deferred calls go on. Backup is `Copy`, `StopAll`, `Archive`,
`Seal`, `UpAgain` (`backup.go`), and upgrade, rollback, restore and a remote backup contain it.
A change of release goes on with `WriteEnv`, `WriteManifest`, `WriteBundle`, `Stop`, `Migrate`, `UpNew`;
`Undo` and `Revert` are `restoreOldFiles` and `restoreFailedRelease` (`upgrade.go`). Restore is
`Down`, `Unpack`, `CopyBack`, `UpLast`. `Release` is the end of a command, and at any earlier step
its kill: the lock is a file lock, the containers go on. This kill comes between docker calls, or in one
that docker does nothing for any more; what docker does for a command that was killed in the middle
of a call is the subject of `KilledCommands`. An `up` that fails may have started any of the
containers and migrated the schema, or left all as it was (`NotStarted`); an unpacking that fails may have
cleared the volume, brought a part of the data or done nothing. `up` (`Up`) takes the lock too: a command that finds it held is refused.

Abstractions: `compose.yaml` and the Caddyfile come together and are one file, edge and
control are one service; image pulls and signatures are one preflight that may fail;
hashes of a backup are "in `backups` or not"; a file that was cut while it was written is
`Torn`, and a torn manifest refuses every later command (`deployment.go`:237). Times in the
status are left out, except where they point: the repository. Docker, tar and restic are
external. A container's own start migrates the schema (`EnsureSchema`).

### KilledCommands

`barqctl` runs docker as a child (`runner.go`:17-40), and the daemon runs the containers. A kill of
`barqctl` frees the lock (`lock.go`) and stops neither, so the call goes on beside the next command.

| variable | code |
|---|---|
| `leftover` | the docker calls of killed commands that are still at work: stop, stop all, start, migrate, unpack |
| `undisturbed` | history: when the command began, nothing but stops was left over |

`KillDuring` is `Release` in the middle of a docker call, which it leaves in `leftover`; `KillUp` is
the command `up`, killed. `LeftoverWorks` lets a call do some of its work or the last of it, at any
time: a stop may stop some containers, a start may start some and migrate the schema, an unpacking
may leave a partial volume or bring all its data. `Commands` is every step of `RemoteBackup`.
Left out are the calls that change neither containers nor volume: a pull; the check of a migration; an
archive, whose backup will never have its `backup.json`; restic's, which take the repository's own
lock. What an archive of a volume in use would contain is not modelled, nor is what
a left-over call means for the other properties of `Deployment`: a left-over unpacking can replace what was
answered since, so `SavedBeforeReplaced`, `OneFaultHeals` and `SuccessMends` are stated for kills between docker calls.

## 3. Runs

| run | cfg | what it checks |
|---|---|---|
| `sync_contention` | `SyncContention.cfg` | two handlers with crashes, lost calls, late and rejected applies: the types, `HistoryMatchesCore`, `ActiveRulesRecoverable`, `SuccessIsRecorded`, `StartSettlesPending`, `StartBlockedOnlyByRejected`, and that the history implements `RuleLedger` |
| `sync_restart` | `SyncRestart.cfg` | `ServesAgain`, under fairness |
| `store_calls` | `StoreCalls.cfg` | the types, `ControlStore` implements `AtomicStore`, and `CallsReturn` under fairness |
| `webhook_handlers` | `WebhookHandlers.cfg` | two handlers change one hook while the dispatcher works on an event: the types, `RevisionsInOrder`, `DeliveryIsMaterialized`, `ImplementsQueue` |
| `webhook_progress` | `WebhookProgress.cfg` | two hooks and two scopes with an event each, with retries: `ImplementsQueue`; `EventsPass` and `DeliveriesSettle` under fairness |
| `access_control` | `AccessControl.cfg` | two administrators on the same keys and tenant, with failed calls, crashes and starts: the types, `MutexIsHeldInside`, `RootRemains`, `ImplementsRegistry`, `StartKeepsStored`; `ScopesCatchUp` under fairness |
| `deployment` | `Deployment.cfg` | three commands in any order, failing at any step or killed between their docker calls, while clients write: the types, `SavedBeforeReplaced`, `SuccessMends`, `OneFaultHeals`, `ConfigureKeepsAgreement`, `StatusHasSnapshot` |
| `killed_commands` | `KilledCommands.cfg` | three commands, killed also in the middle of docker calls that go on: the types, `CopiesAreUndisturbed` |
| `sync_poisoned_start` | `SyncPoisonedStart.cfg` | finding 1 |
| `sync_refused_retry` | `SyncRefusedRetry.cfg` | finding 2 |
| `sync_false_conflict` | `SyncFalseConflict.cfg` | finding 3 |
| `access_first_start` | `AccessFirstStart.cfg` | finding 4 |

Every property of a passing run has a seeded fault (`mutants` in `PROJECT.json`, the
definitions marked "Seeded fault") that the run detects.

What the less obvious properties say:

- `ImplementsRegistry`: a key is created only for a tenant that has the database at that very
  moment, a rotation has no moment with both keys or neither, a root key ends only while
  another one is stored. The checks are made some store calls before the write; that nothing
  comes between is the mutex's doing, and the seeded fault takes the operations' lock away.
- `SavedBeforeReplaced`: a write that was answered disappears from the volume only if a
  verified backup has it, or if it was answered after the command's own archive had been taken.
- `OneFaultHeals`: a command that finds a healthy deployment leaves a healthy one, if at most
  one step fails and not one of `Unhealed`. That set is part of the statement and read from
  the code: see "Observations".
- `SuccessMends`: a change or a restore that succeeds leaves one release in all files, the schema and the
  containers, even if it began with the mixture that a kill or a failure had left. For a change this
  asks for a volume that is there in whole, for a restore for a backup whose files fit its data; nothing in
  the code can do without. The seeded fault keeps an `.env` that a killed command left.
- `CopiesAreUndisturbed`: nothing runs on the volume and nothing else writes it while it is copied or
  replaced, if no start, migration or unpacking of a killed command was still at work when the
  command began. Left-over stops do no harm. That the condition is needed is the first of the observations.

### Bounds

- `MaxRevision = 2`: one revision is applied on top of another, so that a handler,
  a pending record and a head can be behind. `Revisions` bounds only what clients ask for.
- Two handlers, two request IDs, two rule sets: two applies compete for one revision
  with different or equal rules, under different or the same request ID, while
  `Current` runs. `TimesCoincide` is true in `sync_restart` only (see the hazard at
  service.go:178); all theorems but the last of section 5's `SyncRecoveryProofs` hold for
  both values. The start is a process of its own and is never concurrent with handlers.
- `MaxDelayed = 1`: one late request at a time; `Overshoot`: expected revisions at most
  one ahead of Core's (0 where rejection is not the subject). In `sync_contention` Core rejects one
  of the two rule sets.
- Store: two callers, two records, batches of up to two mutations (`MaxBatch`, 100 in
  the code; a batch of three is refused), no new call after version 2.
- Webhooks: `MaxAttempts` 1 or 2 (8 in the code: a first, a last and no attempt in
  between are told apart with 2), `Limit = 1` (100), so that a pass leaves deliveries behind. Two hooks, so that a
  poll may stop between the deliveries of one event, and two scopes, so that hooks and cursors of different scopes meet;
  or one hook with two revisions, so that handlers race for the second, with one filter and two topics, so that events
  go unmatched. One event in each scope: that a cursor passes several in their order is
  left to the theorem `QueueImplemented`, which has no bounds. `MaxRepeats`, `MaxHookVersion` and `MaxReplays` bound how often a
  feed repeats an event, a hook is changed and a delivery is replayed.
- Access: two handlers, three keys (so that a rotation finds a free one while two root keys
  exist), two tenants and databases; one root key is configured and a default scope, so that the
  first start has a tenant to fill. `Calls` are those in which administrators meet: disabling,
  demoting, enabling and rotating two keys, creating root and tenant keys, creating, disabling
  and enabling a tenant and taking a database from it.
- Deployment: three releases of which the second migrates the schema and the third does not, so
  that an upgrade, its rollback and a refused rollback occur; `MaxHistory` 1 (10 in the code) and
  `LocalKeep` 1 (3), so that both are exceeded; `MaxCommands = 3`, enough for an upgrade, its
  rollback and a third command on what they left; `MaxWrites = 2`, one before and one after an archive;
  one failing step in each command (`MaxFaults`), and a kill besides. With `MaxFaults = 2` and
  `MaxWrites = 1` the same properties hold (4.4 million states). Two repositories and two passwords,
  so that a configure can change either. The run may stop when commands and writes are used up:
  `CHECK_DEADLOCK FALSE`.
- Killed commands: two releases with different schemas, three commands (one to kill, one beside what it
  left, and one after that), one write, one repository and one password.
  No step fails but those that fail because of what they find (`MaxFaults = 0`); with any number of
  failing steps, `CopiesAreUndisturbed` is a theorem.
- Symmetry: repositories and passwords in `deployment`; handlers and hooks (and rule sets where Core accepts all) in the safety runs only.

### Fairness

`StartFairness` is weak fairness of the restart and of the steps of the start: the
container has a restart policy and `Reconcile` is one sequential loop with no waiting.
It says nothing about clients. `ServesAgain` assumes that crashes and lost calls
during the start cease. `StoreFairness` is strong fairness of each caller's steps: Go's
mutex hands over to a waiter that has starved, and its holder runs on. The dispatcher's `Fairness` is weak fairness of
its one goroutine, whose ticker fires every 250 ms and whose calls have deadlines, and of
the clock; nothing is assumed of receivers, handlers or the feed. `AccessControl` assumes weak
fairness of `RefreshScopes` only, which `runDispatcher` calls at its start and every five seconds; it
assumes nothing of requests or crashes. `EventsPass` and
`DeliveriesSettle` hold once its calls no longer fail and its scopes no longer change (`Calm`).

## 4. Findings

1. `RejectedNeverBlocksStart` (service.go:175). A pending apply that Core rejects, left
   behind when the handler ends before its delete, makes `Reconcile` and with it
   every start fail.
2. `RefusedOnlyForAnother` (service.go:166). The retry of a pending apply is refused as
   another apply, because the time of the call is compared too.
3. `ConflictMeansStale` (contracts/public-openapi.yaml:254). An apply that Core has carried
   out can be answered 409, when its revision or the head is written by another
   handler between `finishApply`'s reads and its transaction.
4. `FirstStartIsComplete` (manager.go:104). A first start that ends between two of its
   tenants leaves keys without tenants, and no later start creates them.

Observations, which no line of the repository contradicts:

- An `up` that is killed while docker starts the containers leaves that start at work. A backup gets the
  lock, stops them, and may archive the volume while the rest of the start brings them up again
  (`runner.go`:17-40, `lock.go`:13-36); nothing then says that the backup is no snapshot. `README.md`:192
  ("copied as one consistent snapshot") does not speak of killed commands.
- A command's backup starts the containers again (`backup.go`:118-124) before the command
  stops them for good. A write answered in between is in no backup, and a failed upgrade or a
  restore discards it (`cmd.late`).
- These steps leave an unhealthy deployment when they alone fail: the stop before an
  archive (`backup.go`:115-117 returns before the deferred start is set up), the start after
  it, the first write of a change (`upgrade.go`:165-167), and a restore's own steps; a failed
  unpacking is followed by a start on a partial volume (`backup.go`:222).
- A manifest that was cut while it was written makes every command refuse, `restore`
  included (`deployment.go`:237).
- A configure whose first write fails does not put that file back
  (`remote_backup.go`:94-96), and a failing put-back is not repaired; `ConfigureKeepsAgreement`
  excludes the two.
- The status is not reset when another repository is configured, so what doctor
  reports may be about the earlier one.
- The scope of a webhook route is decided with the hook as it was read (`server.go`:682).
- The version of a record starts again at 1 after a delete (`barq.go`:185); only
  `sync_rule_pending` deletes and creates again.

## 5. Proofs

Every invariant and every safety property of the passing runs is a theorem, for every value
of the constants, with one exception in the assumptions (`~TimesCoincide`, below). Each proof module
has an inductive invariant (`IInv` and those named below; TLC finds each of them to hold on the run
of its component, too), one lemma per action that shows it kept, and a refinement by one lemma per
action that maps the action to an abstract step or a stutter. What the constants are assumed to be is named in the module that declares them
(`StoreAssumption`, `ConstantsAssumption`, `RulesAssumption`, `AccessAssumption`, `DeploymentAssumption`,
`RemoteAssumption`): bounds are numbers, sets of records are what their types say, and the value
that stands for nothing is none of the others. TLC evaluates them on every run.

`ControlStoreProofs` proves `TypeCorrect` (`[]TypeOK`) and `CallsAreAtomic`
(`Spec => ImplementsAtomicStore`). The code checks a batch, then writes it, one
mutation at a time, and `AtomicStore` does it in one step; so the invariant says what the holder of
the mutex has established by each round. `OneHolder`: nobody else is inside. `Checked`: the
mutations so far were in order with the *stored* records, and the plan has the versions that
follow them. `Staged`: the transaction has the outcome of each mutation written and the stored
record of every other key. `Scanned`: a list has what is stored, of the keys read so far. `Commit` is
then the batch in one step, `FinishScan` the list; every other action changes nothing
that the abstract store sees. A batch that names a key twice is where the obvious invariant fails:
`Apply` refuses it (`barq.go`:157-193), and `Staged` needs that refusal.

`SyncRulesProofs` proves, for any handlers, request IDs, rule sets, revisions and
bounds that satisfy `ConstantsAssumption`:

- `TypeCorrect`: `Spec => []TypeOK`;
- `HistoryIsCores`: `Spec => []HistoryMatchesCore`;
- `SuccessMeansRecorded`: `Spec => SuccessIsRecorded`;
- `HistoryImplementsLedger`: `Spec => ImplementsLedger`.

They rest on one inductive invariant, `IInv`. `HistoryMatchesCore` is not inductive: the
history is written from values that a handler read some calls earlier. `IInv` adds what
each handler has established by the call it is about to make (`Prepared`): that Core
has committed its rules as its revision (`HasCommitted`), that the history has the
revision which the head is about to name and that a head of the version it has read
is behind (`HasSeenHead`). It also says that the start runs alone and that the
records it has listed are still there (`StartIsAlone`). The step of one process
disturbs the others only through the log, the history and the head; `Grows` says
that these only grow, and `OthersStayPrepared` that what others have established then
stays true. One lemma per action shows that it keeps `IInv`; `SuccessMeansRecorded` and the
refinement follow from `IInv` step by step.

`SyncRecoveryProofs` goes on from there, about the pending records, with two more invariants next
to `IInv`.

- `StartSettlesAll` (`StartSettlesPending`) and `OnlyRejectedBlocks`
  (`StartBlockedOnlyByRejected`) rest on `StartInv`: what is pending and not in the start's queue
  any more is in the history (`StartHasListed`); the start works on a record it has listed, with
  what that record says (`StartHoldsListed`); what it has read of history and head is still so,
  because nobody serves yet (`StartReadsLast`), so that it loses no version conflict, and is not
  stopped by one.
- `ActiveRulesStayRecoverable` (`[]ActiveRulesRecoverable`) rests on `OwnerInv`. A handler from its
  put to its delete owns the pending record of its request, and no other does (`OwnsPending`,
  `OneOwner`); what Core has activated or may still activate is in the history or pending, and
  no handler that was told of a rejection is about to delete it (`ActivePending`,
  `DelayedPending`); the start discards only what Core has left behind (`DiscardsPassed`). This
  theorem assumes `~TimesCoincide`: two calls of one request that read the same time pass
  `samePending` (service.go:166) and both own the record; one may be told of a rejection and
  delete it after the other's apply was carried out. Nothing in the code but the clock's nanoseconds
  excludes that; it is the hazard at service.go:178.

`WebhookProofs` proves, for any hooks, scopes, topics, filters, payloads, handlers and bounds:
`TypeCorrect` (`[]TypeOK`), `RevisionsStayInOrder` (`[]RevisionsInOrder`), `DeliveriesMaterialized`
(`[]DeliveryIsMaterialized`) and `QueueImplemented` (`Spec => ImplementsQueue`). The invariant
separates what may be old from what may not. A handler of the service works on a copy of a
hook or a list of dead deliveries; `HoldsHook` and `HoldsDead` say that the copy is what is stored *if*
its version still is, which is all that an update with an expected version needs. The
dispatcher's hands are never old (`InHand`): nobody else writes materializations, cursors or
deliveries that wait, so its cursor is the stored one (`PollsScope`), the claims it is done with are
settled (`HandlesEvent`), the materialization in hand says what its fate says (`HandlesItem`),
and the delivery it posted is still the one it listed, since a replay touches dead ones only
(`DeliversListed`). The refinement looks at `WebhookDispatch` through three functions, the hooks,
the cursors and the items that `WebhookQueue` sees, and shows for each action which of them it
changes.

`AccessControlProofs` proves, for any handlers, keys, tenants and databases, any configured
keys and default scopes and any calls that satisfy `AccessAssumption`: `TypeCorrect`,
`MutexHeld` (`[]MutexIsHeldInside`), `StoredKept` (`StartKeepsStored`), `RootAlwaysRemains`
(`RootRemains`) and `RegistryImplemented` (`ImplementsRegistry`). The inductive invariant adds
two things. `Sound(h)`: what an operation inside the mutex has read is what is stored, and
what it has checked still holds. That needs `MutexIsHeldInside`, because every write to a
key or a tenant is made inside the mutex or before anything is served. And `StartIsFirst`: keys come
before tenants, and a start after the first serving finds tenants or keys that ask for none,
so the one loop that writes tenants has nothing to do again. A put then is the registry's step,
and every other action changes nothing that the registry sees.

`DeploymentProofs` proves of `RemoteSpec`, for any releases, schemas, repositories, passwords
and bounds that satisfy `DeploymentAssumption` and `RemoteAssumption`: `TypeCorrect`
(`[]RemoteTypeOK`), `SavedFirst` (`SavedBeforeReplaced`),
`StatusIsBacked` (`[]StatusHasSnapshot`) and `KeyOpensRepository` (`[]ConfigureKeepsAgreement`). The
invariant has five parts. `Safe` is the types and `Shape`: at which steps a command of each
kind can be, and which of its target, old files, own backup and source it has by then;
without it not even the types are inductive. `CopiesAreQuiet`, no container runs during a copy or an
unpacking, is inductive next to it as long as kills come between docker calls. `Saved` says
that from the archive to the unpacking the volume holds nothing but what the command's own
backup has and what was answered since, and that from the seal on this backup is in
`backups`; `Seal` and `Archive` may fail, so at `upAgain` it holds of a command that has not
failed. `Snapshots` says what the next step may write to the status. `Agreement` says that a
configure has something to go back to. `NextStep` and `ContinuesKeep` say once where each
action leads and what it leaves alone, and the five parts use them case by case.

`HealingProofs` extends it with `CommandsHeal` (`[]OneFaultHeals`), under the same assumptions; it
needs that what is read of a cut file is no manifest (`Torn`). What a step has to find
depends on all steps before it, so the invariant `Heals` follows a command along its `Course`, as
long as it is `Sound`: it found all well and met at most one fault, none of `Unhealed`. The
deployment is healthy until the containers stop and again when it is done; the command's own backup
fits the files that it read; up to the migration the old files fit the volume, and from the migration
on the new ones do; a restore brings files that fit their data. The part that makes it inductive
is the last: a change on its way back (`Undo`, `Revert` and the restore after it) has had
its fault, so a second one is not sound, and the way back completes. `Course` was
checked by TLC with two faults a command as well. `SuccessIsWhole` (`[]SuccessMends`) follows a command
without any fault: by `Achieved`, what each step has brought into place is there until the end, from
whatever state the command began in, since a change writes all three files and starts what they name.

`KilledCommandsProofs` proves of `KillSpec`, under the same assumptions, `KillTypeCorrect` (`[]KillTypeOK`)
and `QuietCopies` (`[]CopiesAreUndisturbed`). The step lemmas of `DeploymentProofs` about types and
shapes carry over, because they ask of the machine only its types, and a left-over call keeps
those. What is new is `Found`: an undisturbed command has nothing but stops beside it, because what is left over only grows
when a command is killed, and then no command holds the lock; and `Quiet`: such a stop starts nothing.

Only model-checked: the liveness properties (`ServesAgain`, `CallsReturn`, `EventsPass`,
`DeliveriesSettle`, `ScopesCatchUp`), by necessity, since the prover does not handle fairness and
ENABLED; and the findings, which are counterexamples.

## 6. Plan

Done: the control store, sync rules, webhooks, access control, deployment and remote
backups are modelled and checked, and their safety properties proved; eight proof modules. Left:

1. A composition of `AccessControl`'s scopes with `WebhookDispatch`: what the dispatcher may still
   deliver for a database that a tenant has lost.
2. The properties that `PROJECT.json` lists as missing in a hazard's `note`, first the pending
   record that two calls share (service.go:178), with what holds there without `~TimesCoincide`.

Not modelled: the transform sandbox (one pure call), JSON encoding and the HTTP data-plane
client (a request, its answer and its loss are steps elsewhere), the webhook routes' checks,
the console, doctor (it only reads), the schedule (two timers that run modelled commands),
`Init` (once, in an empty directory) and `SetAPIKey` (one file), `barqctl`'s flags, CI and image
builds.
