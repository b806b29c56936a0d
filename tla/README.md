# A TLA+ verification of hsin

hsin switches the configuration of AI command-line clients (Codex, Claude)
between providers. A per-user daemon, `hsind`, keeps providers, secrets and
accounts in SQLite, encrypts them with a master key in the operating system's
key store, writes the clients' own files (`config.toml`, `auth.json`,
`settings.json`), serves a local HTTP proxy, counts what the clients spend, and
answers the `hsin` command line and terminal interface over a private socket.

This directory holds TLA+ specifications of it: who may write a client
directory, how a switch and its recovery write it, how the master key is
rotated, what the daemon keeps and serves, and what the user has in front. TLC
checks them on small instances; TLAPS proves the central invariants for any
instance.

Paths such as `app.rs` are under `src/crates/hsind/src/`; `state.rs`, `effects.rs`
and `tui.rs` are those of the terminal interface in `src/crates/hsin/src/`.

1. [Inventory](#inventory)
2. [Modules](#modules)
3. [Ownership and the configuration saga](#ownership-and-the-configuration-saga)
4. [The master key](#the-master-key)
5. [What the daemon keeps](#what-the-daemon-keeps)
6. [What the daemon serves](#what-the-daemon-serves)
7. [What the user has in front](#what-the-user-has-in-front)
8. [Runs](#runs)
9. [Fairness](#fairness)
10. [Proofs](#proofs)
11. [What the checks found](#what-the-checks-found)
12. [What is not modelled](#what-is-not-modelled)
13. [Plan](#plan)

## Inventory

About 58 000 lines of Rust in four crates: `hsin-core` (types), `hsin-ipc`
(framed JSON-RPC over a Unix socket or named pipe), `hsind` (the daemon) and
`hsin` (command line, terminal interface, bootstrap).

| Component | State it keeps | Hard behaviour | Correct when | Modules |
|---|---|---|---|---|
| Configuration saga (`app.rs` 1295-2137, `config.rs`) | journal, settings, backup of the native login, client status; the client's files | eight to twelve durable writes in four places; a crash, a login or an edit between any two | the native login is never lost, the reported status is true, nothing left over blocks the next operation | `ConfigWrite` |
| Configuration ownership (`ownership.rs`, `app/config_ownership.rs`) | record and lock beside the files; receipts in each database | several daemons, one directory; lost, late and repeated calls; opposite requests | one owner at a time; a directory changes hands only restored; a hand-over finishes | `ConfigRelease`, `ConfigTakeover`, `ConfigOwnership` |
| Master key (`crypto.rs`, `db.rs`) | key store entries, key record, key version of each secret, key in memory, pending cleanup | three stores changed in turn; two callers outside the mutation lock | every secret decrypts, the current key is stored | `KeyVault` |
| Providers (`app.rs`, `db.rs`) | rows with revisions, active and image provider, modes, bindings | references to a revision in files, journal and proxy; a crash between any two | what a synchronized client names is in the database | `Providers`, `ProviderDrafts` |
| Saved official accounts (`app/official_accounts.rs`, `native_auth.rs`) | captured credentials with revisions, two or three native stores | snapshots before and after, inside the saga | no store is mixed of two accounts; a newer login is never replaced by older tokens | `NativeAuth`, `OfficialSwitch` |
| Official login (`app/official_login.rs`, `transport.rs`, `process_identity*.rs`) | sessions, process tree, marked homes | cancellation races completion; a child outlives the daemon | each login ends once and leaves nothing behind | `OfficialLogin` |
| Native credential locks (`native_auth/locks.rs`) | lock directories | every call names a path, and what it finds may be another directory; inode numbers come back | one holder, as long as one lock path never went stale | `NativeLocks` |
| Legacy claim (`app/legacy_config.rs`) | staged claims | edits, peers and crashes between stage and record | only hsin's own last write is adopted | `LegacyClaim` |
| Client files (`config.rs`) | `config.toml`, `auth.json`, `settings.json` | edits of text that belongs to the user | what hsin owns changes, and nothing else | `ClientFiles`, `SettingsText`, `CodexText`, `ClaudeMapping` |
| Proxy runtime (`proxy.rs`, `app.rs` 2542-2740) | settings, listener, watch channels | polling against a listener that comes up late; rollback that ignores errors | settings, listener and client files agree | `ProxyRuntime` |
| Proxy requests (`proxy.rs`) | permits, a request's snapshot | edits while a request is on its way | one revision of one provider; permits come back | `ProxyRequest` |
| Daemon lifecycle (`main.rs`, `app.rs` 354-370) | shutdown notice, three serving tasks | a notice wakes only waiting tasks | shutdown ends every loop; a start survives every crash | `ProxyRuntime`, `OfficialLogin`, `Providers` |
| IPC session (`rpc.rs`, `hsin-ipc`) | handshake, calls in flight | late answers, other versions | no call before hello; an answer is for its call | `IpcSession` |
| Usage (`usage.rs`) | events, cursors, rollups, quota readings | logs cut, moved and rewritten while they are read; two sources of one event; a repair that skips files and is done | each request is counted once for each source with a key of its own; history outlives its events | `Usage`, `UsageObserver`, `UsageQuota`, `UsageReport` |
| Pricing (`pricing.rs`) | price rules of three sources | precedence | the user's price wins | `UsageReport` |
| Database (`db.rs`) | the tables above | upgrades that are killed | an opened database is up to date and has a copy | `SchemaMigration` |
| Service, bootstrap, updater (`service.rs`, `hsin/src/bootstrap.rs`) | binary, definition, sealed key, instance lock | commands that meet or die | a registered service can start; a command does what it says | `ServiceInstall` |
| Terminal interface (`tui.rs`, `state.rs`, `effects.rs`) | pages, dialogs, two channels, a worker | answers that do not say what they answer; keys on their way | nothing happens that the user did not choose, and no form is lost | `ClientScreen`, `ClientHome`, `ClientForm`, `ClientSettings`, `ClientStats` |
| Command line (`hsin/src/app.rs`, `cli.rs`) | none | its way to a daemon, its retries | | `ConfigTakeover`, `ServiceInstall` |
| Network proxy selection, models, paths, wording (`network_proxy.rs`, `model.rs`, `paths.rs`, `i18n.rs`) | none | | | data; the outbound proxy is in `ProviderDrafts` |

How they interact: the command line and the terminal interface send calls to the
daemon; `App` runs every operation that changes something under one `mutation`
mutex per daemon; within it, `begin_config_transaction` takes the directory lock
that all daemons share. `takeover_configuration` holds neither while it calls
the owner's daemon over its socket. The proxy, usage collection and login
children run as their own tasks and meet the operations in the database.
`export_recovery_key` and `doctor` run without the mutex. The terminal
interface's screen and worker are two tasks joined by two bounded channels.

The hazards these behaviours raise, each at its source line and with the
properties that watch it, are listed in `PROJECT.json`, and so is what is left
out of each component.

## Modules

| Module | What it is |
|---|---|
| `OwnershipState` | variables of one shared Codex directory and of the instances that compete for it; what an instance reads before it acts |
| `ConfigWrite`, `ConfigRelease`, `ConfigTakeover` | the saga of one instance, the release at the owner, the takeover at the requester |
| `ConfigOwnership` | composes the three with crashes, restarts, logins, refreshes, edits and lost calls; properties, inductive invariant, fairness |
| `DirectoryLease` | the abstract specification that `ConfigOwnership` implements |
| `ConfigOwnershipProofs` | its theorems |
| `KeyVault`, `KeyVaultProofs` | the master key, its rotation, and what reads and writes it; its theorems |
| `NativeAuth`, `OfficialSwitch` | the native credential stores; saved accounts and the switch between them |
| `LegacyClaim`, `NativeLocks` | adoption of a configuration without a record; lock directories shared with the clients |
| `Usage`, `UsageObserver`, `UsageQuota`, `UsageReport` | collection and rollups; the proxy's observer; estimates of a plan's allowance; reports and prices |
| `OfficialLogin`, `ProxyRuntime`, `ProxyRequest`, `IpcSession`, `Providers` | one each for what the daemon serves |
| `StoreProofs`, `UsageProofs`, `OfficialLoginProofs`, `DaemonProofs` | the theorems of these modules; `StoreProofs` has those of `LegacyClaim` and `NativeLocks`, `DaemonProofs` those of `ProxyRuntime`, `ProxyRequest`, `IpcSession` and `Providers` |
| `ClientScreen`, `ClientHome`, `ClientForm`, `ClientSettings`, `ClientStats` | the terminal interface: its two tasks, and its pages |
| `ClientProofs` | the theorems about the terminal interface, the model variables and deployment; it extends `MCClient`, whose properties join those of the pages |
| `ClientFiles`, `SettingsText`, `CodexText`, `ClaudeMapping` | the clients' files: what is written and read back, the text edits, the model variables |
| `ProviderDrafts` | what is accepted as a provider |
| `ServiceInstall`, `SchemaMigration` | deployment |
| `MCConfigOwnership`, `MCKeyVault`, `MCStores`, `MCDaemon`, `MCClient` and their `.cfg` files | instances for TLC |

The modules of `MCKeyVault`, `MCStores`, `MCDaemon` and `MCClient` share no variables: where
their parts meet in the code, each has its own view of the other's state (a
switch of accounts has its view of the journal, the proxy of the providers). An
MC module therefore runs one of them while the others rest, selected by the
variable `part`, which never changes: a run explores the disjoint union of the
instances, not their product. Algorithms without state are operators and recursive
functions; the MC module enumerates their inputs and compares each result with
a definition that says what it should be.

Definitions named `X_Something` or `X_Something_Else` below a "Mutant:" comment are deliberate
mistakes, used to confirm that a property notices them; no other definition
refers to them.

## Ownership and the configuration saga

**State.** The files are reduced to what the code compares. `config` is the
projection `ownership_fingerprints` hashes: the client's own, edited by the
user, or written by one instance for one kind of provider. `auth.val` is the
owned projection of `auth.json` (a native login or the managed placeholder),
`auth.rev` everything else that only the hash of the whole file sees. `record`
is the entry in `.hsin-config-owner.json` with its generation, owner, scope
(whether `auth.json` is covered), fingerprints and pending transaction. `db[i]`
is the database of instance `i`: lease receipt, backup and its marker, journal,
active provider, preservation setting, status. `proc[i]` is the operation that
holds the mutation mutex of instance `i`; its `pc` is the next durable write.
`call[r]` is the takeover coroutine of request `r`, `ask[r]` its durable
receipts at both ends, and `stray` the release calls still on the way whose
sender has given up.

**Granularity.** One action is one durable write with all the reads before it,
so that a crash, a login, an edit or the other instance's step can fall between
any two writes. Kinds of provider are `official`, `managed` (key in
`auth.json`) and `preserved` (managed provider with the client's own login kept).

| Code | Actions |
|---|---|
| `begin_config_transaction` | `Begin` (in `Switch`, `Reconcile`), `ClaimLease` |
| `apply_configuration_with_overrides` | `Journal`, `StartWrite`, `Backup`, `RequireBackup`, `WriteConfig`, `WriteAuth`, `FinishWrite`, `DropBackup`, `DropRequire`, `SetActive`, `CompleteWrite`; errors `UndoBackup`, `UndoRequire`, `FailWrite`, `Close`, `Abandon` |
| `recover_operations`, `recover_operation` | `RecoverWrite`, `RejectRecovery`, `RecoverRelease`, `EndRecovery`, then the same write actions in another order |
| `reconcile_client_auth_configuration` | `Reconcile`, `SkipReconcile` |
| `release_configuration` | `ServeRelease`, `ServeStray`, `JournalRelease`, `PendRelease`, `RestoreConfig`, `RestoreAuth`, `Reserve`, `Receipt`, `DropLease`, `DropReleasedBackup`, `DropReleasedRequire`, `FinishRelease` |
| `takeover_configuration` | `RequestTakeover`, `RetryTakeover`, `Unreachable`, `Claim`, `TakeLease`, `TakeReceipt`, `ClearTakeover`, `FinishTakeover` |
| environment | `Crash`, `Restart`, `Login`, `Refresh`, `EditConfig`, `LoseCall` |

**Steps merged.** Writes next to each other whose order no property can tell
apart are one action: active provider, mode and settings; finishing a row
together with the status it sets; dropping the lease with its status; closing a
release row with the deletion of its restore target; journalling a takeover
request with its preparation. The journal is read in the order of creation.
Merging loses the crashes between the merged writes only.

**Assumptions.** A takeover is retried with the request id it was posed with, as
the terminal interface does; a new command-line call is a new request. Lock
contention is possible whenever another instance runs; recovery and
reconciliation, which give up on it, may meet it as often as the `fail` budget
says. Edits of `config.toml` outside the keys hsin owns are kept by every writer
and left out.

**Properties.**

- `NativeLoginRecoverable`, `CoveredLoginIsKept`: the client's own login is in
  `auth.json` or in a backup the owner can restore, whatever crashes. A login is
  covered if nothing is in flight, the record covers `auth.json`, shows the login as
  drift, and no takeover stands between its check and its claim (`Moment`).
- `OnlyOwnerWrites`, `ConfigIsOwners`, `LeaseIsOwners`: only the recorded owner,
  holding the lock, writes; hsin's content is the owner's; receipts never run
  ahead of the record.
- `CurrentLeaseIsKept`: a late or replayed release never touches a newer lease.
- `SynchronizedIsTrue`: the status users see is true, unless an outside change
  raced one of hsin's own transactions.
- `OwnerMayWrite`: with no crash, nothing an operation leaves refuses the next.
- `LeaseSpec`: the whole protocol implements `DirectoryLease`, in which an owner
  leaves only by naming an heir after taking its configuration out.
- `OperationsEnd`, `HandOverCompletes`: progress.

`LoginAtRestIsKept`, `LoginAfterCrashIsKept`, `HandOverCanBeClosed`, and
`OwnerMayWrite` and `HandOverCompletes` under crashes, are what the repository
says and the code does not do: see [below](#what-the-checks-found).

## The master key

`KeyVault` models one daemon's key. A key is a number, minted in order; `store`
maps versions to keys in the key store; `record` is the current row of
`encryption_keys` (its verifier identifies the key); `vault` is the key each
secret is encrypted with; `material` is the key in memory, `NoKey` while the
daemon is locked. `task` is the operation that holds the mutation mutex, and
`probe` and `export` are a `doctor` and an `export_recovery_key` call, which do
not take it and fall between any two steps of the task. At most one of each runs
at a time. Every call of the key store or the database may fail (`Fail`, or the
failing branch of the action), the daemon may die between any two writes, and
the key store may lose the current key.

| Code | Actions |
|---|---|
| `CryptoManager::initialize` | `Start`, `StartFresh`, `InitializeRecord` |
| `rotate_key`, `CryptoManager::rotate` | `Rotate`, `RetryDelete`, `RetryClear`, `ReadSecrets`, `StoreKey`, `Commit`, `LoadKey`, `DeleteOld`, `ClearCleanup`, `Unmark`, `UndoStore` |
| `import_recovery_key` | `Import`, `ImportStore`, `ImportLoad`, `ImportMark` |
| `add_provider`, `remove_provider` and other writers of secrets | `PutSecret`, `DropSecret` |
| `export_recovery_key` and its answer | `ExportKey`, `MarkHeld`, `AnswerExport` |
| `doctor` | `Doctor`, `DoctorDelete`, `DoctorClear` |

Two history variables say when a property must make an exception: `outrun` when
doctor cleared a cleanup it had not seen, `blurred` when an export was overtaken
by a rotation or lost its answer, or a rotation ended after its commit without
reaching its last step.

**Properties.**

- `KeyIsStored`: the daemon never deletes or overwrites the current key's entry.
- `SecretsAreCurrent`: every secret is encrypted with the recorded key.
- `OldKeysAreCleaned`: an old key stays in the key store only while its deletion
  is pending (unless `outrun`).
- `RecoveryMarkIsTrue`: a recovery key reported as exported is one the operator
  holds and an import accepts (unless `blurred`); `RecoveryKeyIsHeld`, the same
  without the exception, does not hold.

## What the daemon keeps

These modules run under `MCStores`, the lock directories with the master key under
`MCKeyVault`.

### Saved accounts

`NativeAuth` is the credential store of an official client: `backend` is its
layout (Codex: file, keyring or both; Claude: file, or keychain with the file as
its fallback), `disk` the credential in each place and, for Claude, the account
named in `.claude.json`. A credential is a login session with the number of its
refreshes; the OAuth server accepts the newest only. `OfficialSwitch` has the
vault of saved accounts with revisions, the baseline the last switch applied, the
journal `ops`, and the operation `switch` that holds the mutation mutex.

| Code | Actions |
|---|---|
| `prepare_official_auth_transition` with `capture_outgoing_account` and `capture_native_official_account` | `BeginSwitch`, `SwitchWithoutAccounts`, `CaptureOutgoing`, `MarkOutgoing`, `CaptureNative`, `MarkNative`, `OpenJournal` |
| `apply_official_auth_transition`, `rollback_official_auth_transition`, `NativeAuthStore::apply_state` | `CheckApply`, `CheckRollback`, `WriteCredential`, `WriteFallback`, `WriteMetadata`, `VerifyWrite`, `FailWrite`, `Applied`, `RolledBack` |
| `apply_configuration_with_overrides`, `commit_official_auth_transition`, `clean_official_transition`, `recover_operation` | `WriteConfiguration`, `FailConfiguration`, `Commit`, `Finish`, `Restart`, `RecoverOldest`, `Recovered`, `RetryRelease` |
| `save_official_account`, `remove_provider`, `capture_existing_official_accounts` | `ExplicitLogin`, `RemoveAccount`, `BeginInspection` |
| the client | `Refresh`, `NativeLogin`, `KeyringFlip` |

`AccountsAreWhole`: the places that together make one login name one account
whenever nothing is pending, and each saved account holds logins of its own.
`LatestIsKept`: the newest refresh of a saved session is in the vault or still in
the store. `NothingForeignIsReplaced`: a switch overwrites only what it recorded.
The exceptions are spelled out in `history`: an operation that was given up after it
wrote to the store (`half`), an account whose save was not followed by the mark of the
native state (`torn`, a crash between two transactions), a session that a switch gave
back to the client as its own login (`handed`), and a credential that another login
replaced or that a switch of Codex's keyring cleared (`dropped`). The API-key fields of
`auth.json`
are abstracted; the window between the last comparison and the rename or keyring
call is one step, so a client that writes within it is not seen.

### Legacy claims

`LegacyClaim` is the migration that every start runs for each client: what the
journal proves (`LookForLegacy`, `ProveClaim`, `Fingerprint`), the transaction that
stages lease, receipt and rebound backup (`StageClaim`), the record that is
published in the shared directory (`PublishClaim`) and the receipt that is
forgotten (`ForgetReceipt`). The look at the claim is made without the directory lock,
`LockTarget` takes it, and everything is looked at again. `StopMigration` is a crash or
an error, `MigrateAgain` the next start; `UserEdits` falls between any two steps and
`PeerClaims` between any two at which the lock is not held.
`ClaimsAreSound` says that only hsin's own last write is adopted, that a record
has its lease and its backup, and that no lease is left alone. Excluded: the user
restores the very bytes of hsin's write within one migration.

### Lock directories

`NativeLocks` takes Claude Code's proper-lockfile leases. Every system call is a step:
`mkdir` (`AcquireLease`), a look at a stale directory, a second look and `rmdir`
(`ObserveStale`, `ConfirmStale`, `RemoveStale`), `mkdir` again (`RemakeLease`), the `stat`
that gives the lease its identity and the `open` that must find the same (`StatLease`,
`OpenLease`), the removal of what could not be opened (`UndoLease`, `UnmakeLease`), the
heartbeats, and look and `rmdir` of the release (`DropLease`, `UnlinkLease`). Each names
a path, so that it meets whatever directory is there by then. A directory has an inode
number, which may be used again for a later one unless somebody has the directory open
(`OpenInodes`). When and by whom a directory was made (`made`, `by`) and which paths ever
had a stale one (`stalled`) are seen by nobody; they are there for the properties.

`LocksAreExclusive` says what the protocol gives. A directory that was taken away is
never mistaken for one made later under its number (`LostLeaseIsNoticed`). Two processes
find the same directory theirs only where one had gone stale, and one of them did not
make it (`SharedLeaseWasAbandoned`). Two processes pass `check()` together only if this
is so on every path: one path that never went stale keeps all others out
(`OneSoundLockExcludes`). Who removes a directory found it stale twice
(`ConfirmedWasStale`), which does not mean that it is the one it removes. Full exclusion,
`CheckedIsExclusive`, does not hold and no run claims it
([below](#what-the-checks-found)). The mutant lets go of open directories.

### Usage

`Usage` has one session log of one client, which may be appended to, left in the
middle of a line, archived and rewritten; the cursors; `events` with their
deduplication keys; rollups per hour and the days marked dirty; and the tasks that
hold the collection mutex: synchronisation with the queries that ask for it
(`BeginSync`, `ReadLine`, `SaveCursor`, `CleanUp`, `Collect`, `Refreshed`, `RollUp`),
the first start and its backfill (`Start`, `SaveFirst`, `Backfill`), the repair of
events without a model (`BeginRepair`, `RepairLine`, `EndRepair`), and the answers
the proxy observes (`Observe`, `Record`). A file may fail while it is read (`FailFile`):
a synchronisation leaves its cursor where it was, the repair drops the error. The repair
may also pass over the log, because it was moved after the files were listed or looks too
old (`SkipRepair`). In both cases it is marked as done; `meta.unread` notes, for the
properties only, that the log was not read to its end.

An answer that passes the proxy is a stream or, for Claude, one whole message
(`answer[r].whole`). The proxy takes the message's identifier from a stream only, so that
the key of any other answer (`ProxyKey`) is not the one the session log gives.
`UsageIsCounted` says accordingly that each request is counted, once for each source: what
the log or the proxy says of it is one event under its model, and at most one under none;
once the repair has read the log there is one event in all, unless the request passed the
proxy under a key that cannot meet the session's, and no event is without its model.
`RollupsAgree` and `HistoryIsKept` say that a day that is not marked dirty is rolled up as
its events are, and that a day outlives its events unchanged. Excluded: a log rewritten while it is being read, a message logged on
two days (with `Straddles = TRUE` TLC finds `RollupsAgree` violated, and the theorems
about it have `~Straddles` as a hypothesis), a day that
leaves retention and is dirty at that very midnight. Routes and the attribution of
sessions to providers are not modelled.

`UsageObserver`, `UsageQuota` and `UsageReport` have no variables. TLC enumerates
their inputs, and `UsageAddsUp` compares: a stream is counted once wherever its
chunks cut it; the allowance of a plan lies in the range that is estimated for it,
also when readings lag, name no account or come from Claude, whose usage is
credited from requests; every breakdown of a report adds up to its summary; a
user's price wins and edits leave the other rules alone; totals that start again
are counted in full; cached input is counted once.

## What the daemon serves

These modules run under `MCDaemon`, and two of them under `MCProgress` with
fairness.

`OfficialLogin`: `session` is what the daemon reports, `worker` the task of each
login, `home` the isolated directory with its marker, `tree` the process tree,
`caller` the cancel call. `Prepare`, `SpawnProbe`, `Probed`, `SpawnLogin`, `RecordPid`,
`RecordStart`, `ShowBrowser`, `PasteCode`, `ForwardCode`, `LoginEnds`, `StopTree`,
`CaptureLogin`, `SaveLogin`, `CleanHome` are `run_official_login` step by step, with a
fault possible at each that can fail; `AskCancel`, `BeginShutdown`, `DaemonDies`,
`StartDaemon` come from outside. `LoginsAreClean`: a home outlives the processes that
write there, a process that outlives its daemon is named in a marker, a cancelled
login saved nothing, a saved account is reported unless the database fails when it is
read again right after the commit. A process id that was used again
and Windows job objects are not distinguished.

`ProxyRuntime`: `setting` in the database, `runtime` in the watch channel, `server` the
loop of `proxy::serve`, `handler` the steps left of `set_connection_mode`,
`set_proxy_enabled` or `update_settings`, `clients` their configurations, `life` the
three loops and the shutdown notice. A handler is a list of steps, so that a
failure may fall on any of them and the rollback is the list it leaves.
`ProxyIsCoherent`: when no handler runs, listener, settings and the files of proxied
clients name one address. `ListenerFollows`: an enabled proxy is served once its
address is free, a disabled one falls silent, an update ends. Database writes are
assumed to succeed, except that host and port are two of them; the configuration of
a client is written in one step, whose detail is in `ConfigWrite`.

`ProxyRequest`: one request from its permit through authorization, the snapshot of
provider, network and password, the rewriting of an image request and the stream,
against edits between any two. `IpcSession`: one connection to a daemon of this
version, of the first with hand-overs or of the last without, with calls that time
out while their answer is on its way. `AnswersAreOwn` joins them: permits come back,
what is sent is one revision of one provider, an answer is for its call, and the two
ends agree on what the connection may do.

`Providers`: rows with revisions, active and image provider, mode, the client's
`file` as far as it names a provider, the journal, and the `job` that holds the mutex.
Every handler that changes a row is an action (`Add`, `EditProvider`, `Remove`,
`Switch`, `SwitchImage`, `ChangeMode`, `Import`) followed by the steps it shares with
the others; `Crash`, `Recover`, `Initialize`, `ReconcileAuth`, `ReconcileProxy` are the
restart, `UserEdit` the user. `ProvidersAreCoherent`: what a synchronized client names
exists in that revision, active and image provider exist and serve, modes agree, the
journal does not grow with failures, and revisions grow. One ghost, `assumed`, marks a
client that a switch called synchronized although its last write had failed; what it
excepts is told [below](#what-the-checks-found). The recovery of one operation is one step; its detail is in
`ConfigWrite`.

## What the user has in front

These modules run under `MCClient`.

`ClientScreen` has the terminal interface's two tasks: `reduce` on keys and answers,
the worker of `effects.rs` with one effect at a time, the two channels between them,
the takeover dialog, forms on their way and official logins. `WorkerObeys`: when the
worker ends, no login is left running that nobody waits for, and a takeover is what
the user moved to "take over" for. `FormIsKept` (in `KeysAreMeant`): a form in a
request is sent or comes back, unless the user went on without waiting.

The pages are modules of their own. `ClientHome`: sections, cursor, filter and armed
deletion. `ClientForm`: the fields of a provider form and the model, image, mapping
and listing pages it goes through; ghosts record what the user entered last.
`ClientSettings`: every settings page with what it sends. `ClientStats`: the query of a
statistics screen and answers to earlier ones. In all of them, answers arrive late
and another client changes what the page shows. `PagesAgree`: what is sent is valid,
a settled statistics screen shows what it asks, the cursor is on a row.
`KeysAreMeant`: a second key confirms only what the first armed, an edit names a
revision the user has seen. Not modelled: the pricing page, the caret within a text
(except where it undoes a clearing), rendering.

`SettingsText` and `CodexText` are the editors of `settings.json`, `auth.json` and
`config.toml`: sequences of tokens and of lines, and the positions the code computes.
`EditsAreExact` compares each edit, over many layouts of comments, blanks and commas,
with a definition that says what the result means. Duplicate keys, TOML values over
several lines and a file without a final newline are abstracted. `ClientFiles` is what is written for a
target and read back. `ClaudeMapping` is the snapshot of the model variables through
switch, crash and recovery; user edits of variables in hsin's scope are excluded, and
`HsinIsNotTheUser` says that nothing hsin wrote is kept as the user's.

`ProviderDrafts` is normalization and validation, with patches and shared proxies;
`DraftsSettle` says that what was stored can be stored again, that a model list is
fetched the way the provider will be, and that a form sends what was entered.

`ServiceInstall`: commands of two releases that meet in binary, definition, sealed
key, database and instance lock, may be killed anywhere, and a service manager that
restarts a failed daemon. `SchemaMigration`: opening a database of any version, with
its copy, killed anywhere. `DeploymentIsWhole`: a registered service can start, a
command that ends well did what it says, an opened database is up to date and one
that was changed has a copy. Excluded: uninstalling while another command runs,
importing the recovery key of another database, `install` without `--start`, a
user-scope client that reinstalls a system service.

## Runs

| Run | Instance | Checks |
|---|---|---|
| `MCCrash` | one request; (2,2,1,0,0,0) | `NativeLoginRecoverable`, `CoveredLoginIsKept`, `LeaseIsOwners`, `FullInv`, `OnlyOwnerWrites` |
| `MCRace` | one request; (2,0,1,1,1,1) | `SynchronizedIsTrue`, `OwnerMayWrite` |
| `MCLease` | two opposite requests; (2,1,0,0,0,1) | `ConfigIsOwners`, `LeaseSpec`, `CurrentLeaseIsKept` |
| `MCTermination` | one request; (2,1,0,1,0,1), `DaemonSpec` | `OperationsEnd` |
| `MCHandOver` | two opposite requests; (2,0,0,0,0,2), `FairSpec` | `HandOverCompletes` |
| `MCKeyVault` | keys: two secrets, three versions; one crash, two failures, one loss; locks: 2 processes, 2 paths, 3 inodes, 4 modification times | `Inv`, `KeyIsStored`, `SecretsAreCurrent`, `OldKeysAreCleaned`, `RecoveryMarkIsTrue`, `LocksAreExclusive` |
| `MCStores` | accounts: 3 sessions of 2 accounts, one refresh, every layout, `MixedBudget` (4 events); claims: 1 edit, 2 restarts; usage: 2 requests, 3 lines, 1 fault, 2 days | `AccountsAreWhole`, `LatestIsKept`, `NothingForeignIsReplaced`, `ClaimsAreSound`, `UsageIsCounted`, `RollupsAgree`, `HistoryIsKept`, `UsageAddsUp` |
| `MCDaemon` | 2 logins, 2 faults; 2 addresses, 2 requests, 1 fault, 1 restart, 1 move; 3 versions, 4 calls; 2 proxied requests, 1 permit; 3 providers, 3 handlers, 1 fault, 1 crash, 1 user edit | `LoginsAreClean`, `ProxyIsCoherent`, `AnswersAreOwn`, `ProvidersAreCoherent` |
| `MCProgress` | 2 logins, 1 fault; 1 request, 1 restart, 2 moves | `CancelEnds`, `ListenerFollows`, `ShutdownEndsIfHeard` |
| `MCClient` | 4 to 7 keys a page, channels of 2, 3 mapping jobs, 2 commands, 3 kills, every database version | `PagesAgree`, `WorkerObeys`, `KeysAreMeant`, `EditsAreExact`, `HsinIsNotTheUser`, `DraftsSettle`, `DeploymentIsWhole` |
| `MCStartup` | providers as in `MCDaemon` | finds `StartupSurvives` violated |
| `MCEditsSucceed` | texts as in `MCClient` | finds `EditsSucceed` violated |

The tuples of the ownership runs are (switches, crashes, logins, refreshes, edits,
failures), with two instances. Every bound is a budget the environment spends, never
a cut in the program's own steps.

Why the bounds are enough: two switches are a managed one and the one that undoes
it, or one by each owner; two crashes are a crash of the operation and of its
recovery, or of both sides of a hand-over; two opposite requests are the shortest
way back to a former owner, where replays could do harm; one login, refresh and edit
each meet every pair of writes. Three key versions are two rotations, which a
pending cleanup of the first needs to meet the second; two secrets let one appear or
go between a rotation's read and its commit. Three sessions of two accounts are an
account that logs in again and one to switch to. Three inodes are two processes'
directories and a number that comes back; four modification times are enough for two
processes to share a lease and even to pass `check()` together, which TLC finds when
`CheckedIsExclusive` is named in the `.cfg`. Three lines and two requests are a request
whose count grows and another that follows it; that a Codex answer is counted by the proxy
and again by the log needs a fourth, for the model in force changes in between
(`ProxyTakesPrecedence` [below](#what-the-checks-found)). Two logins meet in shutdown and
restart only. One permit and two requests fill the semaphore. Three providers are
the built-in one, the active one and one to change to. Six keys open a page, change
it, send it, and go on before the answer arrives.

All runs but `MCKeyVault` and the violations switch deadlock checking off, because
the budgets end every behaviour: once they are spent an idle system has no step left.

## Fairness

`DaemonSpec` assumes weak fairness of what an instance does on its own once an
operation or a start has begun (`Daemon(i)`): the code between two awaits runs,
and Tokio polls every task. Users, peers and the environment are never fair.

`FairSpec` adds two assumptions, used only for `HandOverCompletes`. A dead
daemon is restarted: `service.rs` installs it with `KeepAlive` (line 497) and
`Restart=on-failure` (539, 586). A requester keeps asking, with strong fairness
because a retry is refused while a peer holds the lock; this is what a user or
the terminal interface's takeover effect does, not something the daemon promises.

`LoginFairness`: a login's worker runs, and its client's process ends or is stopped.
Every await of the worker has a time limit (probes 10 s, the login 15 min, stopping
a tree 5 s), and `select!` polls its branches in random order, so a cancellation that
was sent is heard. The user, who may never finish in the browser, is not fair.

`ProxyFairness`: the listener's loop, the running handler and the daemon's three
loops run. Other programs, users and restarts are not fair; that a taken port
becomes free is the premise of `EnabledIsServed`. A shutdown ends the daemon only if
every loop was waiting when it was announced: `ShutdownEndsIfHeard` has that premise
and [below](#what-the-checks-found) says what happens without.

## Proofs

TLC checks the instances above. The theorems hold for every value of the constants:
any number of instances, requests, logins, secrets, processes, paths, lines, days and
calls, and any budgets. They rest on the named assumptions of the modules, which TLC
evaluates in the runs: `InstancesAssumption`, `RequestsAssumption`,
`LoginsAssumption`, `BoundsAssumption`; `VersionsAssumption`, `EventsAssumption`;
`LocksAssumption`; `LoginAssumption`; `RequestAssumption`, `IpcSessionAssumption`,
`ProxyRuntimeAssumption`, `ProvidersConstants`; `UsageConstants`; `CredAssumption`,
`GenAssumption`, `AccountsAssumption`, `OccasionsAssumption`, `TargetsAssumption`;
`SettingsConstants`, `StatsConstants`, `HomeConstants`, `ScreenConstants`,
`MappingConstants`, `ServiceConstants`, `SchemaConstants`. They say that the special values
are none of the ordinary ones, that each request has a requester and the built-in provider
is one of the providers, that the clients are finitely many and the catalogue of providers a
sequence, that bounds are natural numbers (a log may have two lines, a lock has a path, a
provider a revision), and that a database found on disk has a version at most one ahead.
`MappingConstants` also says that the user's values differ from those of the mappings: hsin
keeps no note of who wrote a value, and a user who writes the value of a mapping himself
cannot be told from it.

Each module proves one inductive invariant, with a lemma per conjunct and a step per
action, because the properties alone say nothing of an operation in progress.

**`ConfigOwnershipProofs`.** `Inv` adds that only the holder of the lock is between two
writes (`LockHeld`) and is the recorded owner or finishes a release (`HolderOwns`);
that a release serves the request that named its generation (`ReleaseServes`,
`CallsServed`, `RowsServed`); that what a request saw stays true until the generation
moves on (`RequestSeen`); what a directory without an owner looks like
(`Reservation`); that a release takes the configuration out before it hands over
(`ConfigIsOut`); and that the backup is there before the key is written and goes after
the key is gone (`BackupFirst`). From it follow `TypeCorrectness`,
`ConfigurationIsOwners`, `LeasesAreOwners`, `LoginsAreRecoverable`; the action
properties `WritesAreOwners` and `LeasesAreKept`; and `Refinement`, that every step is
a step of `DirectoryLease` or a stutter.

`FullInv` is `Inv` with three more parts, for the two promises users see.
`LoginIsSafe` says where a login made at rest and covered by the record is (in
`auth.json`, or in the owner's backup while the key is in the file), and that a backup
which could still be put over it either holds it or belongs to an owner whose record
refuses (`Refused`): the record's fingerprint differs from the file, nothing is pending,
nobody is between two writes, and no takeover by the owner itself is past its check.
`RefusedStays` shows that this lasts until the user logs in again. `BackupsPast` keeps
an old backup from counting as one of the next generation. `StatusIsShown` follows the
saga: a row of the journal is there from its first write on (`Told`), the record is
marked with what is going on (`Marked`), the files are as far as the step says
(`FilesWritten`), and a record without a mark shows what the active provider makes of
the files (`ShowsActive`). `CoveredLoginsAreKept` and `StatusIsTrue` follow; both hold
through any crashes.

`OwnersMayWrite` has a hypothesis, `Budget["crash"] = 0`, because it is false with
crashes ([below](#what-the-checks-found)). Its invariant `NothingIsLeft` says that a
backup is the owner's, of its lease, or belongs to a release that holds the lock and is
about to remove it; and that the marker of the present lease has its backup, but for the
step between the two deletions.

**`KeyVaultProofs`.** `Inv` says that nothing runs in a daemon that is down (`Quiet`),
deletions aim at older versions than the current one (`OldVersions`) and what was
deleted stays deleted until its cleanup is cleared (`Deleted`), a rotation works with
the recorded key until its commit and with the new one after it (`TaskKeys`), budgets
only shrink (`Spent`), and an export that has marked the key hands over the recorded
one (`Marked`). `KeysAreStored`, `SecretsStayCurrent`, `OldKeysAreForgotten` and
`RecoveryMarksAreTrue` follow.

**`StoreProofs`.** `ClaimInv` says what a migration that is under way has seen: until it
has staged its claim nothing is kept, and from there on lease, receipt, backup and
fingerprint are those of one claim. `ClaimsStaySound` follows, and `PeersRecordStays`,
that the record of another instance is never replaced. `LocksInv` says that what a path
names under the number of an open directory is that directory (`LeasesAreTheirs`), since
the number cannot come back while somebody has it open; that who takes the next lease has
all before it (`EarlierAreHeld`); that stamps are in the past (`StampsArePast`), so that
what still has the time that was seen has not been touched since (`SeenStaysStale`); and
that on a path that never went stale what there is belongs to the one process that made
it (`SoundPathsKeep`). `LocksExclude` follows, for any number of processes and paths: on
such a path two leases would have two makers (`SharedLease`), and a holder has a lease on
every path.

**`OfficialLoginProofs`.** `LoginsInv` relates session, worker, home, marker and process
tree at each step of the worker: the marker is written before the process starts and is
removed with the home, after the tree has ended; a cancellation that was accepted is
seen before the account is saved. `LoginsStayClean` follows.

**`DaemonProofs`.** Four invariants, for four modules that share nothing. `RequestInv`
gives every permit one place, so that they add up, and every snapshot a revision that
was once in the store. `IpcInv` says which call an answer in the pipe belongs to.
`ProxyInv` says what each list of remaining steps means for settings, listener and
clients: a handler that has failed is left with the list that restores what it found.
`ProvidersInv` says that a job that writes has the row it writes for, and its journal
row is the last (`JobKnows`); what the client is told to use is what the database says,
unless a write is under way or a crash has left a row that recovery will not merely drop
(`WillAgree`: completing it makes them agree, anything else marks the client); the
images a proxied Codex client offers are those of the availability the job has seen
(`ImagesAgree`); and every journal row left behind has cost a fault or a crash
(`JournalIsShort`). `AnswersStayOwn`, `ProxyStaysCoherent` and `ProvidersStayCoherent`
follow.

**`UsageProofs`.** `UsageInv` says what the log, the cursors, the events and the running
tasks know of each other: the parser's state after the line of the cursor is the one a
parser would have that started at the first line (`ReaderKnows`, `CursorsKnow`), an
event carries the model in force at its line (`EventsKnow`), and one task at a time
writes (`TasksExclude`). `CoverInv` adds that a request is logged on one day (`OneDay`)
and that what lies before a cursor is among the events or was deleted with its day
(`CursorsCover`). `UsageStaysCounted` and `UsageStaysUnique` follow; what they say of a
repaired database has the premise that the repair read the log (`~meta.unread`). `HistoryStaysKept`
and `RollupsStayTrue` have invariants about the days (`ListsAreKept`, `DaysAgree`): a
day that the current roll-up has summed and not yet cleared was not written meanwhile,
or is marked again. `UsageStaysCounted` and `RollupsStayTrue` assume that no message is
logged on two days (`~Straddles`); the other two do not.

**`OfficialSwitchProofs`.** A credential may be in a place of the store, in the vault,
the baseline, a journal row or the observation of the running step; `SwitchInv` relates
them. The row being served is pending, and recovery works only on rows that were there
when it began (`ServedIsPending`); what a capture saves belongs to the account it is filed
under (`CapturesFile`); nobody knows a refresh before the client got it (`OnlyIssued`); a
write starts from what the row recorded (`WritesFromRecorded`), and a row with the current
revision has that revision's credential (`StatesAgree`). Its last part holds as long as no
operation was given up after it wrote (`WholeParts`): whatever is filed, journalled or
read names one account, a store that does not is one that a row under way has written
one half of (`MixedIsUnderway`), and metadata is written and verified only behind the
tokens it belongs to (`ClaudeIsWritten`). `AccountsStayWhole` follows, and
`OnlyRecordedIsReplaced`, which needs the first parts alone and so holds with crashes,
failures and operations that were given up. It is the conjunct `ReplacesOnlyRecorded` of
`NothingForeignIsReplaced`; `PeersRecordStays` is about the other one.

`LatestInv` adds where the newest refreshes are. `LatestIsKept` alone is not inductive: the
next capture saves a refresh only if the store is still linked to the account by the applied
or the imported revision, and recovery may write a snapshot that was made long ago. So what
the store has is the newest there is and linked to its account, or a row under way put it
there (`StoreIsSettled`); the vault or the store has the newest of each account that is still
promised (`KeptInPlace`); no row recorded a newer refresh than the vault has
(`BeforeIsSaved`); what a capture read is current, or the client has gone on since
(`CaptureIsCurrent`), and is in the vault before the row is opened (`CaptureSaves`); what a
row has written is the vault's, or a later refresh of it (`AppliedIsCurrent`), and what a
rollback would restore is as settled as it was (`RollbackIsSettled`). `LatestStaysKept`
follows for the layouts that keep the login in one place (`PlacesFit`): both of Claude's,
Codex's file and Codex's keyring. A restart between a save and its mark shows why `torn` is
among the exceptions: the account is saved, and no longer linked (`RestartTears`).

**`ClientProofs`.** The parts of `MCClient` share no variable, so a step of one keeps the
invariants of the others (`EachActs`), and each page has its own. `WorkerInv`: every login
that goes on is among the worker's jobs while it lives, and a dialog whose answer is "take
over" is for the operation the user moved it for. `SettingsInv`: the settings shown, those
of the daemon and those in every request are whole and valid, the order of the clients is
one at each moment of a move, and a preset that is edited is not armed. `StatsInv` follows
an answer back to its question: for whatever the page does not show yet, the last question
in the queue is the one it would ask. `HomeInv`: the cursor is on a row of what is listed,
whatever filter, load or change made elsewhere shortened the list, and an edit or a
removal, in a dialog or in the queue, names the revision of the values the user saw.
`PatientInv` is about a user who waits: one effect, one answer, or a notice and the answer
behind it is on its way (`OneAtATime`), and what is on its way fits the page that waits
for it (`EffectFits`, `AnswerFits`): an operation the list, a discovery its form, a login
its dialog. `PagesAgree`, `WorkerObeys` and the three action properties of `KeysAreMeant`
follow.

`MapInv` is about the model variables. What stands in the file and is hsin's is what the
active mapping says (`WrittenFor`), with a snapshot of all keys behind it. A job under way
has a target whose snapshot holds only the user's values (`TargetFits`); once the file is
written it agrees with the target (`Took`), and patching it again would change nothing,
which is how recovery tells a write that happened from one that did not. A daemon that died
has left either, or no journal row (`DeadIsKnown`). `HsinIsNotTheUser` follows.

`ServiceInv` says for each place of a command what it may rely on there: the files, the lock
and the process as it left them, as long as no other command has acted since it began
(`AloneFits`, `WorkFits`), and what holds among any number of commands: a definition has its
binary and its sealed key, the lock held for the daemon is a live daemon's. `SchemaInv` says
that the file has the columns of its version (`ColumnsFit`) and that an opening that may
change it has its copy of this second (`OpeningFits`); pruning removes the oldest copy, which
is another one when there are more than three (`OldestIsOther`). `ForerunnerIsCreated` goes
through the thirteen migrations, two of which make a table anew, and shows that they end in
what a new installation creates. `DeploymentIsWhole` follows, its action property included.

Only model-checked: `LatestIsKept` of `OfficialSwitch` for `codex_auto`, where the place of
the login changes with the keyring and a row may find it elsewhere than it recorded it;
`EditsAreExact`, `DraftsSettle` and `UsageAddsUp`, whose operators compute over data, which
would need induction; and all liveness, since the prover handles neither fairness nor
`ENABLED`.

## What the checks found

Two of these are runs that TLC must find violated, because the repository says
otherwise; `PROJECT.json` quotes where.

- **`StartupSurvives`** (`MCStartup`; `app.rs` 2632, 1383). Switching a proxied client
  to Official stores the active provider before the mode. After a crash between the
  two, the reconciliation at start meets the OAuth provider in proxy mode and returns
  an error it does not tolerate: the daemon never starts again, although `main.rs`
  277-279 says that this reconciliation may not take it down.
- **`EditsSucceed`** (`MCEditsSucceed`; `config.rs` 1873). Adding a variable to an
  `"env"` object that is empty over two lines repeats the text before its brace as
  indentation, and the edit is refused as invalid.

The others are counterexamples to properties that the modules state and the passing
runs leave out; each can be reproduced by naming the property and the budget or
specification in the run's `.cfg`.

Ownership and keys (`MCConfigOwnership`, `MCKeyVault`):

- `LoginAfterCrashIsKept` (`LoginAfterCrashBudget`; `app.rs` 416). Recovery refuses an
  interrupted switch because `auth.json` is neither the old nor the new file, but the
  reconciliation that follows begins a transaction over the pending one and
  overwrites the login.
- `LoginAtRestIsKept` (`LoginUnscopedBudget`; `app.rs` 1417). A crash between the
  journal row and the record leaves a scope without `auth.json`; the resumed switch
  completes so, and a later login is no drift. The property fails in a second way, which
  the attempt to prove `CoveredLoginIsKept` brought up (two requests of one instance, one
  lost call; `config_ownership.rs` 761-785): a takeover whose answer comes after the same
  instance has taken the directory over by another request claims it again, a claim by
  the owner does not look for drift, a login made in between becomes what the record
  expects, and the next switch to Official restores the older backup over it.
- `OwnerMayWrite` after a crash (`BackupMarkerBudget`; `app.rs` 1755). Between the two
  deletions of a backup the marker that requires it remains, and refuses every later
  transaction.
- `HandOverCompletes` after a crash (`HandOverCrashBudget`; `config_ownership.rs` 917).
  The resumed release compares `auth.json` with its hash from before the restore.
- `HandOverCanBeClosed` (same budget; `config_ownership.rs` 1017). After a crash between
  reservation and receipt, with a claim before the restart, the former owner no longer
  recognises the hand-over and keeps its row, lease and backup.
- `RecoveryKeyIsHeld` (`MarkBudget`, one secret, two versions; `crypto.rs` 362). A
  rotation that cannot delete the old key fails after its commit, and the mark of the
  exported key survives.

What the daemon keeps:

- `VaultHoldsOwnLogins` (`SwitchSpec`, `MixedBudget`). A Claude switch interrupted between credential
  and metadata, and then given up, leaves tokens of one account beside the name of
  another; the next capture files them under the wrong account. `native_auth.rs` 475
  leaves that to "the caller's journal".
- `SwitchCapturesLatest` (`SwitchSpec`, `QuietBudget`). A switch to native can hand the vault's
  credential of a saved account back to the client as the client's own login; the refreshes
  that follow are not saved by the next switch, which may then write the stale one, although
  `docs/security.md` 10 has every switch save the latest.
- The attempt to prove `AccountsAreWhole` and `LatestIsKept` brought up cases that
  histories of four events do not reach: a rollback that is itself interrupted leaves a
  mixed store; so does an operation given up where the keyring has become unreadable; and
  a switch that clears the inactive `auth.json` may discard the newest refresh
  (`native_auth.rs`, layout `codex_auto`). `history` names them.
- A failed apply leaves its operation pending; a later start replays it over what was
  chosen since.
- `CheckedIsExclusive` (`MCKeyVault`, the part `locks`; `locks.rs` 30-58, 207). A stale
  directory is removed by its name, and a lease is whatever its path names after `mkdir`.
  Two processes confirm the same stale directory; one removes it and makes its own, the
  other removes that one and makes another; both take the identity of the last. With a
  directory abandoned on every path both pass `check()`. The comments at 91 and 205, that
  a directory of another process or a replaced lease is never removed, are true only
  between the look and the `rmdir`.
- `ProxyTakesPrecedence` (`CollectionSpec`; `usage.rs` 876, 1436-1501, 1587). A Claude answer that is
  not streamed is counted twice: its event has a key of the proxy's and a correlation made of
  its tokens, the session's has the message's identifier. Streams are counted once. With
  `MaxLines = 4` a Codex request that passed the proxy is counted twice, too, when its log
  line is read under another key than the one `docs/architecture.md` 52 describes.
- A repair that passes over a file, or fails in it, is marked as done (`usage.rs` 564-575): its
  `unknown` events stay, and a request that is read again may be counted under its model,
  too. `UsageIsCounted` has `~meta.unread` as a premise.
- A login whose account is committed is reported as failed if the database cannot be read
  right afterwards (`official_accounts.rs` 168).

What the daemon serves:

- `StartupRetriesRemoval` (`LoginSpec`; `main.rs` 196, `official_login.rs` 326). A marker
  written before the spawn and without a process id ends every start.
- `SynchronizedIsChecked` (`ProvidersSpec`, `JobFaults = 2`; `app.rs` 1310-1320). A switch
  of a proxied Claude client writes nothing and calls the client synchronized. If a change
  to direct mode was interrupted by a crash, and its recovery and the reconciliation of the
  start both failed, the file still says direct while the stored mode is proxy: the next
  switch reports the client synchronized without having looked.
- `PasswordIsProxys` (`RequestSpec`). The outbound proxy and its password are read one
  after the other; a request may send the password of another setting.
- `ShutdownEnds` (`app.rs` 361). `notify_waiters` wakes only who waits: a loop that is
  handling an accept or a change misses the notice and the daemon stays.
- A call that timed out leaves its answer in the pipe of the terminal interface's
  one client: the next call fails with a mismatched id. An error of `accept` ends the
  RPC server and the daemon (`rpc.rs` 41). Enabling the proxy for one client that times
  out switches it off under another. `edit_provider` may return an error after its
  commit; an error of `config_credential` or `apply_codex_auth` leaves its operation
  pending; `recover_operations` drops an operation also when the key is merely locked.

What the user has in front:

- `EscapeClosesLogin` (`state.rs` 1014-1063, 2774-2783). Escape in a login page that waits
  for its start closes nothing.
- `UserValuesReturn` (`app.rs` 1604-1630). A switch extends the snapshot of the user's
  variables, the user then sets one that it covers, and the daemon dies before the switch
  has written: recovery restores the snapshot, and the user's newer value is gone, against
  `docs/architecture.md` 25.
  `ANTHROPIC_MODEL`, documented as never touched, is among `CLAUDE_MODEL_ENV_KEYS`
  (`lib.rs` 861).
- `KeyIsReachable` (`ServiceSpec`; `service.rs` 601-635). A system service interrupted
  between sealing and defining has a sealed key that no release reads.
- `RowIsListed` (`HomeSpec`, `HomeKeys = 40`, by simulation; `state.rs` 941-965, 3404-3441),
  which the attempt to prove `PagesAgree` brought up. The models of an image provider that
  arrive while a search is being typed replace the search bar; the filter committed before
  counts again, and the cursor, placed in the longer list, may be past its end until the
  next load: keys that act on a provider do nothing.
- The two tasks of the terminal interface wait for each other when both channels are
  full. Escape pressed twice queues two cancellations. There is one slot for the form a
  request came from, so that a refused form may come back on another form's page, as a
  plain form, or, after an image import, not at all. A discovered model list opens over
  whatever is up. The list page sends all client settings from a stale copy. An
  answer to an earlier request closes the upstream page. An add that timed out is
  restored and can be sent twice.
- In the provider form: Ctrl+U in the password box followed by a caret key forgets the
  clearing (`state.rs` 1537); the preset picker indexes a list that an earlier answer
  may have shortened, and panics (1323); a hidden context limit of 0 still refuses the
  form (3800); the cursor of the mapping list can go one past its end.
- In the text editors: a file with its commas first cannot be edited back,
  `child_indent` repeats a block comment before the first property, and
  `remove_property` drops a comment after the value.
- `lock_file_held` takes the instance lock for a moment, in which a starting daemon
  fails (`service.rs` 330-346). An outdated daemon is kept on the path through
  `wait_for_running` (`rpc.rs` 211). A clock that was set back makes `Prune` delete the
  copy just made.

## What is not modelled

In the modelled components: several targets in one request, quarantine of legacy
owners and record migrations; a key store that locks during a recovery; the
migration that follows an import of the key, several exports or doctor calls at once;
attribution of usage to routes; the limit of 16 IPC connections, frame lengths and
peer credentials; the order of all start-up steps in one module; the pricing page;
the background fetch of prices; download and verification of an update; the service
managers' own files. An encrypted snapshot that a crash leaves between its `put` and
`begin_operation` is an orphan nothing refers to, and is left out. Each MC part runs
with the others at rest, so an interaction of two parts is covered where a module
has a view of it, as said [above](#modules), and not otherwise.

Not modelled at all: the bytes of keys, verifiers and ciphertexts, header and body
rewriting by the proxy, `json_patch.rs`, rendering and wording, parsing and printing
of commands, IPC path resolution. `PROJECT.json` lists each component with what it
leaves out.

## Plan

The model is complete as far as it is planned; what is left are proofs.

1. `OfficialSwitch`: `LatestIsKept` for `codex_auto`, with a `StoreIsSettled` for each of
   the two places.
2. The lemmas about one step of the operators behind `EditsAreExact`, `DraftsSettle` and
   `UsageAddsUp`; the properties themselves need induction over data.
