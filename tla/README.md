# keysync in TLA+

Models, model-checking runs and machine-checked proofs for keysync, the daemon
that keeps directories of secret files equal to what a Keywhiz server holds.
The models are written from the Go source in `src/`; `PROJECT.json` maps each
definition to the lines it stands for.

## The system

| Part | Source | State | Operations |
| --- | --- | --- | --- |
| Sync of one client | `syncer.go` 364-489 | `SyncState`, the directory | list, validate, retrieve (batch, then one by one), write, verify, remove |
| Output directory | `write.go` 114-243, `output/write.go` | files of one client | `Validate`, `Write`, `Remove`, `RemoveAll`, `Cleanup` |
| Output collection | `write.go` 55-112 | directories under `SecretsDir` | `NewOutput`, `Cleanup` |
| Syncer | `syncer.go` 58-360 | `clients`, `syncMutex`, success timestamp | `LoadClients`, `RunOnce`, `Run` |
| API server | `api.go` | none of its own | `syncAll`, `syncOne`, `runBackup`, `status` |
| Keywhiz client | `client.go` | TLS client, counters | list, batch, single secret, retries |
| Secret | `secret.go` | none | file name, mode, owner |
| Ownership | `ownership/` | the system's users and groups, read | `NewOwnership`, look-ups |
| Configuration | `config.go` | client configuration files | `LoadConfig`, `LoadClients` |
| Bundle client | `bundle.go` | the secrets of a file | `SecretList`, `Secret` |
| Backup, restore | `backup/` | archive and wrapped key | `Backup`, `Restore` |
| keysync command | `cmd/keysync` | none | start, `Run` or one pass, exit |
| Unwrap and restore commands | `cmd/keyunwrap`, `cmd/keyrestore` | none | unwrap a key, `Restore` |
| Monitor command | `cmd/monitor` | none | four checks, mail |

The polling goroutine (`Run`) and one goroutine for each API request call
`RunOnce` or `syncOne`; `syncMutex` lets one of them at a time load the client
configurations, sync clients and clean up. Syncing a client asks the server for
a listing, compares it with `SyncState` and the files, asks for what is missing
and writes and removes files. The server's secrets, the client configurations,
the keys and the files change at any moment, every request and every file
operation can fail, and the process can die anywhere. Requests to `/backup` and
`/status` take no mutex: a backup reads the files while they are written, and
`/status` reads the time of the last success while a pass runs. The monitor and
`keyrestore` are processes of their own that see keysync through its files and
its `/status`.

Hard, and therefore what the properties are about: decisions taken on an older
listing than the answers; the fall-back from one batch request to many; a memory
(`SyncState`) that is wrong about the disk; what a failed pass, a killed process
or another writer leaves behind; removals that race with clients coming back;
files read one by one while others edit them (configurations, backups, the
monitor's checks); look-ups that fail for a moment and are never repeated; late
and lost answers in a retry loop; two backups, or a restore and another writer,
at once.
`PROJECT.json` lists each hazard at its line.

## Modules

- **Secrets** - secrets, files and what it means for a directory to mirror a
  server. A version stands for content bytes, checksum and hash; attributes
  stand for owner, group and mode. File names with a path separator
  (`Slashed`), with `..` (`Dotted`) and modes that do not parse (`BadAttrs`) are
  sets, since the code only asks whether a name or mode is of that kind.
- **SecretMirror** - the abstract specification of one client: a pass installs
  what the server offered during the pass, drops no file the server held all
  along, and ends with the server's secrets when nothing disturbed it; the last
  two for secrets in the file of their own name (`OwnNamed`, `OwnFiles`).
- **SyncEntry** - the passes of `syncerEntry.Sync` in detail. `pc` is the place
  in `Sync`: `fetch` before the batch request, `work` while secrets are
  requested one by one and written, `verify` between a write and its
  verification, `remove` for `pendingDeletions`, `cleanup` for
  `OutputDir.Cleanup`. `listing`, `needs`, `todo`, `gone` and `updated` are the
  local variables of `Sync`, in the order Go's maps leave open. `held`,
  `offered` and `clean` are history variables that only the properties read.
- **SyncEntryProofs** - theorems about SyncEntry.
- **Syncer** - `LoadClients`, `RunOnce` and `syncOne` by goroutines that contend
  for the mutex, with local variables of their own. A client's pass is one step
  with three outcomes: complete (`SyncClient`), not listed and reported
  (`SyncFails`), failed without an error (`SyncIncomplete`); these are the
  undisturbed pass, `ListFails` and the disturbed pass of SyncEntry. `OwnClients`
  are the clients whose directories are given to no other client.
- **SyncerProofs** - theorems about Syncer.
- **WriteFile** - `WriteFileAtomically` by several writers of one path, one
  action for each system call: `Create` of the temporary file, `Chown`, `Chmod`,
  `CheckFilesystem` where a filesystem is enforced, `Write` piece by piece,
  `GetFileInfo`, `Rename`, and `RemoveTemp` for the deferred clean-up. Inodes,
  the names that point to them and what other users hold open are separate
  variables: a reader keeps an inode that has lost its name.
- **FileRegister** - the abstract specification of WriteFile: a call replaces
  content and attributes of the file at once, or fails and changes nothing.
- **HTTPClient** - one request after the other (status, listing, one secret,
  batch) through `getWithRetry` or `postWithRetry`: `pc` goes from `ready`
  through `sent` and `replied` to `sleep` and `ready` again, or to `read` and
  `parse`; `body` is what is left of a batch request's buffer. The server changes
  between the sending, the answer and the next attempt. `seen` is a history
  variable.
- **Request** - the abstract specification of HTTPClient: a request returns what
  the server holds at one moment of it, "deleted" for a secret that is not there
  at that moment, or an error.
- **Health** - `Run` with its sleep, the mutex that API requests contend for,
  and the answer of `/status`, in discrete time. `lastSuccess` is the age of the
  timestamp; `failed` and `good` are history variables.
- **ClientConfigs** - `LoadClients` of `config.go`: `List` lists the directory,
  `Read` reads and merges one file, and `Finish` hands the result to the Syncer.
  `ListFails` and `ReadFails` end the load, and the Syncer keeps its clients.
  `Edit` changes any file at any moment; `Deny` makes the directory or files
  unreadable, or readable again. `since` remembers all these states during the
  load; only the properties read it.
- **Backup** - `FileBackup.Backup` by concurrent requests: the walk over the
  directory (`lstat`, open, copy for each file), the writing of the archive, then
  of the wrapped key.
- **Restore** - `FileBackup.Restore` as `keyrestore` runs it: decrypt, check for
  an empty directory, unpack file by file. `CreateTemp` and `Rename` are the two
  calls of `WriteFileAtomically` that change the directory; between them the
  process may die (`Crash`) or a call fail (`WriteFails`), and the temporary file
  in `temps` stays or goes. `checkIfEmpty` counts it like any other file.
- **Ownership** - the chain of look-ups that decides a file's owner and group:
  `NewOwnership` once for a client, `OwnershipValue` for each write, and the
  check of the owner in `Validate`, next to a database of users and groups that
  changes.
- **Monitor** - the four checks of `cmd/monitor` in their order, look-up by
  look-up, over files, certificates and the `/status` of keysync.
- The other **Proofs** modules - WriteFileProofs, HTTPClientProofs, BackupProofs,
  RestoreProofs: theorems about the modules they are named after. HealthProofs is
  about Health and Monitor, which watches its `/status`; ClientConfigsProofs is
  about ClientConfigs and Ownership, which takes its user and group from them. The
  definitions of Monitor and Ownership that a module of the pair has too carry
  the module's name (`MonitorSpec`, `OwnershipTypeOK` and so on).
- The **MC** modules - instances for TLC.

### Abstractions

- `BeginSync` takes the listing and validates in one step. Each validation reads
  only its own file and its own `SyncState` entry, so a change of another
  process between two of them is the same as one just before or after the step.
  A read error during this validation, which only adds a file to the request, is
  left out.
- A file appears in one step, the rename of `WriteFileAtomically`. A temporary
  file shows only when the process is killed while it writes (`Restart`); after
  an error the deferred removal takes it away.
- The batch is answered in one step from one state of the server, if every name
  in it is a secret's; this is how the tests' server and the comment of
  `SecretListWithContents` describe it. Retries are part of a request.
- The server names a secret once. Two secrets may have the same file name.
- In WriteFile a content is written in `Size` equal pieces. Names of temporary
  files are random in the code and never meet in the model.
- In HTTPClient a body is whole or truncated, an answer early, late or lost. The
  requests of a process follow one another, since `Sync` runs under the mutex.
- Health counts time in units. The wait for the mutex and the pass take at most
  `MaxBusy` units together; ages and failed passes are not told apart beyond
  `MaxAge` and `MaxFailed`.
- ClientConfigs replaces a file in one step, as an editor's rename does. A
  `ClientsDir` that is missing is one that is denied together with its files. A
  configuration is its key, certificate and directory; defaults and the joining
  of relative paths are kept, user and group are in Ownership.
- Backup treats one directory, which the walk reads name by name. In Backup and
  Restore, encryption is what it guarantees: a new key for each backup, and a
  failure of decryption with any other key. Each of the two files a backup
  writes is written in one step, which is what FileRegister promises.
- Restore knows a temporary file by the entry it is for. Its owner, mode and
  contents are WriteFile's matter; a death of the process is Restore's, too.
- Ownership gives each name one id, and follows one secret that stays on the
  server.
- Monitor looks at one directory or certificate at a time, and the world may
  change between any two looks. The text of an alert is the set of its errors.
- In Syncer, the server always has some secret for each client, and `partial`
  stands for all that SyncEntry's faults do to a pass.

## Runs

| Run | Shows | Bounds |
| --- | --- | --- |
| `sync_entry` | mirror after undisturbed passes, idle passes stay idle, held secrets keep their files, only offered secrets are installed, refinement of SecretMirror | 2 secrets, 2 versions, 2 owners, a temporary file, any 3 upsets |
| `sync_entry_converges` | convergence, also next to secrets that cannot be written | 2 secrets, 2 versions, a good and a bad mode, 2 upsets |
| `sync_entry_override_lost` | *finding*: an overridden secret is never written | 3 upsets allowed, none needed |
| `syncer` | loaded clients keep their secrets, what success means, convergence of clients and directories | 2 clients, 3 directories, the loop and a handler, 4 upsets |
| `write_file` | nobody opens a file he may not read, what is opened by the path is whole, no temporary file stays after an error, implementation of FileRegister | 2 writers, a reader who is another user, 3 inodes, 2 pieces, 2 filesystems of which one is enforced, 1 upset |
| `http_client` | a request returns what the server held at one moment of it or an error (refinement of Request), every request ends | 2 secrets, 2 versions, 2 attempts, 3 upsets |
| `health` | healthy means a recent success; unhealthy means a row of failed passes; a lasting outage and a lasting recovery show | intervals of none and of 4 units, lock and pass up to 2 units, ages to 44, 2 upsets |
| `client_configs` | a successful load has read all that was there and merged what stayed the same, a failed one met something it could not read; no load drops a client one file declares throughout; the syncer comes to have the clients the files declare | 2 files, 2 clients, 3 declarations, any first state, 2 edits or denials |
| `backup` | an archive holds what was there, and all of what nobody touched; a backup that is alone leaves its key | 2 requests, 2 files, 3 versions of 2 sizes, 2 upsets |
| `restore` | after any row of tries there are only files of the archive and at most one temporary file, success restores the archive and nothing else; only files written after the check are overwritten | 2 files and one refused, 2 versions, 3 upsets |
| `monitor` | silence means nothing was amiss throughout, a report is true and complete for its check; what stays amiss is reported unless an earlier check keeps failing | 1 client, minima of 1, 2 upsets |
| `ownership` | after an undisturbed pass, each of owner and group is the first of its chain that could be found | a name at each place of the chain or none, 2 upsets |

An *upset* is anything the environment does: a secret published or withdrawn, a
file written by someone else, a failing request or file operation, a changed
configuration or key, a restart. `MaxUpsets` bounds their number over a whole
behaviour; passes themselves are not bounded. The hazards need one to three
upsets (withdraw after the listing and fail one request; restart in the middle
of a write and change the server; remove and re-add a client while a request is
cleaning up). Two secrets are enough for every interplay of one secret with
another, as steps touch one file at a time. Names and versions are symmetric
where no override tells them apart; the runs with symmetry check no liveness.

The newer modules are bounded the same way. Two writers, two backups or one
writer next to a restore are enough, because each step of one touches one name
and a third actor adds no new order of two of them. Two attempts are the
smallest number with a retry, and the two pieces of a body tell a drained buffer
from a full one. In Health an interval of 4 makes the threshold 40, `MaxAge` lies
above it, and `MaxFailed` is the number of failed passes that are sure to cross
it with the longest sleeps and waits. Two configuration files are what a move
needs; every combination of texts is a first state. The owner chain has three
places, and each has a name that may be there or not.

Fairness: `Run` polls for ever and each request has a timeout, so a pass always
takes its next step (weak fairness of the steps as a whole in SyncEntry, of each
goroutine's steps in Syncer). `Run` gets the mutex among any number of API
requests, because Go's `sync.Mutex` hands itself to a starving waiter (strong
fairness of its `Acquire`). The same holds of `Lock` in Health, where time passes
and the holder of the mutex finishes (weak fairness), as every request of a pass
ends by its timeout. In HTTPClient the timeout of `http.Client` and the end of
`time.Sleep` give weak fairness of the steps; in ClientConfigs each polling pass
loads again, in Monitor the command is run again and again. Nothing is assumed of the environment but that it
comes to rest, which the bound on upsets gives. `RequestEnds` does not even need that: the server may stay unwell. Deadlock is not checked where
a process may really stop or where a bound stops a counter (HTTPClient, Health
and Backup).

## Proofs

`SyncEntryProofs` proves, for every set of names, files, overrides, versions and
attributes and any number of upsets:

- `TypeCorrect`, `PassInvariant`, `SettledOwnNamedCorrect`, `SettledIsIdle`,
  `KeepsHeldCorrect`, `InstallsOfferedCorrect`, `PassGoesOnCorrect` and the
  refinement `SyncEntryImplementsMirror`, without further assumptions;
- `SettledCorrect` under `NoOverrides` (every secret is in the file of its name).

A secret with an override is requested by its file name and lost;
`sync_entry_override_lost` shows `Settled` fail. The other theorems say that the
harm ends there: after an undisturbed pass every secret in the file of its own
name (`OwnNamed`) is shown, no unknown file is left, and no held file that only
its own secret may have (`OwnFiles`) is removed. Without overrides these are all
secrets and all files, and `SettledCorrect` follows.

`PassInv` is the inductive invariant. `SettledOwnNamed` speaks of the end of a
pass only, so the invariant says what is true on the way: each listed secret in
the file of its own name is refused, still to be requested, in hand, or valid both
on disk and in `SyncState`; each other file is known to `Cleanup` by the end
(`CleanPass`). `KeepsHeldSecrets` needs that nothing held is ever in `gone`
(`HeldIsSafe`): a 404 for the name of a held file that only its own secret may
have is impossible because the server has a secret of that name, and files that
are forgotten or unknown are not listed. `InstallsOffered` needs that secrets in
hand were offered, and `CleanPass` that they were requested by their own name or
their file's (`InHand`): what comes for another name goes neither to the file of
a secret that has it for its name nor into its state, as the server names a
secret once (`Unique`) and the listing was `WellFormed`.
`SyncStepDisk` says all that a step can do to the directory; `KeepsHeldCorrect`
and `InstallsOfferedCorrect` follow from it. In the refinement a write is
`Install`, a removal is `Drop`, a failure is `Disturb`, the rest stutters, and
`Finish` is enabled by `CleanPass`.

`SyncerProofs` proves, for every set of clients, directories and goroutines, every
assignment of directories and any number of upsets:

- `TypeCorrect`, `SyncerInvariant`, `SuccessAllCorrect`, `SuccessOneCorrect`,
  `KeepsLoadedCorrect` and `MutexIsReleasedCorrect`, without further assumptions;
- `PendingIsUnknownCorrect` under `OwnDirs` (every client is in `OwnClients`).

What is promised of a client's secrets is promised of `OwnClients` only: a renamed
client that keeps its directory loses it to the clean-up of the old name, which is
`MCSyncerRename.cfg`. The theorems say that only those who share a directory are
exposed to this. `SyncerInv` is the inductive invariant. `MutexInv` says that a
goroutine has the mutex exactly while it is not idle, and without it has nothing
left to sync or remove, so each of the others speaks of one goroutine only.
`OwnInv` turns the assignment of directories into a fact about the loaded
configurations, also for a client that was loaded from an older one. From it
follows that the directory of a client that goes is not one another client has for
itself (`GoneDir`), which makes `SpareInv` inductive in `LoadClients`; `KnownInv`
says the same of the clean-up of unknown directories, for all clients.
`StillShows` then says that no removal touches a client of `OwnClients`. The
success properties are `ShownInv` and `SweptInv` at the end.

`PassGoesOn`, `MutexIsReleased` and `RetriesAreBounded` are what safety can say of
liveness: every step of a pass, and of the goroutine that holds the mutex, goes on
to a later part of the code or takes something away from the first of its finite
sets that changes (what is to be requested, before what is to be written, before
what is to be removed); every step of a request leaves it fewer steps. The
environment leaves all of these alone, unless it restarts the process. So with the
fairness of the steps, which only the runs assume, a pass ends, the mutex is
released and a request returns.

The other modules of proofs use, but for the two theorems below that name one, no
hypothesis beyond the assumptions on the constants, which the modules name and
which say what the constants are (`InfosAssumption`, `RetriesAssumption`,
`NoneAssumption` and so on).

- `WriteFileProofs`: `TypeCorrect`, `WriteInvariant`, `OnlyPermittedCorrect`,
  `ReadsWholeCorrect`, `NoStrayFilesCorrect`, `PublishedStaysCorrect` and the
  refinement `WriteFileImplementsRegister`, for any number of writers, readers
  and pieces. `WriteInv` says of each place of the sequence what the file in
  hand is by then (`WriterOK`), that a file others can open is closed to them
  or has its final attributes (`FilesInv`), and that no two writers hold one
  file (`Apart`). A rename is the register's write; everything else stutters.
- `HTTPClientProofs`: `TypeCorrect`, `ReplyInvariant`,
  `RetriesAreBoundedCorrect` and the refinement `HTTPClientImplementsRequest`, for
  any number of attempts. `ReplyInv` says
  that the loop ends with an answer or the error, and that an answer taken for
  good is what the server said when it was seen.
- `HealthProofs`: `TypeCorrect`, `HealthInvariant`, `OkMeansRecentCorrect`,
  `AlarmMeansFailuresCorrect`, for every interval. `HealthInv` bounds the age of
  the last success, and what is left of the current sleep or pass, by the number
  of failed passes.
- `HealthProofs` on Monitor: `MonitorTypeCorrect`, `RunInvariant`,
  `ReportIsSoundCorrect`, for any number of clients, files and changes. `RunInv`
  follows the checks in their order: what was amiss since the run began has been
  found by the checks that are over or is still before the others. So a silent
  run vouches for everything it looked at, and a report names nothing that was
  never amiss. `EmptyIsReportedCorrect` adds, for a minimum of at least one, that
  an empty directory is reported; with the default of 0 it is not
  (`MCMonitorEmpty.cfg`).
- `ClientConfigsProofs`: `TypeCorrect`, `LoadInvariant`,
  `LoadMergesCorrect`, `NothingMadeUpCorrect`, `InPlaceIsKeptCorrect`, for any
  number of files, clients and edits. `Progress`, the part of `LoadInv` about a
  load in progress, says what it has of the files read and still owes of the
  others: a client of whom the files said the same all along is merged from those
  read (`IsMerged`), which come before all that are left.
- `ClientConfigsProofs` on Ownership: `OwnershipTypeCorrect`,
  `OwnershipInvariant`, `SettledIsJustifiedCorrect`, for every set of accounts and
  any number of changes of the database. The invariant follows an id from its
  look-up to the file: `DefaultInv` for the default that `NewOwnership` takes once,
  `OwnerInv` for what a write looks up, hands to the file and remembers, `CalmInv`
  for the end of a pass that nothing disturbed. `OwnedAsConfiguredCorrect` adds
  that where every account can be looked up at all times (`[](users = Accounts)`),
  such a pass leaves the file to the user the secret or the client names;
  `MCOwnershipKept.cfg` shows this fail after a look-up that failed once.
- `BackupProofs`: `TypeCorrect`, `BackupInvariant`, `EntriesWereThereCorrect`,
  `UntouchedIsArchivedCorrect`, `AloneFitsCorrect`, for any number of requests
  and files. `WalkInv` speaks of the entries behind and ahead of the walk,
  `KeyInv` of the two files between their writes. That each backup draws a new
  key is an assumption about the random numbers, not a result.
- `RestoreProofs`: `TypeCorrect`, `RestoreInvariant`,
  `RestoredIsArchivedCorrect`, `OverwritesOnlyRacesCorrect`: until somebody
  else writes, what is still to be unpacked is not there, what is unpacked is as
  in the archive, and the only temporary file is that of the entry in hand. A
  temporary file left by a death keeps `checkIfEmpty` from letting a later try in.

The inductive invariants, and the properties that no run checks (`PublishedStays`,
`SettledOwnNamed`, `PassGoesOn`, `MutexIsReleased`, `RetriesAreBounded`), were
checked by TLC on the instances of the runs before they were proved, and are no
part of the runs. `MCSyncEntryOverride.cfg` and `MCSyncerShared.cfg` check those
of SyncEntry where one secret may have an override that names another secret's
file or an invalid one, and those of Syncer where two of three clients share a
directory.

Every property of the runs is stated by a theorem but liveness (the `Converges`
of SyncEntry, Syncer and ClientConfigs, `RequestEnds`, `StatusFollows`,
`LastingShows`), which is beyond the prover used and only model-checked, under the
fairness given above.

## What does not hold

`SettledCorrect` needs `NoOverrides`; the run `sync_entry_override_lost` shows
why: a secret with a filename override is
requested by its file name, not found, and never written, though `client.go`
calls the keys of the listing names of secrets. `PROJECT.json` has the quotes.

Other expectations that comments and tests state and the code does not meet are
definitions of the modules, too, each with a configuration under which TLC refutes
it. They mark where the properties of the runs stop, and the hazards that no
property can exclude; for `PendingIsUnknown`,
`EmptyIsReported` and `OwnedAsConfigured` a theorem says when they do hold:

| Configuration | Refutes | What happens |
| --- | --- | --- |
| `MCSyncEntryDotted.cfg` | `SettledServesDottedNames` | a secret with `..` in its name is never written (`output/write.go` 40), which `syncer_test.go` 154 expects |
| `MCSyncEntryCount.cfg` | `WritesAreCounted` | secrets retrieved one by one are in no count of `Updated` (`syncer.go` 363, 454) |
| `MCSyncerRename.cfg` | `PendingIsUnknown` | a renamed client that keeps its directory loses it in the pass that synced it (`syncer.go` 343) |
| `MCSyncerRestart.cfg` | `CleanupSparesConfigured` | a configured client whose key is unreadable at the start loses its directory (`write.go` 34) |
| `MCHTTPClientBatch.cfg` | `RetriedBatchIsWhole` | a retried batch goes out without its body, which the first attempt drained (`client.go` 401) |
| `MCHTTPClientNon200.cfg` | `RetriesNon200` | answers other than 200 but below 500 are not retried (`config.go` 42) |
| `MCHealthError.cfg` | `ErrorIsKept` | `/status` never has an error to quote (`syncer.go` 188) |
| `MCClientConfigsMove.cfg` | `OnlyDeconfigured` | a client moved from file to file during a load is handed over for removal (`syncer.go` 220) |
| `MCBackupKey.cfg` | `KeyFitsArchive` | two backups at once leave the archive of one and the key of the other (`config.go` 55) |
| `MCRestoreOverwrite.cfg` | `NothingOverwritten` | a file written while a restore unpacks is overwritten (`backup/tar.go` 99) |
| `MCMonitorEmpty.cfg` | `EmptyIsReported` | with the default minimum of 0 no directory is too empty (`cmd/monitor/checks.go` 55) |
| `MCOwnershipKept.cfg` | `OwnedAsConfigured` | a fallback owner, taken while a look-up failed, stays (`write.go` 140) |

## Plan

All modules named above are done. What is left, in this order:

1. Composition: Syncer with SyncEntry's passes as its steps (several clients,
   one directory tree), and Syncer's `SyncClient` as a refinement of it.
2. Backup of several clients' directories, with Syncer's removal of a directory
   during the walk.

## Not modelled

- The syncer built on a backup bundle (`NewSyncerFromFile`, `bundle.go`): one
  pass of `Sync` over a map that never changes. What is its own needs no
  interleaving to see: of two secrets of one file name the last wins, and
  `RunOnce` calls `Cleanup` on a collection of outputs that was never set
  (`syncer.go` 349).
- The base64 padding and the mask of modes in `secret.go`: conversions of one
  value, which no state depends on. Modes that do not parse are modelled.
- `LoadConfig` and `BackupFromConfig`: they run once, before anything else, and
  are modelled by what they guarantee (`max_retries` is at least 1).
- Parameters of TLS, JSON and YAML syntax, `keyunwrap`'s printing of a key,
  Sentry, logging, metrics, pprof, command lines: no state of keysync depends
  on them.
- File descriptors that `Validate` opens and leaves to the finalizer
  (`write.go` 141): when they are closed is up to the garbage collector.
- Malformed ciphertexts (`backup/crypto.go` 126): Backup and Restore take the
  guarantees of authenticated encryption as given and start from whole files.
