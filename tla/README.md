# TLA+ models of the URL shortener

This directory holds TLA+ specifications of the service in this repository, the TLC
configurations that model-check them on small instances, and proofs checked by TLAPS.
Paths below are relative to `src/`.

1. [The system](#the-system)
2. [The modules](#the-modules)
3. [The runs, and what they show](#the-runs-and-what-they-show)
4. [Fairness](#fairness)
5. [Proofs](#proofs)
6. [What is not modelled](#what-is-not-modelled)
7. [Plan](#plan)

## The system

The service shortens URLs. Clients reach it over HTTP or gRPC; links are kept in
PostgreSQL, and in a local file whenever the database does not answer a ping; actions are
logged to an audit file and a remote audit service.

    clients -> HTTP handlers  \                    / PostgreSQL repository -> pool -> database
                               >- use cases (ping) 
    clients -> gRPC handlers  /                    \ file store -> append-only file
                  |
                  +-> audit adapter -> queue -> processor -> audit file, remote audit service

### Inventory

**File store** (`internal/domain/repository/file_storage.go`). State: a file of one JSON
record per line and four indexes in memory: `cache` (short code -> record), `cacheByID`,
`originalURLIndex` (active records only, says its comment) and `userIDIndex`. Operations:
`Save`, `BatchSave`, `Delete`, `DeleteByID`, `SetDeletedByUserIDAndURLs` (deletes and
restores), `CompactFile`, the lookups, and the load at start-up, which replays every version
of every record. One mutex covers each call from beginning to end. Hard: a call updates
memory first and then writes record by record, so a failed or short write or a kill leaves
memory and file apart; replay must find its way through superseded versions, garbled lines
and lines too long for the scanner. Correct when the indexes describe the same records,
what was acknowledged is served after any restart, and a URL has at most one active code.

**PostgreSQL repository** (`internal/domain/repository/*_repository.go`). State: the table,
whose `original_url` is unique (`migrations/`), the pool of connections, open transactions.
Operations: `Create` and `CreateBatch` (a transaction each), `UpdateIsActive` (one batch of
updates), lookups, `Ping`. Hard: concurrent inserts of one URL, lost answers to a commit,
deadlines in the middle of a transaction, transactions that wait for each other, connections
that are not given back. Correct when a URL is created once, a batch is atomic, and nothing
a call took is kept after it has returned.

**Audit adapter** (`internal/audit/adapter.go`). State: `enabled` under a read-write lock, a
bounded channel, a done channel, a WaitGroup, and the batch and the timer of the processor
goroutine. Operations: `LogEvent`, `Enable`, `Disable`, `Close`, and the processor's loop.
Hard: `LogEvent` sends after it has released the lock, `Disable` waits for the processor while it
holds it, and the select picks among ready cases. Correct when there is never a second
processor, each accepted event is tried once and in order on each receiver, and no call hangs.

**Audit file logger, adapter factory** (`internal/infra/audit/logger.go`,
`internal/audit/factory.go`). State: a global registry of loggers by path, a map of adapters
by path and endpoint. Operations: `GetInstance`, `CloseInstance`, `ResetInstances`, `Log`, `Close`,
`Reopen`; `GetAdapter`, `GetOrCreateAdapter`, `CloseAdapter`, `CloseAll`. Hard: two adapters share a
logger, `Close` leaves a closed logger in the registry, `CloseInstance` does not take the logger's lock,
and the factory holds its own while it waits for last batches. Correct when no two loggers write one
file, an adapter writes to an open file until somebody closes it, and closing ends.

**Remote audit client** (`internal/infra/audit/remote.go`,
`internal/pkg/transport/httpclient/client.go`). No lasting state; validation of a batch,
attempts, back-off. Hard: one invalid event refuses the batch; a repeated post may be a
duplicate; the waits have to fit the caller's deadline. Correct when attempts and waits are
bounded, a batch is refused only for an event the service would refuse alone, and a post comes no
sooner than the service asked.

**Use cases** (`internal/usecase/storage.go`). No state of their own. Each call pings the
database and then goes to the repository or the file store. Hard: the answer to the ping is
stale when it is used, the two stores diverge for good once each has been written, deletes run in
goroutines nobody waits for, and a conflict is resolved by a second query. Correct when a client that got
a code can follow it as long as the same store answers, and a delete that was accepted takes
effect.

**HTTP and gRPC handlers** (`internal/delivery/`). State: none but the request. Hard: what
has been done by the time an error ends the request; a full audit queue fails requests whose
URL is already saved; gRPC calls have no deadline. Correct when the status tells what was done.

**Application** (`cmd/shortener/main.go`, `internal/initapp/app.go`,
`internal/delivery/http_server.go`, `grpc_server.go`). State: the servers, the error channels and
the list of closers. Hard: errors of three servers reach `Run` through two channels of one place and
two goroutines; the HTTP server waits ten seconds for requests that may take fifteen to arrive;
closers run in reverse order; the gRPC server's waits for every call, however long its client takes, and the
pool's for every connection. Correct when a failing
server ends the process in an orderly way, a shutdown ends and cuts off only what it means to.

**Configuration** (`internal/initapp/config.go`, `internal/infra/config/`). Flags, environment, a
file and defaults. Hard: flags are parsed twice, the first time before all but one are defined, and
a malformed file falls back to part of the defaults, one of which is never applied. Correct when a process that serves has the settings its
sources promise.

**Reset generator and pool** (`cmd/reset/main.go`, `cmd/reset/pool/generic.go`). State: the generated file
of each package; pooled objects. Hard: the generator reads packages that contain its own earlier output; `Get`
and `Put` are two steps each, without a lock. Correct when fresh code empties the fields it is for, and users of the
pool do not disturb each other.

**Sessions** (`internal/pkg/utils/`), **trusted subnet**, **middleware**, **connection and migrations**,
**generated code**, **static analysis** (`cmd/staticlint`, `internal/pkg/exitcheck`), **mocks**: pure
computations, input and output, or no part of the service.

`PROJECT.json` lists every component with its status, and the hazards of this code, the
steps a test hardly reaches, with the property that watches each.

## The modules

| module | models |
|---|---|
| `FileStore` | the file store, its file and its restarts |
| `LinkRegistry` | what the file store promises its clients, without file, index or restart |
| `AuditAdapter` | the audit adapter and its processor |
| `AuditReceivers` | the registry of file loggers, the factory, and the delivery of batches |
| `PgRepository` | the repository, the pool, the transactions and the table |
| `Shortener` | use cases and handlers over both stores, with deletes in the background |
| `Application` | the process: configuration, construction, servers, shutdown with work in progress |
| `ResetGenerator` | the generator of Reset methods and the pool of resettable objects |
| `FileStoreProofs`, `FileStoreDurability`, `FileStoreAppProofs` | theorems about `FileStore` |
| `ShortenerProofs`, `AuditAdapterProofs`, `AuditReceiversProofs`, `PgRepositoryProofs` | theorems about those modules |
| `ProgramsProofs` | theorems about `Application` and `ResetGenerator` |
| `MCFileStore`, `MCAuditAdapter`, `MCAuditReceivers`, `MCPgRepository`, `MCShortener`, `MCPrograms` | instances for TLC |

How they fit together: `Shortener` uses the repository as one step per call and the file store as
memory and write; `PgRepository` and `FileStore` look inside those. `AuditAdapter` looks at the locks,
the queue and the batch of one adapter, `AuditReceivers` at what is behind several. `Application`
reduces a request to what it holds up at a shutdown: a body, a ping, a connection, a file. `MCPrograms`
composes the shortener's process, the generator and the pool; they share no state, as in the repository.

Operators named `...Unchecked`, `...Twice` and the like, marked "Mutant", are small plausible
faults of the definition after them. No action uses them; substituting one for its original
makes a property fail, which shows that the property says something about that piece of code.

### FileStore

| in the code | in the model |
|---|---|
| `fs.cache`, `cacheByID`, `originalURLIndex`, `userIDIndex` | variables of these names, from codes, ids, URLs and users to ids and records |
| the file | `file`, a sequence of lines, each a record and what the scanner makes of it: `whole`, `garbled`, or `long` for a line over the scanner's 64 KiB |
| a missing newline after a short write | `unterminated`: the next write is glued to that line |
| `fs.mutex` | calls start only if no call runs: `pending` is the list of records the running call still has to write, `batch` the items its `BatchSave` still has to look at |
| `Save`, `BatchSave`, `Delete`, `DeleteByID`, `SetDeletedByUserIDAndURLs`, `CompactFile` | actions of these names, with `Restore` for `deleted = false` and `SetDeletedAgain` for the call that finds nothing to change |
| `appendRecordToFile` | `AppendRecordToFile`, `AppendFails` (nothing written), `AppendTorn` (part written) |
| `NewCachedFileStorage`, `loadCacheFromFile` | `Restart` (at any moment, also in the middle of a call), `LoadLine`, `LoadDone`, `LoadFails` |

A call that writes is one action for what it does to memory and one append per record it writes; a
kill or a failed write falls between them. `Spec` allows every call of the interface with
arbitrary arguments, a repeated short code included. `AppSpec` allows the calls
`urlUseCase` makes: `Save` with a random key, taken to be new, and deletes.

`acked`, `unsafe` and `writeFailed` are what clients know, used by properties only: the record as
last written by a write that returned nil, the ids whose last write failed or was glued to an
unfinished line, and whether any write has failed.

Left out: correlation ids, timestamps, click counts; lookups, which change nothing;
durability against power loss (the code never syncs, and only the process dies here).

### LinkRegistry

The promise to clients: a published code stands for one URL for ever, a retired link does
not come back, and two active links never share a URL unless a write has failed
(`degraded`). `FileStore!RegistrySpec` is `LinkRegistry!Spec` under the refinement mapping
`links <- Links` (the acknowledged record of each code) and `degraded <- writeFailed`.

### AuditAdapter

The read-write lock is `mutex` (a controller that keeps it across its steps; the short
critical sections are single actions). `LogEvent` is `LogEvent`, `CheckEnabled` (under the lock), and
`Send` or `Drop` (after it). The processor's place in its loop is `proc[p]`: `select`, `write`
(an event taken, not yet logged), `flush` and `last` (the final flush). Several processor slots
exist so that a second processor would show. Events are numbered in the order of acceptance;
`written` and `posted` are the events *tried* on the file and on the service: the adapter
does the same whether a write or a post succeeds. The batch timer may fire whenever the processor waits: it
is reset in every branch that reads or stops it. `receivers` is chosen at the start.

### AuditReceivers

| in the code | in the model |
|---|---|
| `instances` under `instanceMu` | `instances`; each call of the registry is one step, as its lock is never given up |
| `Logger.file` | `file[l]`: `none`, `open`, `closed`, or `reopening` between the two halves of `Reopen`, when its mutex is held: `Take` and `CloseFile` wait, `CloseInstance` does not |
| `AdapterFactory.adapters` under its mutex | `adapters`, and `closing`, the adapters whose `Close` the running `CloseAdapter` or `CloseAll` waits for |
| `Adapter` | `queue`, `batch` and the place of its processor `at`, `key` and `fileLogger` |
| `BatchCreateAuditEvents` | `call[a]`: attempts, time elapsed, the wait asked for and the one chosen |
| `validateAuditRequest` | `Valid`: no event without a user (`anonymous`), none with a URL of over 2000 characters or one that does not parse (`unfit`), and no more events than the limit; the other rules hold of every event the program makes |
| `SendRequest`, `ShouldRetry`, `calculateDelay`, `parseRetryAfter` | `ErrorType`, `ShouldRetry`, `Delay`, `Usable`; the service's replies are `Reply`, answers of any status whose body breaks off or is too large among them (`Unread`) |

Time is counted in fifths of a second, so that the jitter of 20 % is exact; durations are those of the code. What a
service asked for (`Asked`) is what its Retry-After says; what the client honours (`Usable`, and a body read to its end) is
less; `RespectsRetryAfter` is about the latter (`Honoured`). The jitter is one of its two ends. `raced` says that `CloseInstance` has met a `Reopen`, the one way to two open
files; `closedOn` are the paths somebody has closed.

Left out: `CreateAuditEvent`, options other than those `NewAdapter` sets, headers, body formats, logs.

### PgRepository

A call is a record: its operation, its place (`acquire`, `insert`, `commit`, `send`), its request
and what is left to insert. `table[u]` is the row of URL `u` and the transaction it belongs to: a running
call's, `Nobody`'s (committed), or an `Orphan`'s, a transaction left open by a call that returned. The
database is modelled by what its callers see: an insert waits for an uncommitted row of the
same URL, fails on a committed one, and a failed statement aborts the transaction. pgx is modelled
by its documented use: a commit gives the connection back whatever its outcome, a rollback gives it back, and a
transaction that is neither keeps it.

In `CreateBatch` the error of a chunk is declared anew inside the loop, and the deferred rollback
looks at the outer, nil one. `ReturnError` models just that: `create` gives its connection back,
`batch` does not. `ChunkNotSent` is the case in which the transaction itself stays open, and the rows it has
inserted become an `Orphan`'s, locked for good.

Left out: `Update` and the hard `Delete`, which the application never calls; what lookups
return; calls over gRPC, which have no deadline of their own (see Fairness).

### Shortener

A request is a record per client: its operation, its place in the handler, its user and what it
carries. The places lie where the code lets something else happen: between the ping and the call it
decides (`database`, `file`), between a batch's search for duplicates and the rest (`duplicates`),
between a conflict and the lookup of its row (`lookup`), between the file store's answer and the look
at `IsActive` through its pointer (`check`), between the switch of records in memory and their write
(`write`), and before the audit event (`audit`).

| in the code | in the model |
|---|---|
| `isDatabaseAvailable` | a choice: the ping says where the request goes, and nothing about the call that follows |
| the database | `rows`, one step per call (`PgRepository` looks inside it); each call may fail, having taken effect or not |
| the file store | `memory`, and `unsure`, the codes whose last write failed or came after one that did: a restart reads them in some earlier version or not at all |
| `fs.mu` | `AtFile`: no call of the file store while another is at `write` |
| `processDeletionInBackground` | `DeletedInBackground` adds a task per chunk, `UpdateIsActive` and `UpdateFails` end one |
| HTTP or gRPC | the same steps but for the audit event and the answer to a conflict: chosen in `Saved` and `GetByOriginalURL` |
| `render.Status` without a body | `Blank`: the request ends at `blank` |
| the process dies | `Restart`: requests and tasks are gone, rows stay, memory is read again |

`answer` (the codes the last request of a client was answered with), `gone` and `promised` are what clients were
told, used by properties only. Random keys are taken to be new.

What follows from the code and is no property: a code issued during an outage answers 404 once the
database is back, and the other way round; a delete during an outage of a link that lives in the
database is accepted and does nothing if its user owns any record of the file; a save to the file of a URL that
exists there ends in 500, not 409; `ExpandURL` returns deleted links.

Left out: requests refused before the use cases, requests that only read (lists, `ping`, statistics,
`ExpandURL`), correlation ids, expiry; a start that fails on a file with a line too long (`FileStore`).

### Application

| in the code | in the model |
|---|---|
| `initapp.LoadConfig`, `config.LoadConfig` | `ParseFlags`, `LoadConfig`; a setting's value is its source, `Resolved` the order in which the sources overwrite each other |
| `NewApp`, `initComponents` | `InitAudit`, `InitFileStorage`, `InitDatabase`, `NewServers`; any may end the process |
| `registerCloser`, `shutdown` | `RegisterCloser`, `NextCloser` and one step or two per closer |
| `Start`, `startGRPCServer`, `mergeErrorChannels` | `Serve`, `ServerFails`, `GRPCServerDies`, `Forward`; `error` and `errChan` are the channels |
| `Run` | `Start`, `Signal`, `Stop` |
| `Server.Shutdown` with its ten seconds | `GraceEnds`, `Shutdown` |
| `GracefulStop`, `pool.Close` | `GracefulStop` and `GracefullyStopped`, `ClosePool` and `PoolClosed` |
| gRPC calls and streams | `CallArrives` when the headers come; `MessageRead` when the message has come, which nothing guarantees, and the interceptors have looked at it, or when the call or stream is over |
| requests, gRPC calls, background deletes | `work[t]`: waiting for a `body`, or without limit for the `message`, for a connection for the `ping` or the `call`, having one (`pinging`, `calling`), or at the `file` store |

`Settings` holds one setting of each kind: with and without a flag that is applied, a variable, a default. After
`Start` the configuration is read no more, and is forgotten. The process can only end; how the
system behaves after it is `FileStore` and `Shortener`.

### ResetGenerator

A package has one annotated struct with one field and the struct `Item`, annotated or not; both are
edited between runs. A type is its constructors and what they end in (`Bases`: basic types, `error`, defined
types, local structs with and without a Reset, types of other packages, function, interface and channel types, and struct
types written out). `GenerateResetCode` is the generator's choice of a statement, `HasReset` the methods it has seen, those
of its own earlier file included if generated files are not skipped. `Empties`, the meaning of the
statements, is used by the properties only: a statement empties its field if it compiles and leaves it empty, so that `= nil`
does for a function and does not for a struct type written out.

| in the code | in the model |
|---|---|
| `Pool.Get` | `Take` (from `sync.Pool`, or new), `Reset`, and `Get`, the return |
| `Pool.Put` | `Put`, its `Reset`, and `Store` |
| `sync.Pool` | `pooled`; what is in it may be dropped (`Drop`) |
| a goroutine that uses the pool | `place[u]` and `object[u]`, the object it refers to, also after it has put it back; `Change` is a write, a careless one if the object was put back, and may come between any two steps of another user |

A user puts an object back once. Putting one back twice gives it to two users, which the code cannot prevent.

## The runs, and what they show

| run | instance | shows |
|---|---|---|
| `filestore_api` | 2 ids, 2 codes, 2 URLs (one of them long), 2 users, 3 lines, batches of 2 | **IndexesAgree**, **AckedIsServed**, **CallsKeepIndexActive** under every call of the interface |
| `filestore_app` | 3 ids, 3 codes, 2 URLs (one long), 1 user, 4 lines | **UniqueActive**, **EveryRecordReachable**, **RegistrySpec** under the application's calls |
| `filestore_index` | 2 ids, 1 URL | fails: **IndexHoldsActiveOnly**, the comment of the field |
| `filestore_durable` | 2 ids, one long URL | fails: **AckedIsDurable**, the promise of durability |
| `audit_adapter` | 2 loggers, 2 controllers, 2 processor slots, queue 2, batch 2, 3 events | **OneProcessor**, **EachTriedOnce**, **EventuallyTried**, **CallsReturn** |
| `audit_disable` | one of each | fails: **DisableDrains**, the comment of `Disable` |
| `pg_repository` | 2 clients, 2 URLs, 3 connections, chunks of 1, requests of up to 2 | **ConnectionsAccounted**, **OnlyBatchLeaks**, **CreatedOnce**, **BatchIsAtomic**, **LocksAreReleased** |
| `audit_receivers` | 1 path, 2 adapters, 2 loggers, queue 1, batch 2, two worlds (below) | **OneWriterPerFile**, **OpenFileUnlessClosed**, **FactoryAgrees**, **RefusedForAnEvent**, **RespectsRetryAfter**, **CloseEnds** |
| `pg_locks` | the same, 1 connection | fails: **RowsAreReleased**, what the deferred rollback is there for |
| `shortener` | 2 clients, 2 users, 1 URL, 2 codes, requests of up to 2, chunks of 2, 1 update under way, 1 code gone wrong | **IssuedIsKept**, **GoneStaysGone**, **DeleteNotForgotten**, **OwnerDeletes** |
| `shortener_answer` | the same | fails: **NoBlankAnswer**, the statuses the handlers' comments promise |
| `programs` | 1 request, 1 gRPC call, 1 delete, 2 connections; all combinations of 3 variables, 3 keys, 3 states of the file and a flag; types of up to two constructors; 2 users of the pool, 2 objects | **ServesAsConfigured**, **PoolOutlivesCalls**, **OnlyLateWorkIsCut**, **ShutdownEnds**, **FailureStopsService**; **FreshCodeEmpties**; **UsersAreUndisturbed** |

Each passing run also checks its module's `TypeOK`.

**Why the bounds are enough.**

- *File store.* The hazards need two versions of one record in the file, two records that compete for a
  code or a URL, a torn line followed by a glued one, and a restart after each: two ids and three lines
  have all of them. The reuse of a URL after a delete needs a third record and a fourth line to
  compete with the second one, hence `filestore_app`. Ids, codes, users and the like are interchangeable and
  reduced by symmetry.
- *Audit adapter.* A queue of two can be full, non-empty and empty; a batch of two is sent by size, by the
  timer and at the end; three events put one into each of queue, hand and batch at once. Two
  controllers race `Enable` against a `Disable` that waits.
- *PostgreSQL.* Two clients with two URLs inserted in opposite orders wait for each other; a request of two
  URLs in chunks of one has a first chunk done and a second one not sent; three connections let two
  leak while a third works, after which every call waits for a connection.
- *Shortener.* The races are between two requests for one URL or one code, and between a request and a background
  update of another user: two clients, two users, one URL, two codes. A batch that names the one URL twice
  conflicts with itself on the database and fails half-way on the file. A delete of one code is a chunk that is not
  full, one of two codes a full one. `MaxTasks` and `MaxUnsure` bound what is under way at one time, not how often
  it happens.
- *Receivers.* In one world two adapters share a path, with and without an endpoint, which is what sharing
  a logger takes; two loggers let a second one open the file of the first. In the other one adapter delivers to a service that
  answers with a status of each kind `ShouldRetry` tells apart, asks for a wait of nothing, 2 s (honoured), 20 s (beyond
  the deadline) and more than a day, and takes no time or all of the client's timeout;
any of its answers may break off or be too large.
- *Application.* A request, a call and a delete are one of each kind of work; two connections let one leak while
  another is in use.
- *Pool.* Two users are what it takes to meet, and two objects what it takes not to.

The safety properties do not depend on these bounds: the [theorems](#proofs) hold for every value of the constants that their assumptions allow.

**Disagreements between code and comments** that a run shows (`findings` in `PROJECT.json`):

1. After a delete and a restart `originalURLIndex` again holds the deleted record: replay adds
   the active version and never removes it. `Save` of that URL is then refused.
2. What the file store has acknowledged need not be in its file. In the trace it is a record longer than the scanner's
   limit, at which every later start fails. It is the same with a line that was glued to a torn one, and with a delete
   whose write failed and which the client repeats: the flag is already set, nothing is written, the call succeeds, and a
   restart undoes it.
3. `Disable` does not wait for the queue: the select may take the done case with events queued.
4. A `CreateBatch` that fails keeps its connection: `err` is shadowed and nothing is rolled back. If a later chunk was not
   sent, the rows of the earlier ones stay locked as well. `LocksAreReleased` names this as its exception.
5. A handler whose audit event is refused, and a batch that fails, answer an empty 200 where their comments say
   500: `render.Status` alone writes nothing.

More of them, met while modelling. No run is about them; where a property comes near, it names them as what it leaves out:

- `CompactFile` keeps inactive records, though its comment says it works "by removing logically deleted records" and
  "eliminating inactive records from disk" (`file_storage.go:503-504`, against line 530). The model keeps them too, and
  `AckedIsServed` counts on a deleted record being served as deleted after a compaction and a restart.
- `removeFromIndexes` deletes by URL (`file_storage.go:168`): deleting a record again after its URL was saved anew makes the
  URL free for a second active record, contrary to the comments of `Save`. The application never calls `Delete`, so
  `UniqueActive` holds of its calls.
- `For rate limit, use the Retry-After header`, says `ShouldRetry` (`client.go:555`). A 429 whose answer is not read to its
  end gets another error type and no Retry-After (`client.go:297-317`), and one that asks for more than a day is ignored
  (`client.go:595`); both are repeated after the default wait of about a second. `RespectsRetryAfter` is about the others.
- The default DSN that the comment of `LoadConfig` lists (`loader.go:38`), and its tests expect (`loader_test.go:70-73`,
  `240-243`), is never applied (`loader.go:119-130`). `ServesAsConfigured` says that a process without a DSN serves without
  one, and that every other setting is what was promised.
- `GracefulStop` has no time limit (`grpc_server.go:295`), no gRPC call has a deadline, and the reflection service
  (`grpc_server.go:214`) offers streams: a client whose message does not come, or who keeps a stream open, holds up a shutdown
  for ever, with no connection leaked. The comment of `shutdown` has no such condition; `ShutdownEnds` and
  `FailureStopsService` have it.
- The generator's package comment lists nested structs. Its statement for a struct by value does not parse
  (`cmd/reset/main.go:652`), and the file is written nevertheless; the `= nil` for a struct type written out
  (`main.go:709-715`) does not compile. With `-skip-generated=false` it calls a Reset that only the file it replaces had
  (`main.go:380`). `FreshCodeEmpties` is about the types it can do (`Ordinary`), and about the default flags.
- Every documented flag but `-config` ends the process with its usage: `flag.Parse` runs before the others
  are defined (`initapp/config.go:20`). What a flag would do if it were parsed is that the environment
  overrides it, contrary to the comment of the loader; `-f` is never applied.
- A malformed configuration file sets aside environment and defaults, all but the server's address
  (`initapp/config.go:29`); as there is no storage path then, the process ends in `InitFileStorage`, which is
  why `ServesAsConfigured` holds.
- `Shutdown` returns nil when its ten seconds are over (`http_server.go:150`), and the shutdown goes on
  with requests still running. Nothing closes the audit adapter: events queued or batched at a shutdown are never written.
- A gRPC server that stops serving is only logged (`grpc_server.go:281`).
- One event without a user, such as shortening logs, or with a URL of over 2000 characters, makes the client refuse the whole
  batch, silently but for a log line. A closed file logger stays registered, and whoever gets it next writes to nothing.
- The generator's statement for a value with a Reset resets a copy, and for an array or a foreign type it does not compile;
  without `-force` an edited struct keeps its old methods.
- `Get` promises an object in its zero state. A user who writes to an object he has put back can spoil it between the Reset
  and the return; the model has such writes, and no property claims the contrary.

`AckedIsServed` holds because it speaks of stores that are up and of records whose own last write
went well; the second finding is about the store that does not come up.

## Fairness

The properties of `FileStore`, `Shortener` and `ResetGenerator` are safety properties and their specifications have no fairness.

*Audit adapter.* The processor's `select` picks at random among its ready cases, so a case that is
ready again and again is taken: strong fairness of `Stop`, `Take` and `Timer`. A write and a post end
(the post has a ten-second deadline), and a wake-up from `wg.Wait` comes: weak fairness of `LogToFile`,
`FlushBatchHTTP` and `DisableWaited`. `CheckEnabled` needs strong fairness: Go's RWMutex lets
readers that wait pass after each writer. `Send` or `Drop` is one non-blocking select. Nobody is obliged to
call `LogEvent`, `Enable` or `Disable`.

*PostgreSQL.* A running call's next statement succeeds or fails, and a wait for a connection or for
another transaction ends with the handler's five-second deadline or the database's deadlock
detection: weak fairness of that disjunction for each client. This holds for calls from HTTP handlers. A
gRPC call without a deadline may wait for a connection for ever once the pool has leaked empty; it holds no lock then.

*Receivers.* A post, a wait and a `Reopen` end: weak fairness of `Work` and of the two ends of `Reopen`. A processor's
select takes the done case if it is ready again and again (`StartLast`), and `CloseFile` waits for nothing but a
mutex that is given up again and again: strong fairness. No one has to log, reopen or close.

*Application.* The main goroutine, the servers' and the forwarding ones take their next step: weak fairness. A body
arrives or its 15 seconds end, a ping and a call to the database come to an end (`BodyRead`, `Ping`, `CallReturns`). A goroutine
that waits for a connection gets one of those that come free again and again, as pgx serves waiters in order: strong
fairness of `Acquire`; once the pool closes it gets an error. No signal has to come and no server has to fail. Nothing
obliges the client of a gRPC call to send its message or to end its stream: there is no fairness of `MessageRead`, and
`ShutdownEnds` and `FailureStopsService` say what they say of the behaviours in which it happens (`CallsGetTheirMessages`). Without
that condition both are false of the code.

## Proofs

`FileStoreProofs` proves, for any finite set of ids and any codes, URLs, users and bounds:

- `InductiveInvariant`: `Spec => []IInv`
- `TypeCorrect`: `Spec => []TypeOK`
- `IndexesCorrect`: `Spec => []IndexesAgree`
- `IndexKeptActive`: `Spec => CallsKeepIndexActive`

from `FileStoreAssumption` (ids are finitely many, `NoId` is none of them, bounds are naturals) and
`NoRecAssumption` (`NoRec` is no record).

`IndexesAgree` is not inductive. A load replays the lines of the file into indexes that may already hold an
earlier version of the record; if that version had another code, URL or user, the
indexes would end up describing two different records under one id. What excludes this is a fact about the
file, and it must survive appends, torn and glued lines, compaction and kills in the middle of
a call. `FileAgrees` states it: lines of one id differ in `active` only, and differ from the record in memory in
nothing else; the ids a call still has to write are known. The inductive invariant is
`IInv == TypeOK /\ IndexesAgree /\ FileAgrees`.

The proof has one lemma per kind of step, shared by the actions built from it:

- adding a record (`AddKeepsIndexes`, `AddRecordKeepsIInv`) for `Save`, `BatchItem` and, with
  `LoadKeepsIInv`, for replay;
- switching flags (`FlagKeepsLink`, `SwitchKeepsIndexes`, `SwitchKeepsIInv`, `SwitchOffKeepsIInv`,
  `RestoreKeepsIInv`) for the deletes and the restore;
- a line arriving at the end of the file (`ArriveAddsLine`, `ArriveKeepsLines`, `ArrivalKeepsIInv`) for the appends;
- `CompactKeepsIInv`, and `NextKeepsIInv` that puts them together.

`Restore` gives a URL's entry to the last of several records; that this record exists is
`MaxIsMember`, proved from the well-foundedness of `<` on the naturals. The same fact (`RestoredAre`) shows
`IndexKeptActive`: a call leaves no URL's entry at a record it has switched off.

`FileStoreDurability` proves `AckedServed`, `Spec => []AckedIsServed`, for every order of calls, restarts,
compactions and failed or torn writes. A record is safe if its last write returned nil and was not
glued to an unfinished line. The inductive invariant `DurableIInv` says where a safe record is:

- in the file (`FileKeeps`), the last of its lines that parses is what was acknowledged (`Kept`), or compaction dropped
  all its lines and another record has its code (`Dropped`). A last line without an end belongs to a record that is
  not safe, so that the line which is glued to it spoils no safe one;
- in memory (`MemoryKeeps`), a load has replayed the lines it has read (`Loads`), and once it is up memory
  serves each safe record that is not being written (`Serves`).

`FileStoreAppProofs` is about `AppSpec`, the calls the application makes, in which a new code is one no record has:

- `AppInductiveInvariant`: `AppSpec => []AppIInv`
- `RecordsReachable`: `AppSpec => []EveryRecordReachable`
- `URLsUnique`: `AppSpec => []UniqueActive`
- `StoreIsRegistry`: `AppSpec => RegistrySpec`, the refinement of `LinkRegistry`

`AppIInv` adds to `IInv` that a code and an id belong to one link for ever, in all versions of a record in memory,
in the file and acknowledged (`LinksInv`); that an active record that waits to be written is new and the only one
(`WritesInv`); and, as long as no write has failed, that the file is what was acknowledged, with one active record for a
URL (`FileIsAcked`), and memory what the file says, ahead of it only by what is still to be written
(`MemoryFollows`). For the refinement a write of an active record is a `Publish` of the registry, one of an inactive
record a `Retire`, a failed one a `Degrade`; every other step changes nothing of it (`RegistryStep`).

`PgRepositoryProofs`, for any clients, addresses, number of connections and sizes of requests and chunks, from
`PgAssumption`: `TypeCorrect`, `ConnectionsAreAccounted`, `URLsAreCreatedOnce`, and the action properties
`OnlyBatchesLeak` and `BatchesAreAtomic`. That a batch becomes visible at once is not inductive: one has to know that
a call which comes to its commit has a row for each address of its request, and while it inserts, that what has no row
yet is still to do, and that rows of an open transaction are of its request (`RowsOf`). `ConnectionsInv` counts the
holders of connections, whose number changes by one with each call that begins or ends to hold one.

`AuditAdapterProofs`, for any loggers, controllers, processor slots and sizes, from `AuditAssumption`: `TypeCorrect`,
`OneProcessorOnly`, `TriedOnceInOrder`. `OneProcessor` follows from the WaitGroup counting the processor that runs
(`ControlInv`): `Disable` may return only at zero, so that the next `Enable` finds none. For the order of events
`HoldingInv` says what a processor may hold at each of its places, nothing when it does not run, and the events of a
receiver are the concatenation of what was tried, is held, and is queued (`ToFile`, `ToRemote`): a send extends it by the
next number, every other step only moves an event from one part to the next.

`ShortenerProofs`, for any clients, users, codes, URLs and bounds, from `ShortenerAssumption`: `TypeCorrect`,
`IssuedCodesAreKept`, `GoneLinksStayGone`, `DeletesAreNotForgotten`, and the action property `OnlyOwnersDelete`. A
client's request is many steps, and between any two of them the others, the background deletes and a restart may
change both stores. The proof separates the two:

- what a step may do to the stores at all (`StoresStep`: links only appear and are switched off, a code stays in the
  store it is in) and what of the invariant every such step keeps for the clients that do not take it
  (`RestingIsKept`, `GoneIsKept`, `PromisesAreKept`, together `ClientStepKeepsIInv`);
- what is known of the running request at each of its places (`ShortenInv`, `BatchInv`, `FollowInv`, `DeleteInv`), so
  that each action is looked at for its own client only.

What makes requests independent is `Distinct`, codes drawn and not yet saved differ, and `InOneStore`, a code has a
record in the repository or in memory but not in both; a code that a failed write may have left in the file is used up
(`Taken`). `GoneInv` says that a link a client knows to be gone is off wherever a restart cannot switch it on again.
For deletes `PromiseInv` keeps, for each promised row that is still active, a task of its owner that names it.

`AuditReceiversProofs`, for any paths, adapters, loggers, sizes, settings and services (`Worlds`), from
`ReceiversAssumption`: `TypeCorrect`, `OneWriter`, `OpenUnlessClosed`, `FactoryKeepsTrack`, `OnlyUnfitRefused`,
and the action property `RetryAfterIsKept`. The invariant has three parts:

- `FilesOK`: unless there was a race, a logger that has its file open is the one registered for its path
  (`SoleWriters`), so that two of them would be one; what is registered has its file open, and what an adapter has is
  registered, until somebody closes a logger of the path (`RegistryOK`, `ReceiverOK`). The calls that close loggers
  are instances of one lemma, `ClosedFilesKeep`.
- `FactoryOK`: a processor ends only in an adapter that is being closed, which is out of the map already.
- `DeliveryOK`: at its select a processor has room for one more event, so that no batch outgrows the limit of the service;
  a wait is at least four fifths of what was asked for or MaxDelay, which is longer than the deadline of the call
  (`DelayIs`), so that no post ever follows one that was cut short. This is for answers the client reads whole and for waits of
  up to a day, and the theorem says so.

`ProgramsProofs`, for any requests, calls, deletes, connections and ways to be started, from `ApplicationAssumption`:
`TypeCorrect`, `ConfiguredAsPromised`, `PoolIsClosedLate`, `ShutdownCutsLateWork`. The invariant says for each place of the
main goroutine which closers are left (`ClosersInv`), which servers are down and whom they have waited for
(`ServersInv`), and that connections are counted and a closed pool has none out (`TasksInv`).

The same module proves of `ResetGenerator`, for any set of shapes, users and objects, `GenTypeCorrect`,
`OrdinaryFieldsAreEmptied` and the action property `PoolUsersAreUndisturbed`. With the default flags the old file is not
read, so that the statement in a current file is the one for the field as it is (`GeneratedInv`), which empties it
(`OrdinaryEmpties`, by the outermost constructor and the base type). For the pool the invariant (`PoolInv`) is that an object
is with at most one user in `Get`, in `Put` or between them, and not in the pool at the same time; it needs that `Put`
stores an object after it has reset it.

Every invariant and every action property of the passing runs is proved, and so is the refinement of `LinkRegistry`.
Model-checked only is liveness (`EventuallyTried`, `CallsReturn`, `LocksAreReleased`, `CloseEnds`, `ShutdownEnds`,
`FailureStopsService`): temporal reasoning under fairness is out of the prover's reach. No module uses recursion.

## What is not modelled

- *Not worth a model*: sessions, trusted subnet, entities, middleware (pure functions of one request,
  or input and output); generated code; static analysis; mocks; the connection helper, which is unused.
- Settings that behave like one of those in `Application`, their values and formats, and the trusted subnet's.
- The text the generator writes around its statements, its walk over the directories, and comments it looks for.
- `Update` and `Delete` of the repository, `CreateAuditEvent` of the client and `Reopen`'s callers, which do not exist.
- Expiry of links (`expires_at` lies a year ahead) and click counts.

## Plan

What remains, in this order:

1. `AuditAdapter` with a receiver that is closed under it, by composition with `AuditReceivers`.
2. What reads return while a call is at work on the same store.
