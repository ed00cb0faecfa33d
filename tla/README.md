# Verification of jsexec

jsexec runs JavaScript in workerd processes and offers, on top of that, a small
function service (functions, versions, aliases, invocations) kept in SQLite.
This directory holds TLA+ models of its core, the TLC runs that check them and
TLAPS proofs about them. All paths below are relative to the repository.

## The system

| Part | State it keeps | Operations | Talks to |
|---|---|---|---|
| Function registry, `src/lambda/registry.rs`, `migrations/001-003` | tables `functions`, `function_versions`, `function_aliases` | create, update, delete, publish, create/update alias, resolve, get, list | SQLite, one statement per await, no transactions |
| Versioning manager, `src/lambda/versioning.rs` | none | publish, upsert alias, resolve | registry |
| Function invoker, `src/lambda/invoker.rs` | none; spawned tasks for Events | invoke: RequestResponse, Event, DryRun | registry, handler runtime, metrics collector |
| LambdaExec activation, `src/lambda/activation.rs` | none | the service's methods; `invoke` as an event stream | all of the lambda parts |
| Metrics collector, `src/lambda/metrics.rs`, `migrations/004` | table `invocations` | record, aggregate, percentiles, cleanup | SQLite |
| Handler runtime, `src/lambda/runtime.rs` | none | wraps function code and executes it | runner |
| Ephemeral runner, `src/runner.rs` | `PORT_COUNTER` (one per process), one workerd per execution | `execute` | workerd, over HTTP on a port |
| Worker pool, `src/pool/` | workers with a busy flag, a semaphore, statistics | new, acquire, drop of a guard, shutdown, execute | workerd, over HTTP |
| Executor worker, `src/runtime/executor.js` | none | /execute inside pooled workers | |
| JsExec activation, `src/activation.rs` | script store (map behind a lock) | execute, eval, run, store, execute/list/delete script, module and package variants | runner, bundler, plexus client |
| Plexus client cache, `src/plexus_env.rs` | bundle files keyed by backend and hash | get bundle | synapse, hub-codegen, esbuild as child processes |
| Bundler, `src/bundler.rs` | a `BundleCache` (always `NoCache`) | bundle package, bundle library | esbuild, tsc |
| Lambda start, `src/lambda/init.rs` | two connection pools | initialize, migrations | SQLite |
| Import transform, types, context, pool adapter | none | pure functions, a stub | |

`src/lib.rs` declares neither `pool` nor `runtime`: the worker pool is source
that `docs/implementation-status.md` describes, but not part of the built crate.
It is modelled as written.

What is hard here. Registry calls are sequences of single statements, so two
calls interleave at every await; the tables' constraints are the only guard.
An invocation reads several rows in turn while others change them, runs for any
time, and records itself afterwards. The runner knows its child only by a port.
The pool ties a semaphore to a set of flags by the order of two releases. Events are
lines of text in a stream of bytes that the network cuts anywhere. Migrations run
statement by statement, also when another process runs them at the same time. Any
future may be dropped at any await, and any process may restart. The hazards, each at
its line, are listed in `PROJECT.json`.

What makes each part correct:
- registry: unique keys, references that hold, version numbers without gaps,
  published rows that never change, writes that do what they report;
- invoker: an invocation runs what its reference names, and answer, record and
  run agree; every invocation ends;
- runner: an execution runs its own code, whichever workerds are still about, tells
  at most one outcome, tells its failures, and ends;
- pool: a permit leads to a worker, a worker serves one guard, nothing is lost;
- event lines: what the worker wrote is what the caller gets, in order and whole;
- start: a system that says it is ready is, and starting again loses nothing.

## The modules

| Module | Content |
|---|---|
| `FunctionRegistry` | registry and versioning manager: one action per SQL statement |
| `Catalogue` | abstract specification: what those who use the registry may rely on; `FunctionRegistry` implements it |
| `ExecutionStream` | abstract specification: what a reader of `execute()` may rely on |
| `EphemeralRunner` | `execute()`, workerd and the generated worker; implements `ExecutionStream` |
| `LambdaInvocation` | invoker and `LambdaExec::invoke`, an extension of `FunctionRegistry`, composed with `ExecutionStream` by INSTANCE |
| `ScriptStore` | the JsExec methods over the script store and those that execute code, composed with `ExecutionStream` twice: the runner's streams below, the calls' streams above |
| `PlexusClientCache` | `get_plexus_client_bundle`, its cache files, the backend whose schema changes |
| `InvocationMetrics` | `MetricsCollector`: the statements of `get_function_metrics` against the writers of the table |
| `EventChannel` | abstract specification: what the pipe from the user's code to the reader of its events promises |
| `EventLines` | the worker's writer, the bytes on the wire and the two hosts' reading loops; implements `EventChannel` |
| `LambdaStart` | `LambdaSystem::initialize` and the migrations, for server processes that share a database file |
| `WorkerPool` | `PoolManager`, `WorkerGuard`, startup and shutdown of `Worker` |
| `MC...` | instances for TLC: symmetry sets, functions that a .cfg cannot write |
| `...Proofs` | theorems and their proofs |

### FunctionRegistry

State: the three tables as sets of rows, the ids drawn so far (`FunctionId::new`
is a UUID v4: never the same twice), and per client the call it is in. A row's
`config` is `[code, handler]`: `code` for the code and its hash, `handler` for the
columns an update can set without the code. An action is one statement and the
code up to the next await; `pc` names the statement that comes next. A statement
is atomic, constraints and cascades included (sqlx switches SQLite's foreign
keys on). `Abandon` drops a call between statements; `Restart` ends all calls in flight at
once (`LoseCalls`): what was written stays. `create_alias`'s error for a UNIQUE violation
is `"AlreadyExists"`; every other rejected statement is `"Database"`.
Of two upserts of one new alias the slower one ends with that error, wrapped as
`Internal`, although it asked to create or update: `src/lambda/versioning.rs:119`.
Left out: name validation (names are valid), timestamps, environment JSON,
I/O errors of the database.

`Catalogue` keeps, per function, its name, its current configuration, the list of published
configurations and the aliases, and changes as a whole: create, delete, update, publish the
next version, point an alias to a version there is. The refinement mapping reads an entry
from the tables by their keys (`CatalogueOf`); a function's version rows are a list because
their numbers have no gap. Of a call's statements at most one, the last, changes the catalogue. The
catalogue does not say which configuration an update or a publish stores: each works on the row
it read at its start, so that of two updates at once the earlier may be lost
(`src/lambda/registry.rs:323`), and a version may hold what an update has replaced since.

### EphemeralRunner and ExecutionStream

State per execution: where `execute()` stands, its port, its failed health
checks, its workerd process, whose workerd took its request, the run of its code,
and the events its caller got. The port counter is per server process
(`Hosts`). `Bind`, `Exit`, `EmitConsole` and `EmitOutcome` are workerd and the
generated worker module; the other actions are the host. `Finish` drops the child,
which only sends it a signal (`kill_on_drop`): `Die` is the moment it takes effect, and until then
workerd may stay on its port or even bind it. `Crash` ends a server process in the middle of executions:
they are `"lost"`, and their workerds stay, with nobody to signal them. A server process that is started
again is another member of `Hosts`. A health check and a
request go to whoever listens on the port. Only workerd processes of this
program are on the ports; a program that is not jsexec and answers `/health` with 200 is
not modelled, one that merely holds the port is (`Exit`). An error of `try_wait`
itself is not modelled. Lines are whole: that "the outcome line arrives or is dropped"
(`EmitOutcome`) is what `EventLines` shows of chunks, UTF-8 and parsing. The generated worker
pastes the user's code where its own `writer` and `encoder` are in scope (`src/runner.rs:615-622`):
code that uses them could tell outcomes of its own. The models assume that it does not; everything said here
of one outcome rests on that (`EmitOutcome`, and `WriteOutcome` of `EventLines`). The text of
errors is left out, and with it that `truncate_stderr` (`src/runner.rs:532`) panics
on a character of several bytes at its cut; a stream that panics ends as in `Drop`.

`ExecutionStream` keeps a phase and an outcome per execution. The refinement
mapping reads the phase from `pc` and the outcome from the events told. `Drop` takes a set of open
executions: one that its reader leaves, or all that a crash ends at once.

### EventLines and EventChannel

State: the user's script, the bytes on the wire, the host's loop and its buffer, the
events it yielded. `Write` is `JSON.stringify` and the text encoder: a line is its kind, the bytes of a text of
one-byte and two-byte characters, the closing brace and a newline; JSON's own
punctuation is one byte wide and a newline in a text is escaped, which is all of
JSON that the loop can tell apart. `ReadChunk` takes any number of bytes and decodes them
on their own (`from_utf8_lossy`): half a character becomes a replacement mark, here and in the
chunk that brings its other half. The host's characters are written byte by byte as well, so
that decoding changes bytes and never their number. `TakeLine`
and `Leftover` parse what is between newlines and what is left at the end.
`host` says whose loop it is. The two differ in two places: the pooled
`Worker::execute` yields an error when reading fails and returns, while the runner breaks
out of its loop and still parses the rest of the buffer; and the pool's strict parser refuses an error whose stack
holds a frame without a location (`Unreadable`), which `executor.js` does write. The pool may
therefore tell an outcome and then a `StreamError`. Script, wire and loop are separate
actions; `Drop` is a caller that leaves. Four histories are kept for the properties: where each line
ends in all that was written (`ends`), which line each event tells (`told`), how many lines were
taken (`taken`), and at which bytes a chunk ended inside a character (`torn`).

`EventChannel` is a queue that delivers in order, skips what the reader has no event for, may
break, and may blur a wide character into two marks. The refinement mapping takes as queue the
lines written and not yet taken.

### LambdaStart

State: per server process where its `initialize` stands and the next statement of the
migrations, per database its objects and the rows of `functions`, whether the file exists. A
`.sql` file is a table and its indexes, the indexes taken as one; SQLite commits each statement, so a crash leaves a prefix.
A file is one database for all; each pool on `sqlite::memory:` has one of its own.
`Fault` is a failing statement (a locked file, a full disk) or a failing connection, `Crash` the end of the
process. sqlx does not create a missing file: with the default URL `sqlite:lambda.db` the first start
fails until somebody made the file (`CreateFile`). `CreateFunction` stands for the registry's
use of its pool. Left out: the later steps of `initialize`, which only build values.

### LambdaInvocation

The module extends `FunctionRegistry`: the registry's variables change by its `CallStep`, the stream's by `Stream`'s
actions; `inv` holds an invocation's locals and `records` the table of
invocations. An action is one statement of the invocation. The foreign key of
the table makes `RecordInvocation` fail when the function is gone, and
`Cascade` removes a function's records with it. `pc = "gone"` is an invocation whose
future was dropped: by its caller (`GiveUp`; an Event's task has none) or by a
restart (`ProcessRestart`), which ends the registry's calls with it. `metrics` is chosen at the start and fixed. `LambdaExec::invoke` ignores the
invocation type it parsed (`src/lambda/activation.rs:122`), so all its requests
are treated alike; a DryRun sent there runs the code. `Verdict` is what a caller learns of the
stream: a result, an error, or, of a stream that ended without an outcome, neither of them
(`"silent"`), under the label of a success.

### WorkerPool

State: the pool's startup, each worker's process and busy flag, the free permits,
and per caller where it is in `acquire()` or with its guard. `TryAcquire` is one
compare-and-exchange: the scan over the workers interleaves with other scans and
releases. `DropGuard` frees the worker and `DropPermit` returns the permit, in
the order Rust drops them. The semaphore is tokio's: first come first served, a
returned permit goes to the longest waiter (`ahead` keeps the order), a cancelled
waiter leaves the queue or passes its permit on. `Occupied` names workers whose
port a foreign server holds: it answers the health check, and the worker starts
with a dead process. Crashes can hit any worker at any time; the code does not
respawn. The stream of `Worker::execute` is in `EventLines`. Left out: statistics, the unused
limits of `PoolConfig`.

### ScriptStore

State: the map of scripts, the ids drawn, the runner's streams (`ExecutionStream`, by
INSTANCE), and per call of the activation where it stands. A call does nothing before its
first poll (`Begin`). The lock is never held over an await, so what is done under it is one
step; telling of it is another, and others can see the map in between. A call can be
dropped where it awaits: the lock, the bundler, the consumer of a list, the runner.
`req.stored` and `req.deleted` are the ids of which that was told when the call began, for
the properties. One method, `execute`, stands for the eight that are given the code or its file.
The store lives in memory: a restart is `Init`. Left out: names, hashes, sizes and times
of scripts, and that `execute_script` runs without the configured libraries.

### PlexusClientCache

State: the backend's schema, per hash the cache file in two pieces, and per request
its step and locals. A schema and its hash are one value; so are an IR and the
bundle made of it, the tools being deterministic. `fs::read_to_string` is `Lookup` and
`ReadRest`, one piece each, so that a hit may be made of what two writers left. `fs::write` is `PutOpen`
(create and truncate), `PutHead`, `PutTail`: other threads read and write between
them, a write may fail (`PutFails`), and `Restart` may cut it off. A request can
be dropped at its awaits, of which `put` has none. `GetBackendHash` and
`GenerateIr` are the moments the backend answers synapse. `seen`, `torn` and
`slipped` record history for the properties. Left out: progress events, and the
execution after the bundle is there (`EphemeralRunner`).

### InvocationMetrics

State: the functions, the table `invocations` as a function from ids to rows, and one
call of `get_function_metrics` (calls only read, so they do not meet). Its five SELECTs
are five actions; `Record`, `Cleanup` and `DeleteFunction` come between them. `Fetch`
takes any row at the offset, since rows of one duration are in no order, and fails when
there is none (`fetch_one`). `lost` and `grown` say whether the selected records have
changed since the first SELECT. Left out: the averages and the other sums of the first
SELECT, which is one statement.

## The runs

| Run | Instance | Shows |
|---|---|---|
| `registry_safety` | 2 clients, 2 function ids, 1 name, 1 alias, 2 codes, versions up to 2; symmetric | types, references, contiguous numbers, checked versions stay, published rows immutable, alias writes take effect, `Catalogue` implemented |
| `worker_pool` | 4 callers, 3 workers, one port taken, 2 health checks | a permit finds a worker, guards exclude each other, busy flags and permits balance, waiting ends |
| `runner` | 2 executions, 1 server process, 3 ports, 2 health checks, 1 console line | isolation also from workerds that outlive their execution, failures told, `ExecutionStream` implemented: one outcome, and an end |
| `runner_two_hosts` | 2 executions in 2 server processes | violation: an execution runs in the other's worker |
| `invocation` | 1 invocation, 1 registry client, 1 function, versions up to 2, 2 handlers | snapshots run as published, answers and records tell the outcome of a run that had one, invocations end |
| `invocation_exec_snapshot` | the same, 1 version | violation: `LambdaExec::invoke` runs a version with the current configuration |
| `scripts` | 3 calls, 2 script ids, 2 codes | finds and lists agree with earlier reports, what runs is what was stored, calls implement `ExecutionStream` |
| `plexus_cache` | 3 requests, 2 schemas; symmetric | generated bundles are whole and current, overlapping writers leave a whole file |
| `metrics` | 3 records of one function, 2 durations, 2 times; symmetric | undisturbed metrics are exact, and only removals make the call fail |
| `event_lines` | 3 lines; texts: empty, and wide-narrow-wide; both hosts; cuts at every byte | `EventChannel` implemented: events in order, whole, none lost but the tail of a broken stream; damage only at split characters |
| `lambda_start` | 2 server processes on one file, 3 faults, 2 functions | a successful start has every table, nothing stored is lost, the first start after the last fault succeeds |
| `lambda_start_in_memory` | 1 server process in memory, 1 fault | violation: the registry's pool has no tables |

Why these bounds are enough. The registry's races need two calls; a third adds
no new pair of adjacent statements. Two versions give a MAX, a gap and a repointed
alias; two ids with one name give the name conflict and, after a delete, the reuse
of a name. Four callers over three workers give a queue, a full pool and
a scan that is overtaken twice. Two executions with three ports and a start at 2
make the counter wrap, to a port that nobody uses: a wrap to one in use takes more executions at once than
ports, and `OneHostNoWrap` excludes it from the proof. One invocation suffices because invocations meet only in the
registry, where the other client does all that another invocation cannot do. Three requests
give two writers that overlap while a third reads. Three calls on scripts give a store, a
deletion, and a second deletion, a list or an execution that meets them; two schemas give a change and a
change back. Three records give a 50th percentile that differs from the 95th, ties and
a range that leaves some out; that the 95th and 99th differ needs more records than
TLC can take, and the theorem covers them. Three lines give a line before and after
one that is cut, and a text with wide characters at both ends gives every position of a cut.
Three faults give a start that fails halfway, its successor that fails further on, and a crash
of the other process meanwhile. The
one unbounded counter of the code, the version number, is bounded by `MaxVersion` in
`RoomToPublish`; console lines are bounded by `MaxConsole`, lines by `MaxLines`, faults by `MaxFaults`.

Symmetry is used in `registry_safety`, `plexus_cache` and `metrics`, which check no
liveness: ids, clients, requests and schemas are compared for equality and nothing else. Deadlock checking is off in the
runs of the pool (a failed startup stops it), of the runner, of the scripts, of the plexus
client and of the event lines (finished executions, calls, requests and streams stop), and of
`lambda_start` (ready servers with nothing left to store stop);
it is on in the others.

Fairness. Invocations in flight are polled (`WF` of their next
step); nobody is obliged to start one, and abandoning is never forced. The pool
assumes besides that a caller that holds a guard lets go of it:
without that `acquire()` has nothing to promise. The runner assumes fairness of
the host's own steps only: every request of its HTTP client has a timeout, so
health check, request and read end whatever workerd does; no fairness of workerd or
of the user's code is assumed. `ExecutionStream` passes that on as the fairness of `Close`,
and `ImplementsStream` checks that the runner keeps this promise.

`EventLines` assumes that the stream is polled and that bytes written arrive; nothing of the
user's code. `LambdaStart` assumes that `initialize` is polled; `Recovers` speaks of starts
after the last fault.

No liveness is claimed of a plexus request, nor of a call that bundles before it executes (`ScriptStore` states none):
their tools run without a timeout, and a hung synapse or esbuild hangs the call.

The violations are disagreements of the code with its own docs; `PROJECT.json` quotes the lines.

## The proofs

Each proof module shows an inductive invariant `IInv` (defined in the model
next to the properties): `Init => IInv`, `IInv /\ [Next]_vars => IInv'`, with one
step per action, and derives the properties from it.

- `LambdaInvocationProofs` on the registry, for every set of ids, names, clients and every `MaxVersion`:
  `TypeOK`, `KeysUnique`, `ReferentialIntegrity`, `VersionsContiguous`,
  `VerifiedVersionStays`, `PublishedImmutable`, `AliasWriteTakesEffect`; `KeysUnique` is a part of the
  invariant and not checked by a run of its own. The strengthening: ids in use were drawn
  (`UsedIds`), so a new function inherits nothing from a deleted one; a publish about
  to insert number n finds 1..n-1 (`NextNumberFits`); an alias that was read stays
  (`ReadAliasStays`), which is why an UPDATE whose hits nobody counts has its effect. Without `NextNumberFits` a gap could come from the delay between MAX and INSERT.
  `RegistryIsACatalogue` proves `ImplementsCatalogue`: unique keys make each entry what the one row of its
  key says (`ReadVersions`), the number a publish inserts is the length of the list plus one (`NumbersBefore`), a
  fresh id finds no rows, and the row an alias is pointed to exists; every other statement leaves the
  catalogue as it is.
- `WorkerPoolProofs`, for every finite set of callers and every size: `TypeOK`,
  `WorkerAlwaysFound`, `GuardsExclusive`, `BusyIffHeld`, `PermitsConserved`. The argument
  is `ScanBound`: at most Size + 1 - k permit holders stand at worker k or beyond.
  A caller steps past worker k only because a guard holds k, and that guard's
  caller stands at k: so those at k or beyond are one more than those beyond
  k, and nobody is left to step past the last worker.
- `EphemeralRunnerProofs`, for every set of executions and server processes: `TypeOK`,
  `FailureReported`, `OneOutcome` (proved only; the run checks it as part of `ImplementsStream`); and `OwnWorker` under the assumption
  `OneHostNoWrap`: one server process, and no more executions than ports from the first
  one up, so that the counter does not wrap: then no two executions ever have one port, and it does not
  matter which workerds are still alive. `runner_two_hosts` shows that one server process is needed; a
  process started after a crash is a second one. `RefinesStream` is the
  safety part of `ImplementsStream`: an event only adds its own kind to what was told
  (`ToldMore`), and the invariant keeps the runner's own error from coming second.
- `PlexusClientCacheProofs`, for every set of requests and schemas: `TypeOK`, `CacheExact`,
  `GeneratedIsCurrent`. The strengthening is `PiecesToCome`: a piece missing from a file
  that is neither torn nor slipped is one that a writer in mid-write has yet to write, also
  after another writer truncated the file under it.
- `ScriptStoreProofs`, for every set of calls, ids and codes: `TypeOK`, `DeletedOnce`
  (proved only), `FoundInTime`, `RunsStored`, and `ImplementsStream`. The strengthening is `Accounted` with
  `RemovedIsGone`: an id drawn is in the map or was removed by a call, never both. The refinement
  maps a call's stream to its own error, if it has one, and else to the runner's outcome
  (`CallPhase`, `CallOutcome`); each step moves one abstract stream or none (`MoveMaps`).
- `LambdaInvocationProofs` on the composition, for every set of invocations besides, and over
  all registry calls: `InvocationTypeOK`, `InvokerRunsSnapshot`, `AnswerTellsRun`, `RunsRecorded`. The last two say
  nothing of what becomes of a stream without an outcome (see the findings). The invariant, `InvocationInv`, is the registry's `IInv`, the invocation's fields as they follow from `pc` (`Shape`), and two facts that survive every
  registry step: a version once read keeps its configuration and goes only with its
  function (`HoldsSnapshot`), and so does the record of a finished run (`OnRecord`). The
  steps of the registry enter by `RegistryMoves`, from the lemmas that prove the registry itself: versions
  change by publishing a number that is new or by a cascade, and an id drawn is never created again. Without the last a record or a
  snapshot could come to belong to another function. `InvocationsKeepRegistry` shows that the composition
  implements the registry's `Spec`: a step of an invocation leaves the tables alone, and one restart of the
  process is one restart of the registry. So every theorem about the registry holds in the
  composition; `InvocationsKeepVersions` says it of published versions, `InvocationsKeepCatalogue` of the catalogue.
- `EventLinesProofs`, for all texts, any number of lines and any chunks: `TypeOK`, `DamageNeedsSplit`,
  and `LinesAreAChannel`, the safety part of `ImplementsChannel`. The strengthening says where each byte is: the lines lie
  one after the other in what was written (`LinesInOrder`), each byte of a line not yet taken is in the buffer
  or on the wire at its place, lost where `torn` says so (`Pending`), and the wire starts inside a
  character only if the last chunk ended there (`WireWhole`). From that, the first newline in the buffer is
  the newline of the next line (`NewlineFound`), the characters before it parse as that line's event
  (`ParsesLine`), and a rest without a newline parses only if nothing but the newline is missing
  (`ParsesRest`). TLC checks `DamageNeedsSplit` and `ImplementsChannel`; the parts of `IInv` hold on that run's instance too.
- `LambdaStartProofs`, for every set of servers and functions and every number of faults: `TypeOK`,
  `StoredSurvives`, and `ReadyToUse` under the assumption `InMemory = {}`; `lambda_start_in_memory` shows
  that it is needed. The strengthening is `Progress`: the statements behind a server's step are done
  in the database it migrates (`Done`), and no step of any server undoes one, since the file is never
  emptied; that the eight statements create all objects is `StatementsCover`.
- `InvocationMetricsProofs`, for tables of any size: `TypeOK`, `FailsOnlyOnLoss`,
  `QuietReadExact`. As long as nothing was lost, what was counted is still there
  (`CountStands`), and an offset lies below the count (`OffsetBounds`); as long as nothing came
  either, the answers so far are exact (`ExactSoFar`), because the row at offset
  `n * p / 100` satisfies the reference definition of a percentile (`OffsetIsPercentile`).

Assumptions are the named ASSUMEs of the modules; TLC evaluates them in the runs.

Only model-checked: all liveness (`AcquireReturns`, `InvocationEnds`, `Recovers`, and that
streams come to an end in `ImplementsStream` and `ImplementsChannel`; fairness and ENABLED are out
of the prover's reach).

## Findings

- `runner_two_hosts`: every server process starts its port counter at 30000, and the
  health check accepts whoever answers: with two processes on a machine an execution may run in the
  other's worker. A workerd that a crashed server process left on its port is met the same way
  by the next process.
- `invocation_exec_snapshot`: `LambdaExec::invoke` of `name:alias` takes the code from the version and
  handler, environment and timeout from the current row.
- `lambda_start_in_memory`: the system that `LambdaConfig::in_memory()` configures migrates one
  in-memory database and gives its registry another, without tables.

One disagreement is no run of its own. A run whose stream ends without an outcome, because the
HTTP client's 30 seconds are over (`src/runner.rs:354` logs and stops reading) or the outcome line did not parse, is
answered and recorded as a success (`src/lambda/invoker.rs:518`); the function's own `timeout_ms` is enforced nowhere.
`test_timeout_handling` (`src/lambda/invoker.rs:714-717`), one of the unwritten tests that "serve as
documentation of expected behavior", says "Returns timeout error with appropriate metrics". The models have this end
(`BreakStream`, `Close` without an outcome, `Verdict`), and `AnswerTellsRun` and `RunsRecorded` except
it by name: that they hold says nothing in favour of it.

Two races the models contain without a property against them, because no doc says more: an update whose function is
deleted after its SELECT still reports success (`src/lambda/registry.rs:350`), and a plexus bundle
generated while the schema changes stays under the earlier hash (`src/plexus_env.rs:340`; `CacheExact`
excepts it by `slipped`).

## Order of the work

The modules were written in the order of their weight: `FunctionRegistry`, `WorkerPool`,
`EphemeralRunner`, `LambdaInvocation`, `PlexusClientCache`, `InvocationMetrics`, `ScriptStore`,
`EventLines`, `LambdaStart`. `Catalogue` came last, once the registry's invariants were proved. What could follow: the metrics'
reads composed with the invocations that write their table.

## Not modelled

- Bundler: calls of esbuild and tsc on files of the caller's own; every caller passes `NoCache`, so that its cache keys
  are never used. A failure to bundle is `ScriptStore`'s `Prepare`.
- Import transform, handler wrapper, workerd configuration, stderr classification, stack parser:
  text made from text, without state.
- Lambda context: a value built once. Pool adapter: a stub that returns an error.
- Execution on pooled workers from end to end: nothing in the crate connects the pool to a
  caller (`src/lambda/pool_adapter.rs` does not). The pool and the lines of its workers are modelled
  each on its own.
- `get_recent_invocations`, `get_global_stats`, list and get methods: one read each.
- Resource limits: declared in `src/types.rs`, enforced nowhere in the code.
