# TLA+ verification of semisweet

semisweet is a semantic cache: clients hand a shared daemon a natural-language
query with optional keys and context, and get back the bytes stored for it or
for a query close enough to it.  The daemon is started on demand by its first
client, answers `Set` before the write is durable, and leaves by itself when
nobody uses it.  This directory holds models of the parts whose correctness
depends on interleavings, failures and timing, the TLC configurations that
check them on small instances, and proofs, checked by TLAPS, of the central
invariants for every value of the constants.

## The system

| Component | State | Operations | Talks to |
|---|---|---|---|
| Connection task (`daemon/conn.rs`) | where it is in a handler | handshake, Get, Set, Del, RegisterNamespace, Ping, Bye | shadow, write queue, inference pool, supervisor's event channel |
| Pending shadow (`daemon/state.rs`) | entry id -> value still draining | insert, get, holds, remove, remove_if | connection tasks, write workers |
| Write queue (`daemon/writer.rs`) | bounded channel, in-flight counter, 2 threads | try_push, is_drained, worker loop | shadow, cache, supervisor |
| Cache (`cache.rs`, `scoring.rs`) | none of its own | get, prepare, commit, delete | entity, embedding, vector and object backends |
| Inference pool (`daemon/inference.rs`) | unbounded channel, n threads | run | connection tasks |
| Namespace registry (`daemon/state.rs`, `registry.rs`) | name -> cache and shadow, build locks | resolve, register | connection tasks |
| Supervisor (`daemon/supervisor.rs`) | refcount, idle timer, signal | accept, count, idle exit, drain | connection tasks, write queue |
| Daemon process (`daemon/mod.rs`) | instance lock, socket and pid files | daemonize, run_orphan | file system |
| Client (`client/stub.rs`, `client/spawn.rs`) | spawn lock, connection | connect, spawn, hello, request with one retry | daemon process |
| Bindings (`python.rs`, `python/semisweet`) | once-cell with the connection | get, set, delete, shutdown_daemon | client |
| Vector stores (`backends/vector_*.rs`) | entries and BM25 counters, or a remote index and a cache of its dimension | upsert, query, delete | cache |
| Object stores (`backends/object_*.rs`, `compression.rs`) | files and temporary files, or a bucket | put, get, delete | cache |
| Extractors and embedders (`backends/entity_*.rs`, `embed_*.rs`) | a loaded model or an API client | extract, embed | cache |
| Configuration (`registry.rs`, `newtype.rs`, `error.rs`, constructors of `python.rs`) | a configuration, as JSON on its way to the daemon | validate, build | bindings, registry |

What is hard here, and what makes each part correct:

* **Write-behind.**  A `Set` is acknowledged when its job is in the channel.
  Until a worker has put the object and upserted the vector, reads are served
  from the shadow.  Two workers, any number of connection tasks and Dels touch
  the shadow and both stores in separate steps.  Correct means: an acknowledged
  write never disappears from view, a delete is reported and stays, the shadow
  does not leak, later writes win.
* **Supervision.**  Connection tasks report to the select loop through an
  unbounded channel; the idle branch's guard is read when a select is entered.
  Correct means: the count is right, never underflows, the daemon leaves when
  idle and on SIGTERM, and not while in use, and accepted writes land first.
* **Lifecycle.**  Clients and daemons are processes that may die at any step
  and share four files.  Correct means: one daemon, reachable while it listens,
  no client stuck, no client failing without cause.
* **Sessions.**  A handle's calls share one connection behind a mutex, made by
  whichever call comes first; a call may be cancelled at any await, and the
  daemon may be replaced between any two requests.  Correct means: each call
  returns, with its own answer; a namespace's cache is built once; a retry does
  not repeat what was done.
* **Retrieval.**  Which stored entry a query matches is decided by filters,
  scores, floors and a truncation to the top k, in the store and then in the
  cache; contexts are scored by counters that every upsert and delete updates.
  Correct means: a hit passes every gate, the best entry is found unless it was
  cut, an exact repetition hits, and the counters never drift.
* **Stores.**  A commit writes an object and then a row, a delete removes them
  in the other order, each half in several steps; remote calls fail with or
  without effect, and the daemon may be killed anywhere.  Correct means: no
  reader sees half a value, what was reported is stored, a row has its object,
  and a cached dimension never refuses a good embedding.
* **Configuration.**  Arguments are validated in the client, travel as JSON, are
  validated again and built into backends by a daemon with its own features and
  environment, and errors travel back.  Correct means: the two validations
  agree, what runs is what was chosen, queries and entries correspond, and an
  error keeps its class.

## Modules

| Module | Models | EXTENDS / INSTANCE |
|---|---|---|
| `WriteBehind` | conn.rs handlers, state.rs shadow, writer.rs workers, the cache.rs calls they make | instantiates `WriteQueue` |
| `WriteQueue` | the queue as counts: what the supervisor may rely on | |
| `Supervisor` | supervisor.rs composed with the queue contract and the connection tasks' events | extends `WriteQueue` |
| `Lifecycle` | stub.rs, spawn.rs, daemon/mod.rs and shutdown_daemon as processes over shared files | |
| `Session` | python.rs connect and round_trip, stub.rs request, conn.rs message loop and handle_register, state.rs registry | |
| `Retrieval` | cache.rs get, set and delete as whole operations: both extractors, both stores' search, the BM25 index, scoring.rs | |
| `Stores` | cache.rs commit and delete over disk or S3, compressed, and memory or turbopuffer, call by call with crashes | |
| `Registration` | python.rs constructors, registry.rs, newtype.rs, the backends' `new`, error.rs and the daemon's error mapping | |
| `MCWriteBehind`, `MCSession`, `MCRetrieval`, `MCStores`, `MCRegistration` | instances for TLC | each extends its module |
| `WriteBehindProofs`, `SupervisorProofs`, `LifecycleProofs`, `SessionProofs`, `RetrievalProofs`, `StoresProofs`, `RegistrationProofs` | theorems and their proofs | each extends its module |

Three modules look at the cache from three sides.  `WriteBehind` has the steps
of the daemon's tasks and takes the choice of an entry as the constant `Score`;
`Retrieval` has that choice and takes an operation as one step; `Stores` has the
steps inside one store call, which `WriteBehind` takes as one with or without
effect.

Definitions whose comment begins with "Mutant:" are plausible bugs.  Each is
an alternative to the definition that follows it, under which one named
property must fail; no specification uses them.  `PROJECT.json` pairs them, and
maps every other definition to the source lines it stands for.

## How the models correspond to the code

### WriteBehind

The granularity is one access to shared state: one critical section of the
shadow's mutex, one channel operation, one access to the atomic counter or one
backend call.  The tokio runtime and the workers are multi-threaded, so any two
of these interleave.

| Code | Model |
|---|---|
| `PendingWrites.entries` | `pending`: entry -> allocation or `NoArc` |
| crossbeam `bounded` channel | `queue`, at most `Capacity` jobs |
| worker thread | `worker[w]`: `recv` -> `enter` -> `prepare` -> `holds` -> `put` -> `upsert` -> `cleanup` -> `leave`, or `dead` after a panic |
| `InFlightGuard` counter | `inFlight` |
| object store, vector store | `objects`, `index` |
| a connection task in a handler | `conn[c]` |
| `handle_set` | `SetInsert`, then `SetPush` or `SetReject` and `SetUndo` |
| `handle_get` | `GetShadow`, `GetFind`, `GetFetch`; `LookupFail` |
| `handle_del` | `DelShadow`, `DelFind`, `DelVector`, `DelObject` |
| `WriteJob::run` | the `Worker...` actions |

A value is the `Arc` that carries it, numbered in the order of allocation:
`Arc::ptr_eq` in `holds` and `remove_if` is equality of numbers, and "newer" is
"larger".  Embedding, search and scoring are the constant `Score`, the rank each
stored entry has for each query, so that one entry may answer for another.  A
backend call that fails may have had its effect or not.

Ghost variables record what clients may rely on; no action's guard reads them.
`acked` is the last acknowledged Set of an entry that no Del has undone.  `lost`
are the entries whose acknowledged Set was dropped from the shadow without being
stored, by a failed commit or by the undo of a refused later Set; an
acknowledged entry that is not lost is *held*.  `raced` are the entries whose
latest Set came while a worker was past its `holds` check of an older one and
had yet to put it.  `leaked` are the allocations whose job ended before its
`remove_if`.  `known`, `quiet` and `erased` follow Gets and Dels.

### WriteQueue and Supervisor

`WriteQueue` is the queue as four counts: jobs waiting, jobs in the hands of a
worker that has not counted them, the counter, dead workers.  `Supervisor`
drives it and models `tokio::select!` as it works: the idle branch's
precondition is read when the select is entered (`SelectEnter`, `SelectLoad`:
`is_drained` makes two reads) and stays as read (`idleOn`) until some branch is
taken.  A connection's task is `link[k]`; its `Connected` and `Disconnected` go
through the channel `events`.  The idle timer and the drain deadline may pass at
any time.

### Lifecycle

Each process is a program counter; one step is one system call on the socket
file, the pid file, the spawn lock or the instance lock.  `MaxForks` bounds the
number of daemons, `Events` says which disturbances happen.  A listener accepts
connections into its backlog from `bind` until it is closed; only the select
loop takes them out.  SIGTERM is fatal until its handler is installed.

### Session

A call goes through `Enter` (`get_or_try_init`), `Connect`, `Register`, `Await`
if it initializes the cell, then `Lock`, `Send`, `Receive`; `Dropped` is any I/O or
codec error (`is_transient_drop`), followed by a `Connect` and the same request once
more.  It is met on a connection whose daemon is gone and, after `Break`, on one that
broke under a daemon that lives on.  `Break` loses the responses under way and leaves
the requests to the daemon (`stray`), which may carry them out (`ServeStray`) though
nobody reads the answer; a registration it has read goes on.  A registration is a
pair of call and attempt, since the retry sends another.
The daemon's side is `Serve` for the connection's next frame and `BuildStart`,
`BuildEnd`, `BuildFail` for a registration, which goes on when its client is
gone.  `Crash` stands for every end of the process: it empties the registry and
the requests under way, while responses already written can still be read.
`severed` records the calls whose connection broke as they waited; no guard reads it.
`Cancel` is the effect of cancelling a Python future, from how
`future_into_py` is used: the Rust future is dropped at its await.

### Retrieval

| Code | Model |
|---|---|
| a stored `VectorEntry` | its request `[query, keys, context]`, an element of `entries`; its entities are `EntryEntities`, the full pass over the request |
| `EntityBackend::extract(text, fast)` | `KeywordExtract`, `GlinerExtract` over the constant `Spans`, what the model finds |
| embedding and cosine | the constant `Dense`, in hundredths |
| `Bm25Index` | `bm25`, updated by `Bm25Insert` and `Bm25Remove` as the code does; `IndexOf` counts the same from scratch |
| `MemoryVectorStore::query` | `MemoryQuery`: the set of lists it may return, one for each order of ties |
| `TurbopufferVectorStore::query`, `fuse_multi_query` | `TpQuery`, `FuseMultiQuery`; `TpMatches` and `TpBm25` stand for the service |
| `ScoringConfig::accept`, `select` | `Accept`, `Select` |
| `Cache::get`, `set`, `delete` | `Get`, `Set`, `Delete` |

Logarithms are a table (the constant `IdfTable`) in hundredths and BM25's fractions are
integer divisions; all gates are compared in the same unit.  The run has a
`FastM` of 2 instead of 5, so that short lists are cut.  `Admissible` states the gates
independently of `Accept`, over scores counted from scratch.

### Stores

A disk put is three steps: the temporary file is created, written, renamed; its
name is `<<id, pid, counter>>`.  The bytes are a zstd frame, whole or cut short.
A remote call that fails may have had its effect.  The turbopuffer upsert is
three: the cached dimension is read, the row sent, the cache filled.  A 4xx may be
taken for a dimension conflict whatever the dimensions are (`DimensionError`:
`is_dimension_error` looks for words in the text).  The index
has the dimension of its first row; the memory index loses it with the process,
turbopuffer keeps it.  `Crash` ends the daemon and starts another, with any
process id, the counter at 0 and an empty cache.  `settled` and `raced` record
what a caller may rely on; no guard reads them.

### Registration

A string is an element with a trimmed form `Trim[s]`; a `CacheQuery` has its
keys as a vector in any order the set may be iterated in.  `host` is what the
daemon finds: Cargo features, environment variables, whether models can be
downloaded.  `ToJson` leaves absent fields out and `FromJson` reads them as
`None`.  `BuildCache` returns the first error of the parts in the code's order.
`Derive` keeps each field of the hash input as one element: fields are written
with their length, and UUIDv5, the hash, is taken to be injective.  `last` has the cause
of the last failure and the exception the caller sees.

## Runs

| Run | Instance | Shows |
|---|---|---|
| `wb_paths` | 1 entry, 2 connections, 2 workers, channel of 1, 2 Sets, every call may fail, jobs may panic, fairness | `TypeOK`, `NoGap`, `ReadAfterWrite`, `DeleteIsReported`, `NoResurrection`, `ShadowInFlight`, `NewestStored`, `ShadowDrains`; `ImplementsQueue`: the path refines `WriteQueue` |
| `sup_loop` | 2 connections, 2 workers, fairness | `TypeOK`, `RefcountPaired`, `NoUnderflow`, `IdleTimerFresh`, `SigtermExits` |
| `life_churn` | 2 clients, 4 forks, every event, fairness | `TypeOK`, `ServingReachable`, `OneDaemon`, `ConnectReturns`, `ColdStartConnects` |
| `session_calls` | 3 calls on 2 handles of one namespace, 1 restart, 1 connection broken under a daemon, every event, fairness | `TypeOK`, `BuiltOnce`, `UnknownMeansRestart`, `ServedOnce`, `OwnAnswerUncancelled`, `CallReturns` |
| `retrieval_lookup` | 7 requests over shared queries, keys and contexts; both stores, both extractors; `top_k` 2 | `IndexExact`, `NoFalseHit`, `BestUnlessCut`, `RepeatHits`, `DeleteIsMatch` |
| `stores_crash` | 2 threads, 1 entry, 2 values, 2 dimensions, 2 process ids, 3 operations, 1 kill, all four pairs of stores | `WholeValue`, `ReportedIsStored`, `RowHasObject`, `DimMismatchTrue`, `LitterIsWreckage` |
| `registration_config` | 2 handles, 4 names, 7 backend choices, 4 scorings, 7 queries, 3 hosts, restarts | `ErrorClassKept`, `EagerValidation`, `SameEntry`, `ServedAsChosen` |
| `wb_lost_update` | 1 entry, 2 workers, no failures | violation of `NoLostUpdate` |
| `wb_refused` | 1 entry, channel of 1, no failures | violation of `AcceptedKept` |
| `sup_idle` | 1 client, fairness | violation of `IdleExits` |
| `session_cancel` | cancellations | violation of `OwnAnswer` |
| `registration_hash` | as `registration_config` | violation of `EqualHashEqual` |

**What the properties set aside.**  `NoGap`, `ReadAfterWrite` and
`DeleteIsReported` are about held entries: after a failed commit, or after a refused
Set that overwrote the shadow, a Get does miss and a Del does answer `false`.  The
first of these the daemon reports to nobody; the second is the violation of
`wb_refused`.  `ShadowInFlight` and `ShadowDrains` name the one leak the code has,
a job that fails in prepare or panics, and hold with every fault on; with all
workers dead nothing drains.  `NewestStored` names the window through which
`wb_lost_update` loses a write, and says that there is no other.  `ServedOnce` names
the repetition that the retry makes when a connection breaks under a living daemon.
`DimMismatchTrue` allows turbopuffer a `DimMismatch` with `got = want`, which the
text match of `is_dimension_error` can produce.

**Bounds.**  The races of the write path are between a handler, a worker and one
more actor on one entry; two of each and two Sets produce all of them, with a
channel of one so that it is both empty and full.  A second entry matters only as
a competing match: the theorems have any number, the run one.  The
supervisor's count needs two connections to be neither zero nor one.  In
`life_churn` four forks allow a leaving daemon, a successor that stands down and
one that serves, and a further kill.  In `session_calls` two calls share a handle
(the cell and the mutex), a third on another handle races the registration, and
a restart and a broken connection, in either order, exhaust the single retry.
In `retrieval_lookup` the seven requests hold three that tie for a query, so that a
`top_k` of two cuts one, and five with a context; `MaxDocuments` 6 is the size of
the logarithm table.  In `stores_crash` all hazards are about one entry; a third
operation follows two that overlapped or were cut off, and two process ids let a
successor have its predecessor's or another.  `MaxSent` 2 in
`registration_config` is the pair that `SameEntry` compares.  The symmetry sets of `MCWriteBehind` are
used in the violation runs only, which have no liveness.

**Deadlock** is checked in `WriteBehind`, `Retrieval`, `Stores` and
`Registration`, whose clients may always send more.
It is not in `Supervisor`, `Lifecycle` and `Session`, whose processes end; there `SigtermExits`,
`ConnectReturns` and `CallReturns` state that they end as they should.

**Fairness.**  Weak fairness of each task, thread and process: the tokio
scheduler and the kernel run what is runnable.  In `WriteBehind` it is given to the
handlers of Set and to the workers: no write waits for a Get or a Del.  In `Supervisor`, the event,
idle and signal branches get strong fairness, since `select!` polls ready
branches in random order and none is passed over for ever; a worker's recv,
enter and leave are weakly fair together, so that some commit ends if one can,
and no fairness is given to panics, clients or signals.  `SigtermExits` does not
need commits to end: the deadline is weakly fair.  In `Lifecycle`, taking the spawn lock
is strongly fair: the kernel wakes a waiter of a file lock.  In `Session` a
call, a build and the serving of a connection's request are fair; cancellation,
crashes, broken connections and what is left of their requests are not.
`Retrieval`, `Stores` and `Registration` have safety properties only.

## Proofs

Seven modules prove, with TLAPS and for every value of the constants that
satisfies the named assumptions, what the runs check on one instance.
`PROJECT.json` lists the theorems; below is the argument of each, that is the
inductive invariant and why the property needs it.

**`WriteBehindProofs`**, from `WriteBehindAssumption`: any entries, connections
and workers, any capacity, score, fault set and bound on Sets.

* `TypeCorrect`.  The type invariant is not inductive alone: the counter is a
  natural number after `WorkerLeave` only if it is positive before, so it is
  proved with `InFlightExact`, which says the counter equals the number of
  workers mid-run.
* `NoGapCorrect`.  The worker drops the shadow at `cleanup` because *its* Arc is
  the shadow's, and what makes this safe is where that worker has been: the
  strengthening `GapInv` adds `Committed`, that as long as the shadow of an
  acknowledged entry is a worker's own Arc, the object is there once the worker
  has put it and the entry is durable once its commit has succeeded.  It rests
  on `ArcsDistinct`: an Arc has one carrier, a handler that has not pushed it, a
  queued job or a running one, so a push never acknowledges an Arc whose job
  has already run.
* `ReadAfterWriteCorrect`, `DeleteIsReportedCorrect`, for entries held when the
  request began.  A handler past its shadow
  check has only the stores to look in; `ReadInv` adds `KnownDurable`, that the
  entry such a handler relies on is durable from then on.
* `NoResurrectionCorrect`.  `EraseInv` says that no worker is between `holds`
  and its commit for an erased entry, and the same for the entry of a Del that
  is still running and that no write has raced.
* `ImplementsQueueCorrect`: the initial states map to those of `WriteQueue`, and
  each step to one of its steps or to a stutter, with the counts of the mapping
  as cardinalities of sets of workers.
* `ShadowInFlightCorrect`, with every fault: a carrier hands its Arc on with the
  shadow in place, and gives it up only where it drops the shadow, finds it
  replaced, or leaks it.
* `NewestStoredCorrect`, for any number of workers and every fault.  `UpdateInv`
  says that a shadow other than the acknowledged Arc belongs to a Set not yet pushed,
  that off the raced entries a worker about to put has the shadow's Arc or a Del has
  taken shadow and acknowledgement, and that a worker past its put whose Arc is the shadow's has its
  bytes in the object store.  The second is the window: `holds` is checked when the
  shadow is the job's, and a Set that replaces it before the put makes the entry
  raced.

**`SupervisorProofs`**, for finitely many clients.  `RefInv` looks at every prefix
of the event channel: `After(n)`, the count when the first n events have been
applied, is never negative, and with all of them it is the number of counted
connections.  `RefcountPairedCorrect` is the second half; `NoUnderflowCorrect`
needs the first, since the loop applies one event at a time.
`IdleTimerFreshCorrect` is an action property, from `IdleInv`: a count of zero is
always set together with the timer.

**`LifecycleProofs`**, from `LifecycleAssumption`.  `FilesInv`: the instance lock
is held exactly from `try_write` to the end of the process, so that only its
holder touches socket and pid file, which makes `ServingReachable` inductive.
`ColdInv`, for `OneDaemon`: until the first daemon listens, the client that
forked it has the spawn lock, and a client about to spawn has found none.

**`SessionProofs`**, from `SessionAssumption`.  `BuildInv` says what the build lock
protects (`BuiltOnceCorrect`); `Types` and `Turns` where the calls of a handle may
be, at most one past its mutex; `HomeInv` that the daemon behind a full cell knows
the namespace as long as it runs (`UnknownMeansRestartCorrect`); `ServeInv` that the
load of a call, the times this daemon has carried out its request and the copies it
may yet carry out, is within a quota: one for a request that was sent and one more
for a first whose connection broke as the call waited (`ServedOnceCorrect`);
`FrameInv` that
a handle with no cancelled call has at most one frame under way, for the call that
waits (`OwnAnswerUncancelledCorrect`).

**`StoresProofs`**, from `StoresAssumption`.  `TempInv`: a running put owns its
temporary name, since the counter never returns to a value while the process
lives, and what it renames is whole (`WholeValueCorrect`, `LitterIsWreckageCorrect`).
`DimInv`: what the check, the request and the cache fill know of the index's
dimension stays true, and only turbopuffer sends a request (`DimMismatchTrueCorrect`).  `RaceInv`: off the entries on
which a commit and a delete overlapped, a commit past its put has its object and a
delete past its first half has no row (`RowHasObjectCorrect`).  `AloneInv`: an
operation that met no other has the entry to itself, and its progress is what is
stored (`ReportedIsStoredCorrect`).

**`RegistrationProofs`**, from `TrimAssumption`, `ArgumentAssumption` and
`NoneAssumption`: strings have trimmed forms, arguments are strings, backend
objects have the fields their kind requires, and `None` is none of them.
`RoundTrip`: `FromJson(ToJson(c)) = c` for every configuration the constructors
make, from which `ServedAsChosenCorrect` and, with the check repeated on trimmed
text, `EagerValidationCorrect`.  `ClassOnTheWire` goes through every error
(`ErrorClassKeptCorrect`); the first error of a list is the one at its least
number, by `WFMin`.  `SameEntryCorrect`: the derived id determines query, key set
and context.  `HandleInv` and `SentInv` say that handles and queries came from the
constructors.

**`RetrievalProofs`**, from the assumptions of `Retrieval` on texts, scores and
configurations.  `IndexExactCorrect`: insert and remove keep the five counters of
the BM25 index equal to a count from scratch; lengths are counted as positions, a
set whose cardinality adds up document by document.
`MatchIs` follows a lookup through the
search and the scoring.  Both stores return only candidates that pass the filter,
with their true scores except for a component that is 0 in turbopuffer's fusion,
and every candidate that neither leg cut (`Sought`, from `RankedIs`: what a ranked
list leaves out has `top_k` others at least as good); `SelectIs` says that `Select`
takes the densest accepted one.  With `IndexExact`, without which a score would
depend on the store's history, this gives `NoFalseHitCorrect`,
`BestUnlessCutCorrect`, `DeleteIsMatchCorrect` and `RepeatHitsCorrect`.  The first
three assume `PositiveFloors`: to_config admits a threshold of 0, and with
turbopuffer a row that only the text leg found then passes with the dense score 0
it was given, whatever its cosine.  The logarithms, turbopuffer's score and the
texts are parameters of the theorems.

Where a loop of the code is a recursive function (`Select`, `FuseMultiQuery`),
that it is defined and what holds after each turn is proved with the set of the
numbers for which it holds, whose complement would have a least element (`UpTo`,
`LoopDefined`).

**Only model-checked**, on the instances above:

* liveness (`ShadowDrains`, `SigtermExits`, `ConnectReturns`, `ColdStartConnects`,
  `CallReturns`): the prover has no ENABLED and no fairness;
* the instances themselves: that the interesting cases occur, which the mutants
  of `PROJECT.json` show;
* that the constants' assumptions are satisfiable, which TLC evaluates in each run.

## What the code does that its comments do not say

With a run that shows it:

1. `wb_lost_update`: two workers may commit two Sets of one entry in the wrong
   order, between `holds` and `commit` (writer.rs:61-69).
2. `wb_refused`: a Set refused by a full channel has already overwritten the
   shadow of an accepted Set; undoing it leaves neither, and the accepted job then
   skips (conn.rs:260-277).
3. `sup_idle`: the last client leaves while a write is in flight, the idle branch
   was off when the select was entered, and nothing wakes it (supervisor.rs:101).
4. `session_cancel`: a cancelled call leaves its response to the next call of
   the handle (python.rs:92).
5. `registration_hash`: two `CacheQuery` objects that are equal hash differently
   when a key was given twice, apart only in surrounding whitespace: the set is
   trimmed into a vector and the hash renders the vector (python.rs:127, 254).

Seen while modelling, without a run:

* A client that arrives while a daemon is leaving spawns one that stands down,
  and times out (mod.rs:103): in `life_churn` a client may end in `failed`.
* The reconnect does not register the namespace again (stub.rs:217): after a
  restart the handle gets `UnknownNamespace` until another handle registers the
  name.  `UnknownMeansRestart` says that nothing else does this to it.
* An identical request may miss: with GLiNER when the fast pass finds nothing in
  the query and the full pass did, since the lookup then takes the context's
  entities (cache.rs:52); with turbopuffer when the namespace has so few rows
  that a context's raw BM25 against itself is below the gate
  (vector_turbopuffer.rs:317); with the memory store when its context is about ten
  times as long as the average, since the score is normalised by length
  (vector_memory.rs:109; beyond `MaxDocuments` of the run, met in the proof of
  `RepeatHitsCorrect`); and with either store when `top_k` others tie with
  it (vector_memory.rs:220, vector_turbopuffer.rs:379).  `RepeatHits` names these
  cases and excludes every other.
* `KeywordEntities(lang=...)` takes any language and fails as a `BackendError`
  when the namespace is first used; a Voyage dimension of 0 and an unknown local
  model also surface only then, as `ConfigError`.
* A second handle that registers a name with another configuration is served by
  the first one's cache and is not told (conn.rs:171).
* A temporary file of a put that failed or was killed stays for ever
  (object_disk.rs:54-55).
* An overlapping commit and delete of one entry may leave a row
  without its object (cache.rs:131-144); a lookup that finds it answers a miss.
* A job whose `prepare` fails returns without `remove_if` (writer.rs:52), and one
  that panics never gets there, so that its shadow stays for the daemon's life and
  answers Gets, against "the buffer only ever holds in-flight writes"
  (state.rs:20-22).  `ShadowInFlight` and `ShadowDrains` say that nothing else does.
* A connection that breaks under a living daemon as a call waits makes the client
  send the request again, and the daemon may carry out both (stub.rs:53-55, 213-222).
  `ServedOnce` says that nothing else repeats a request, and none three times.
* A 4xx of turbopuffer that mentions a dimension, for whatever reason, is reported as
  a `DimMismatch`, with `got = want` when the cached dimension agrees
  (vector_turbopuffer.rs:172-176, 401-411).
* `is_drained` is true while a worker has received a job and not yet entered its
  guard (writer.rs:100-101), and Sets are still accepted during the drain, so
  the process may end with accepted writes uncommitted before its deadline.
* A panic in a job ends its worker thread and nothing replaces it.
* The idle branch and a pending `Connected` event may be ready together, and
  `select!` may choose the former.
* shutdown_daemon signals the pid it read; if that process is gone and the number
  reused, it signals another.

## Not modelled

* What models, zstd, S3 and turbopuffer compute, beyond the results and failures
  the code tells apart: libraries and services.
* Path computation (`paths.rs`) and the launcher binary: pure, or a call of the
  daemon's entry point that `Lifecycle` has as `Fork`.
* Message framing and its 64 MiB bound, and the postcard encoding: a frame
  arrives entire, or the connection breaks.  `ping` and `bye`, which no binding calls.
* The text of representations and messages, and the equality and hash of the
  backend objects of `python.rs`.
* The Python package (`python/semisweet`): sequential code around the bindings,
  the user's function and pickle.
* turbopuffer's dense search is approximate and ranks exactly here, so
  `BestUnlessCut` and `RepeatHits` say what the code adds to its search, not that the
  service finds every neighbour.  A remote call that is reported as failed has had
  its effect by then or never will.
* Timing in `Lifecycle`: a daemon does not turn idle while a client is on its way to
  it, and a start takes less than the time a client waits for it (both stated at
  the actions).
* Power failure: the code makes no fsync, so a file system may lose a rename.
* Reuse of process ids between unrelated processes; poisoned mutexes (nothing
  panics with one held); protocol version mismatch in a session (one binary has
  one version).
* S3 keys of namespaces whose prefix and name run together (object_s3.rs:20):
  one namespace is modelled.

`PROJECT.json` lists every component with its status.

## Plan

1. The decorator and object cache of the Python package: concurrent misses of
   one key.
2. Theorems beyond the runs' properties: what `SigtermExits` and `ShadowDrains`
   rest on without fairness (a drained queue has no shadow left, the deadline is
   always set), and that `FromJson` and `ToJson` are inverse on every valid
   configuration as a listed result.
3. The wait of shutdown_daemon for the files to go.
