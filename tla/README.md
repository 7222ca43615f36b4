# A TLA+ model of the NSP platform's coordination code

NSP platform is a Go library of building blocks for services: distributed
transactions (`saga`), a distributed lock (`lock`), signed requests (`auth`), a
task queue, tracing, logging and configuration. This directory models the parts
whose correctness depends on the order in which concurrent actors act and fail, and
the functions their messages are made with: the saga engine with its dispatch and its
templates, the lock, request authentication, the task queue with the traces that
travel through it, and the reloading of configuration. TLC checks the models on
small instances; TLAPS proves the results that hold for every instance.

Contents: [inventory](#inventory), [modules](#modules), [runs](#runs),
[fairness](#fairness), [proofs](#proofs), [what the checks
found](#what-the-checks-found), [limits](#limits), [plan](#plan).

## Inventory

### Saga engine (`saga/`)

A transaction is a list of steps, each a forward and a compensating HTTP request
to a participant; an async step is accepted first and polled for its result. All
durable state is in PostgreSQL; any number of engine processes ("instances")
share it.

| Part | State | Operations |
|---|---|---|
| store (`store.go`) | rows `saga_transactions` (status, current step, `locked_by`/`locked_until`, `timeout_at`), `saga_steps` (status, retry and poll counts), `saga_poll_tasks` (`locked_by`) | one SQL statement each: create, claim, release, list recoverable, list timed out, set status (blind and compare-and-set), step updates, poll task acquire/release/delete |
| executor (`executor.go`, `runtime_context.go`) | none of its own; the step it works on | forward request with retries, set-up of polling, compensation with retries |
| poller (`poller.go`) | a goroutine per acquired poll task; `notifyChans` by transaction | scan, poll, record, delete, notify, reschedule |
| coordinator (`coordinator.go`) | task queue, active set, per-worker drive loop; timeout scanner | submit, drive loop, next step, wait for an async step, compensate, recovery scan (once), timeout scan (periodic) |
| engine (`engine.go`) | the above, with a context that `Stop` cancels | start, stop, submit, submit and wait |

Interactions: the drive loop calls the executor and writes through the store; the
executor leaves a poll task, any instance's poller picks it up, records the result
and notifies *its own* process; the timeout scanner of any instance moves the
transaction to `compensating` under the driver; a row lease
(`ClaimTransaction`) is meant to keep instances apart.

What is hard: processes crash or stop between any two statements; the lease may
run out, or be given away, while its holder is in a request; a request whose
caller saw an error may still have been, or still be, carried out; rows are read
once per iteration and acted on later; the cancelled context of a stop fails some
calls and not others (`durableStoreContext`); result and waiter meet through a
channel that may not exist yet.

Correct means: success is recorded only with every effect in place; what is
recorded as compensated was taken back; the status graph is respected and the
verdict final; forward actions go in order and compensation in reverse; no waiter
misses its result; every transaction is decided; what `SubmitAndWait` returned stays
true; `Stop` and `SubmitAndWait` return.

### Distributed lock (`lock/`)

State: the Redis key with its TTL; per `Lock` value the redsync mutex (token,
tries), `muMu`, and the watchdog goroutine. Operations: `Acquire` (retries),
`TryAcquire` (a temporary mutex that replaces the old), `Release`, `Renew`, the
watchdog's renewals. Hard: renewals race the TTL and each other, calls fail after
having had their effect, and the client and the watchdog share a mutex while one
waits for the other. Correct means: a holder loses its key only by expiry, timely
renewals keep it, calls return, abandoned keys go.

### Request authentication (`auth/`)

State: the nonce map with its expiry times, the credential map, the handlers in the
middle of `Verify`. Operations: `Signer.Sign`, the middleware with its `Skipper`,
the checks of `Verify` (headers, timestamp, nonce, credential, signature),
`CheckAndStore`, the periodic cleanup, `Stop`, `MemoryStore.Add`. Hard: handlers run
concurrently, the clock is read once per check, clocks differ between machines,
requests are delivered late, twice or changed, timestamp and nonce are taken from the
request before its signature is looked at, nonces are evicted and credentials replaced in
between. Correct means: of the deliveries of a request with its own timestamp and nonce at
most one goes on; what is served was signed with a key that counted, what is refused has a
reason; the map does not grow for ever.

### Dispatch of transactions (`saga/coordinator.go`)

State: the bounded `taskQueue` of each process, `activeTx`, the workers, and two scans
that lease transactions in batches. Operations: `Submit` (mark, enqueue or unmark), a
worker's claim, drive, release and unmark, recovery scan, timeout scan, start, stop.
Hard: `Submit` is called by three kinds of callers and uses the mutex in two separate
sections around the `select`; the queue may be full; a lease is taken before it is
known whether the transaction can be queued; a worker gives the lease back before it
takes its mark away. Correct means: a transaction is in one place of a process at
most, no lease is left with nobody behind it, nothing is left behind silently.

### Templates and JSON paths (`saga/template.go`, `saga/jsonpath.go`)

Pure functions from the transaction's payload and the stored responses to URLs,
payloads and poll verdicts. Hard: two path parsers with indexes; values put in are not
told from template text; the data is loaded at another time than it is used, and a
poll's answer replaces the action's. Correct means: a path finds the value it names,
and a request sent again under its idempotency key says the same.

### Task queue and trace (`taskqueue/`, `trace/`)

State: asynq's tasks in Redis, the server of each `Consumer`, the goroutine in `Start`,
the call of `Stop`; no state in `trace`. Operations: `Publish`, `Handle`, `Start`,
`Stop`, the `Inspector`'s calls; `Extract`, `Inject` and their counterparts for message
metadata and for the payload of a saga. Hard: attempts repeat after errors, aborted
shutdowns and dead processes; `Start` and `Stop` both shut down; the envelope is
recognised by its bytes; each hop rebuilds the trace from other fields. Correct means:
every attempt sees what was published, a span's parent is the span that caused it, a
stopped consumer holds nothing, no task is lost.

### Configuration (`config/`)

State: viper's copy of the file, the callbacks, the debounce timer, the runs of
callbacks under way, `done`. Operations: `Load`, `OnChange`, `Close`, the watching
goroutine, `executeCallbacks`. Hard: events come in bursts and while callbacks run,
runs overlap, callbacks panic, the content changes between two reads of it. Correct
means: the last content reaches every callback that was registered.

### Other parts

- `saga/observer`, `cmd/sagactl`: read-only views of the tables.
- `logger/`, `saga/logging.go`: an adapter to zap and log fields.

## Modules

| Module | Models | Notes |
|---|---|---|
| `SagaStore` | `store.go`, row types of `definition.go` | the three tables for one transaction, clocks, which store calls may fail |
| `SagaExecutor` | `executor.go`, `runtime_context.go` | EXTENDS SagaStore; participants (external) |
| `SagaPoller` | `poller.go` | EXTENDS SagaExecutor |
| `SagaCoordinator` | `coordinator.go` | EXTENDS SagaPoller |
| `Saga` | `engine.go` | composes the four; `Next`, fairness, properties |
| `SagaAbstract` | the contract of a saga | the status graph of `docs/modules/saga.md` and its ties to effects; `Saga` implements it |
| `MCSaga` | – | instance names and symmetry for TLC |
| `SagaProofs` | – | theorems about `Saga` with any number of engines |
| `SagaSoloProofs` | – | EXTENDS SagaProofs; theorems about `Saga` with one engine at a time |
| `DistLock` | `lock/redis.go`, `lock.go`, `option.go` | Redis and redsync are external |
| `MCDistLock` | – | lock names and symmetry |
| `Mutex` | the promise of `lock/lock.go` | what the locks of one name are for; `DistLock` implements it |
| `DistLockProofs` | – | theorems about `DistLock` |
| `Auth` | `auth/aksk.go`, `nonce.go`, `store.go`, `middleware.go` | signer, middleware, verifier and the two in-memory stores |
| `MCAuth` | – | names and symmetry |
| `AuthProofs` | – | theorems about `Auth` |
| `SagaDispatch` | `coordinator.go`, the lease statements of `store.go` | several transactions; what a drive does to one is reduced to the course of its status |
| `MCSagaDispatch` | – | names |
| `SagaDispatchProofs` | – | theorems about `SagaDispatch` |
| `SagaTemplate` | `saga/template.go`, `saga/jsonpath.go` | operators only, with the reference definition of a path |
| `SagaData` | requests and responses of `executor.go`, `coordinator.go`, `poller.go` | the control of `Saga` reduced to one driver and one poller; how a template is rendered and an answer judged are constants |
| `MCSagaData` | – | EXTENDS SagaData and SagaTemplate and gives the one the operators of the other; small responses, templates and paths; `PathsAgree` |
| `SagaDataProofs` | – | theorems about `SagaData` |
| `Trace` | `trace/`, the trace fields of `saga/` | operators only |
| `TaskQueue` | `taskqueue/asynqbroker/`, `trace/middleware.go`, `trace/client.go` | EXTENDS Trace; asynq is external |
| `MCTaskQueue` | – | names, and the bound of the exploration |
| `TaskQueueProofs` | – | theorems about `TaskQueue` |
| `ConfigLoader` | `config/viper.go` | viper and fsnotify are external |
| `MCConfigLoader` | – | – |
| `ConfigLoaderProofs` | – | theorems about `ConfigLoader` |

### How the saga model corresponds to the code

- Each SQL statement is one atomic step; between two statements everything else
  may happen. `pc[i]` is where the worker of instance `i` is in
  `driveTransaction` and what it calls, `loc[i]` what it read; `poll[i][s]` is
  the goroutine for the poll task of step `s`, `recovery[i]` and `scan[i]` are the
  two scans, `notifyCh[i]` the notification channel, `client` the caller: inside
  `Engine.Submit` between the insert and the hand-over, then, with `CallerWaits`,
  in `waitForTransaction` (failed queries in a row, and the verdict it was told).
- `remote[s]` is what the participant of step `s` did: `none`, `accepted` (async
  job under way), `done`, `failed`, `undone`.
- A request may succeed, fail without effect, or, with `LossyNetwork`, fail for the
  caller and take effect now or later (`Applied`, `Lost`, `RequestArrives`).
- A call on the engine's context fails once the engine stops (`CallFails`); one on a
  `durableStoreContext` does not (`DurableOK`); a call on the transaction's context
  also fails past the deadline (`ExecFails`). Transient store failures are counted
  by `MaxStoreErrors`.
- A lease, or the lock of a poll task, that no running process acts under runs out
  freely (`LeaseInUse`, `PollInUse`): its holder is gone, or left it. While in use they run
  out at most `MaxExpiries` times.
- A process that restarts is a new instance (`NewCoordinator` draws a fresh id).
- Several attempts of one compensating request are one action: nothing durable
  changes between them.
- One transaction is modelled. Others appear as a queue that may be full
  (`QueueCanFill`).

### How the lock model corresponds to the code

`key`, `ttl` are the Redis key; `mu[l]` the token and tries of `l.mu`; `wd[l]` the
goroutine of `newWatchdog` (asleep with its timer, at the first line of `Renew`, or
inside `ExtendContext` with the token read); `pc[l]` the client; `holders` those
whose last call told them they hold the lock. `muMu` is held across a wait only in
`startWatchdog` (pc `stopOld`), so the watchdog waits for it only then. Time is
discrete; `MaxDelay` bounds how late a renewal ends and how long a client takes
from setting the key to starting its watchdog. A failing `SET NX` may have set the
key, a failing delete may have deleted it. An extension that runs while `Acquire`
writes the new token into the same redsync mutex sees the old or the new one. One
goroutine uses a `Lock` value (DEVELOPER_GUIDE.md:687).

### How the authentication model corresponds to the code

`handler[h]` is a goroutine in the middleware: `pc` the check it comes to next
(`nonce`, `lookup`, `compare`) or its outcome, `ak` and `nonce` what the delivery names,
`checkedAt` when the timestamp was checked, `cred` what `GetByAK` returned (a pointer that
`Add` replaces and does not write through); `held` notes, for the properties only, whether
the key named was enabled with the signer's secret at each moment since the request
arrived. Headers and timestamp are checked in one step, with one reading of
the clock; each operation of a store is one step, under its mutex. `signed[r]` is
what `Sign` put on request `r`; its nonce is random and named `r` here.

`Arrive` takes any copy of it, any number of times: as it was, with its query in another
order, with another timestamp or nonce (`restamped`), with anything else the signature
covers changed, or without a header, and under any key's name, which no signature covers.
`Verify` reads timestamp and nonce of the delivery before it looks at the signature, so a
restamped copy passes the timestamp check again, and the nonce check with a nonce nobody
used; it fails at the signature. So `GrantedOnce` speaks of the copies that
carry the timestamp and the nonce of the request, and what was signed may find its nonce
taken by a copy that was not: `RefusedForACause` asks for a delivery that was
let through with the nonce, not for one that was served. The nonces a delivery may carry are those of requests
already signed and of `OtherNonces`, its timestamps those a signer could write. A query
that `url.ParseQuery` rejects (`raw`, chosen at `Sign`) is signed as it stands: reordered it
is a mismatch.

Timestamps are whole seconds (`Unix`) of a clock off by one of `Skews`. `nonces[n]` is
`expiresAt`; `sweep` the next tick of `cleanupLoop`. `MaxDelay` bounds how long a
handler waits between its two checks and how late a tick is served. The nonce store
is that of one process: it is empty after a restart, and the comment at its type
says that it must be replaced for several instances. After `Stop` nothing is evicted.

### How the dispatch model corresponds to the code

`row[t]` is the status and the lease of transaction `t`; `queue[i]`, `active[i]`,
`worker[i]` are `taskQueue`, `activeTx` and the workers of process `i`; `client[t]` is
the call of `Engine.Submit`, `recovery[i]` and `scan[i]` the two scans with the
transactions they leased. Each caller of `Submit` goes through `mark`, `enqueue` and,
if the queue is full, `unmark`, which are the sections of the code between which
others run. A drive moves the status (`Moves`), may end early because a call failed,
then releases and unmarks, in the order of the deferred calls. Transactions 1.. up to
some number are found in the table at the start, left by processes that are gone
(`Gone`). `turned` remembers which ones a process let go undone: by a full queue, by a
failed drive, or because the one recovery scan passed them over; the code logs these
and does nothing, so `EveryoneIsServed` and `NothingForgotten` excuse exactly them.

### How the data model corresponds to the code

A path is a sequence of tokens (names, dots, indexes with their brackets, a bracket
never closed), a string to be rendered a sequence of literal and variable pieces; of a
text only its identity counts and whether something in braces is in it, which is what
`RenderTemplate` checks at its end. `steps` are the rows, `mem` what the driver loaded
at the start of its round; the poller reads `steps` itself. `sent` remembers every
request that was rendered, for `RequestsHold`, also when it is then not signed (`GivenUp`,
`NotPolled`) or gets no answer. `Data`, `Render`, `Means`, `Accepts` and `Verdict` are constants
of `SagaData`; `MCSagaData` gives them the operators of `SagaTemplate`, which are recursive
and translate `template.go` and `jsonpath.go`. Store errors and several instances are left
to `Saga`.

### How the task-queue model corresponds to the code

`task[t]` is asynq's record of a task; `run[c][t]` what the handler of consumer `c` was
given and whether it still runs; `server[c]`, `starter[c]`, `stopper[c]`, `stopCh[c]`,
`ctxDone[c]` follow `Start` and `Stop`. From asynq the model takes: a pending task is
handed to one active server; a handler's error leads to a retry or the archive; the
first `Shutdown` waits for the handlers, putting tasks back that take too long while
their handlers run on; tasks of dead servers are recovered by live ones. An aborted
handler's result is ignored. `spans` lists each trace context made with the span that
caused it and the kind of hop. `CancelTask` only sends a signal that a handler may
ignore, and is not an action.

### How the configuration model corresponds to the code

The content of the file is a version number and whether it can be read. viper's
goroutine takes an event, reads, replaces its copy, calls the hook; `watch` is how far
`startWatching` has come. `timer` is the debounce timer: started again, it is the same
one later. `run[r]` is a goroutine in `executeCallbacks` with the callbacks left;
a callback reads two keys, one after the other (`half` is the first). Decoding
failures of the target type, defaults and environment variables are left out.

Names ending in a suffix after an underscore (`Reread_Never`,
`watchdogInterval_Whole`, ...) are seeded faults: variants of a definition with a
plausible bug. No specification uses them; each shows that the property named with
it in `PROJECT.json` would notice.

## Runs

`tlc -config <cfg> <module>`; the cfg of run `x` is `MCSaga_x.cfg`,
and so on for the other MC modules. Saga runs do not check for deadlock: a decided
transaction with all engines gone is a legitimate end. Neither do `verify`, whose
clock stops at `MaxTime`, and `dispatch`, `taskqueue`, `templates` and `reload`, where
everything may be done or dead. Lock runs do.

| Run | Question | Instance |
|---|---|---|
| `failover` | Do order, the counts of retries and polls, verdict and the record survive one engine being crashed or stopped anywhere and replaced, with a deadline and requests that arrive late? | two instances, one at a time; an async then a sync step; 690 000 states |
| `store_errors` | Is no waiting driver forgotten when database calls fail, and does what `SubmitAndWait` returned stay true? | any two calls fail, queue may fill, two failed queries in a row end the wait; 1.6 million states |
| `replicas` | Do the inductive invariant, the two results drawn from it and the contract hold with two engines, pollers and scanners on the same transaction? | two live instances, async step, deadline; 1.3 million states |
| `settles` | Does one engine left alone decide every submitted transaction, and does `SubmitAndWait` return? | lossy requests, MaxRetry 2, a lock that runs out in use; 228 000 states |
| `takeover` | Is a begun transaction with a deadline decided after a crash or stop anywhere, and does `Stop` return? | two instances, one at a time; 227 000 states |
| `lock_timely` | With renewals in time, does the watchdog keep the lock, are the locks of one name a mutex, do calls return, do abandoned keys go? | TTL 10, period 3, delay 1, one failure |
| `lock_late` | With renewals too late and re-acquisition, is expiry the only way to lose the key? | TTL 2, delay 2, three acquisitions |
| `verify` | Does at most one delivery with a request's own timestamp and nonce go on, do served and refused requests have their reason, are nonces swept? | two handlers, a signed and a public request, a nonce of no request, a signer up to a tick ahead, one key replaced or disabled once, tolerance 1, life of a nonce 2, ticks of half a second; 990 000 states |
| `dispatch` | Is a transaction in one place at most, is every lease backed, is nothing dropped or forgotten unnoticed, is what has a deadline decided? | one engine that may stop or crash, one worker, a queue of one, two transactions, one with a deadline, either found in the table or submitted; batches of one; 164 000 states |
| `taskqueue` | Does every attempt see what was published, do spans form a tree, does a stopped consumer hold nothing, is no task lost? | two consumers, one task with one retry, crashes, three spans; 226 000 states |
| `templates` | Do repeated requests say the same, and do both path lookups find what the path names? | an async and a sync step, three action templates, a crash anywhere; all paths of up to three tokens at three places of the data; 30 000 states |
| `reload` | Does the loader never rest with a change some callback has not seen, and does the last content reach every registered callback? | two callbacks, one of which may panic, two changes, two runs at once; 242 000 states |

Why the bounds are enough to be interesting. Two steps give an order to get wrong,
one of each kind both paths; two instances give a predecessor and a successor, or
two rivals; `MaxRetry` 1 or 2 and `PollMaxTimes` 0 or 1 reach the limit and the step
before it; one late lease expiry already yields two drivers. In `takeover`
`PollMaxTimes` is 0: the first poll without a result ends the step, which keeps the
liveness graph small. In `lock_timely` two renewals fit in the TTL and the first may
fail; in `lock_late` the key may run out before the first renewal. In `verify` the
life of a nonce exceeds the window by one tick, requests are signed in the first two
ticks (`MaxSignTime`) and the clock runs until the first nonce has been swept and could have
been used again. The constraint `Bound` ends the run where the nonce store is stopped,
for nothing is evicted afterwards, and replaces a key only while no nonce of `OtherNonces`
was used, for a nonce never decides what becomes of a key; the proofs do without it, and
without the bounds on keys and deliveries. In `failover` `MaxExpiries` is 0, which spares the locks in use
only: those of a crashed or stopped engine run out, and its successor polls on. In `dispatch` two transactions
fill a queue of one, and a batch of one leaves the second to the next scan. In
`taskqueue` the constraint `Bound` explores messages and traces with one consumer that
keeps running, and the consumers' lives with one kind of message outside any trace:
what a message says never decides what a consumer does; three spans give a hop, and a
hop after a hop. In `reload` the second change may come at any point of the first
one's run. Symmetry is used only in runs without liveness.

What the properties mean is said at their definitions. Two groups of the saga's must be kept apart. `SuccessIsComplete`,
`CompensatedIsUndone`, `Lawful`, `Refinement` and `VerdictTold` hold for any number of concurrent engines. `SuccessIsRecorded`,
`ForwardInOrder`, `CompensateInReverse`, `VerdictIsFinal`, `NoRecordedEffectLeft`,
`NoLostWakeup`, `RetriesBounded` and `PollsBounded` are about one engine at a time:
with two live replicas a poll result or an unconditional status write of one may
undo what the other recorded. `RetriesBounded` allows one retry above the limit for each
failed database call and each crash: both may lose the record that the limit was reached.
`CompensateInReverse` and `NoRecordedEffectLeft` also
need a store that answers (a failed write of a step status is ignored by the
code), so `store_errors` does not list them. What the runs leave to the proofs: a late
notification that meets a second async step (no run has two), and the effect of failing
writes on `ForwardInOrder` and `VerdictIsFinal` (`failover` has none). `RestsUpToDate` and
`NoChangeMissed` ask that each callback ran with the last content, not that no older run of it
ended later: overlapping runs may apply older or mixed contents last, see below.

`RequestsHold` excepts polls and the compensation of an async step once a poll's
answer is stored, which the code changes on purpose or not. `SeenAsPublished` excepts
the two messages the envelope cannot convey (see below). `NoTaskLost` is about a queue
that is not paused and has a running consumer.

## Fairness

`Saga!Fairness`: every goroutine of a running process is eventually scheduled
(weak fairness of driver with executor, poller, both scans); HTTP requests end
(client timeouts); `Submit` proceeds and its caller goes on querying; somebody starts the engines; leases and the
deadline run out in time. Nothing is assumed about crashes, stops, store failures, callers
that give up, lost requests, asynchronous jobs ending, or locks of poll tasks running out,
which they may do but need not for the results.

`DistLock!Fairness`: Redis calls end, goroutines run, time passes. The watchdog's
`select` gets strong fairness for its stop case: `time.After` is armed anew at each
entry, so when the stop channel is closed the timer is not ready and the case is
taken.

`SagaDispatch!Fairness`: some worker of a process that can go on does, both scans and
the callers in `Submit` too; engines are started, a stop ends, and leases nobody uses
run out. `TaskQueue!Fairness`: asynq's servers fetch, forward retries and recover
leases while they run, handlers return, and calls of `Shutdown` go on; nothing about
crashes, stops, the inspector or the queue being unpaused. `ConfigLoader!FairSpec`:
`Load` and viper's goroutine go on and callbacks return; the run of callbacks has
strong fairness, for a Go mutex is handed on to whoever waits long enough.

## Proofs

`tlapm` on eight modules, with so many obligations: `SagaProofs` (1812), `SagaSoloProofs`
(2618), `SagaDispatchProofs` (4002), `SagaDataProofs` (1089), `TaskQueueProofs` (1204),
`DistLockProofs` (1059), `AuthProofs` (984) and `ConfigLoaderProofs` (396). Assumptions: those of
the constants (`StoreAssumption` and its like, `DispatchAssumption`, `SagaDataAssumption`,
`TaskQueueAssumption`, `LockAssumption`, `AuthAssumption`, `ConfigLoaderAssumption`), all
satisfied by the runs' values, and what a theorem names as its own hypothesis. Every safety
property and action property of a run is stated by a theorem, but for `PathsAgree`.

**Saga**, for any set of instances, number and kind of steps, and all bounds:

- `TypeCorrect`: types, with one lemma per component.
- `LawfulTheorem`: the inductive invariant `Lawful`. `SuccessIsComplete` alone is
  not inductive: a driver records success on rows it read earlier. `Lawful` adds
  what is true of every row, of every remembered row, and of every place a driver,
  scanner or poller can be at. The key lemma is that the facts it speaks of are
  monotone: the status only moves along the contract's graph, and an effect, once
  settled (`done` or `undone`), stays settled, and becomes `undone` only when the
  transaction is given up. So what one driver remembers is not falsified by
  another.
- `SuccessTheorem`, `CompensationTheorem`: drawn from `Lawful`.
- `RefinementTheorem`: `Spec => Contract!Spec`, each step of the engine being a step
  of `SagaAbstract` or a stutter.
- `VerdictTheorem`: `VerdictTold`. A query tells only a verdict it read, and by the
  lemmas of the refinement no step of any instance leaves a verdict.

**Saga, one engine at a time** (`MaxLive <= 1`; an engine may crash or be stopped at any
point and the next one takes over, its lease and the poll locks may run out; any number
of engines and steps and all other bounds). The hypothesis is needed: with two engines and
one expired lease (`MCSaga_failover.cfg` with `MaxLive = 2`, `MaxExpiries = 1`, and neither
stops, crashes nor a lossy network) TLC finds each of `VerdictIsFinal`, `PollsBounded`,
`SuccessIsRecorded`, `ForwardInOrder`, `CompensateInReverse` and `NoRecordedEffectLeft`
violated, a second driver or poller acting on rows the first one rewrites. The proofs
describe each action by what it does to one engine and one step (`ExecutorMove`,
`LoopMove` and their like, one lemma per component), and show that of any step either nothing of an engine moves (`Calm`) or one engine acts while all others
hold nothing in memory (`SoloStep`). On that rest:

- `VerdictFinalTheorem`: when a verdict is in the store the driver is past it (`Rest`).
- `PollsBoundedTheorem`: a poll about to be counted remembers the count of the row
  (`PollsCounted`). `WakeupTheorem`: a driver that reads the row a second time or waits has
  its channel registered (`Listening`).
- `RecordedTheorem`, `ForwardOrderTheorem`: the inductive invariant `SoloInv`. Until the
  transaction is turned around its rows are succeeded before some step, pending
  after it and have not been compensated at it, and a poll under way is of a step still polling (`Ahead`); the
  rows the driver remembers are those of the store, but for what a poll has recorded since
  (`Agree`); a step taken for executed has reached its
  participant (`Arrived`). Failed writes, crashes and late polls are all allowed.
- `RetriesTheorem`, when also `MaxRetry > 0` (the builder of saga/definition.go:269 makes 3
  of 0): failed writes and crashes are allowed, and no step counts more than `MaxRetry` and
  one for each failed call and each crash so far (`Lapses`). Without either a driver's count
  in memory is the row's, and a row at the limit is not pending again. A crash, or a failed
  write of "failed", forgets that the limit was reached; the invariant (`Exhaustible`,
  `RetryDriver`) says that a step that may be executed again is below `MaxRetry` plus the
  lapses, or is just being failed. `LapsesGrow`: every failed call and every crash is a
  lapse, and no step takes one back, for a process that is gone does not return.
- `CompensationOrderTheorem`, `NothingLeftTheorem`, when also the database answers: the
  invariant `UndoInv` adds that only async steps are polled, that a poll under way outside
  of compensation is of a step still polling and the rows are as remembered when the
  lease is renewed (`FreshInv`), that every sync step recorded as succeeded is on
  executeCompensation's list, the current one being the last of it (`ReverseInv`), and that
  while nothing failed each recorded step, or step a poll may still record, is on the
  list or taken back (`CleanInv`). The hypothesis is needed: with one failed write TLC
  finds both properties violated (see below).

**Dispatch**, for any number of processes, workers and transactions, any queue capacity
and scan limits:

- `DispatchTypeCorrect`: types, and the capacity of the queue.
- `OnePlaceTheorem`: the sum of cardinalities is not inductive as it stands. Invariant
  `PlaceInv`: per process and transaction, one who submits excludes another, the queue holds
  it at most once, one worker has it, the three exclude each other and each is marked in
  activeTx (`Placed`), and a process that does not run has nothing (`Quiet`).
- `LeaseTheorem`: invariant `LeaseInv`. A scan that is not under way lists nothing, and
  leases name processes that have run, so a lease is backed from the moment it is taken.
- `NothingForgottenTheorem`, for at least one process, the safety behind
  `EveryoneIsServed`: once every process runs and has done its recovery scan, what is
  undecided and was not let go is with a caller, a scan, a queue or a worker. Invariant
  `CareInv`, checked with TLC on one and on two processes before it was proved. While no
  process stops or crashes an undecided transaction is left for a process that has not yet
  looked (`Left`), or the process that was called with it has it without a lease (`Kept`), or
  a process has the lease, which does not run out, and has or lists it (`Held`). The hard case
  is a scan that gives back a lease its own worker relies on: it lists what the process has
  already only if the lease was free, then no other process has the transaction, and it stays
  so while the scan lists it (`Alone`), so that the worker is left as `Kept` or claims anew.
  A claim is refused only while another process holds the lease, and the scan's
  compare-and-set only when the process has the transaction elsewhere too (`Late`).

**Task queue**, for any number of consumers, tasks, retries and spans:

- `QueueTypeCorrect`, `CallTreeTheorem`, `SeenTheorem`: invariant `MessageInv`. Spans name
  earlier spans (`SpansInOrder`), what was published was published in a span
  (`SentInSpan`), asynq keeps the data it was given through retry, archive and requeue
  (`DataKept`), and a handler runs on that data unwrapped (`RunsOnData`). The lemma
  `RoundTrip`: unwrapping what `wrapWithTrace` made gives back payload, reply, metadata and
  trace.
- `DrainedTheorem`: invariant `Closing`. Whoever closed the server waits while the consumer
  has a task.

**Lock**, for any set of locks, TTL, delay and number of failures:

- `LockTypeCorrect`: types, and no more attempts than `RetryCount`; needs
  `Attempts` (an attempt is left at `lock`).
- `LockOwnership`: `LostOnlyByExpiry`. Invariant `Ownership`: tokens of different
  locks differ, a token that was set is in Redis or ran out, a key has lifetime
  left, and a lock about to delete no longer counts as holding. No timing is
  needed.
- `WatchdogTheorem`: `WatchdogKeepsLock`, under `Timely`:
  a TTL of three units or more with (failures + 1) * (TTL/3 + delay) + delay < TTL. Invariant `AllSafe`: for a
  holder, ttl > timer + delay + `Reserve(errs)`, where the reserve is one period
  and delay per failure still to come; a failed renewal spends exactly that much.
- `NoSecondWatchdog`: under `Timely` the deadlock of `lock_again` cannot happen.
- `MutexTheorem`: `Spec => Mutex!Spec` for the set `holders`, with the watchdog enabled and
  under `Timely`: who comes in finds nobody who believes to be in. `AllSafe` puts the token
  of every holder in Redis, and `Ownership` keeps tokens of different locks apart, so there
  is one holder (`OneHolder`). Without `Timely` it is false: `lock_late` only asks that
  nothing but expiry takes the key away.

**Authentication**, for any requests, handlers, keys, secrets and times:

- `AuthTypeCorrect`: types; needs `InFlight` (a handler past the header checks has a
  signed request, and its key is one of the store's).
- `AuthorizedTheorem`: `ServedIsAuthorized`. Invariant `Authorization`: up to the lookup a
  handler has noted whether the credential now in the store holds for its request, after it
  it holds an enabled one it has noted.
- `RefusalTheorem`: `RefusedForACause`, from `Authorization` and `Backed`: behind each nonce
  in the store is a delivery that was let through with it.
- `GrantedTheorem`: `GrantedOnce`, whose premise is `Covered`:
  2 * NonceTTL >= 2 * Tolerance + MaxDelay. Invariant `OnTime` (a handler between its
  checks is within the delay, and a delivery with its own timestamp within the tolerance) with
  `Once`: of a request at most one such delivery went on, and since then the request's nonce is
  in the store until timestamp - tolerance + 2 * NonceTTL at least, after which no other can
  come to the nonce check (`Remembered`). A restamped copy with the same
  nonce may take its place, finds it taken, or puts it back after it was evicted. The defaults satisfy `Covered` with 20 minutes to spare; `NewVerifier`
  accepts values that do not.
- `SweptTheorem`: `NoncesAreSwept`, from the time of the last tick.

**Data**, for any number of steps, retries, polls and crashes, and any templates, responses
and way to render them that `LocalTemplates` allows:

- `RequestsTheorem`: `RequestsHold`. Invariant `IInv`, with `SentInv`: what was sent under
  an idempotency key is fixed by the responses its template reads, and these do not change
  any more. `Control` says why they do not: while the transaction runs, the steps before one
  that was begun have succeeded (`BegunInv`), what the driver loaded differs from the store
  in steps still polling only (`DriverInv`), and a poller at work has the last step begun,
  and while the transaction runs that step is still polling (`PollerInv`).
- `AttemptsAgree`: any two attempts at the action of a step send the same request, so a
  participant that finds the key in its books finds the request it answered.
- The hypothesis `LocalTemplates`: an action's template reads responses of earlier steps only,
  a compensation's and a poll's those up to the step's own, and none the status of a step. The
  code does not enforce it (`BuildTemplateData` offers responses and statuses of all steps),
  and a template that reads further ahead, or a status, may say something else later. TLC evaluates it on the templates of `MCSagaData`.

**Configuration**, for any callbacks, changes and runs at once:

- `LoaderTypeCorrect`: types, whether or not `Load` is called again.
- `RestsUpToDateTheorem`: `RestsUpToDate`, when `Load` is called once. Invariant:
  callbacks are owed something only once the hook is set (`LoadedOnce`); what viper's goroutine
  read is old only if another event is waiting (`Fresh`); a callback that is owed the present
  content and does not panic has an event, a read, the timer or a run still to come that will
  call it and has not read an older content already, unless the loader was closed
  (`Reported`). With a second `Load` it is
  false, for an older content may then be put over a newer one.

Model-checked only: all liveness, `NoChangeMissed` included (it is outside the prover's
reach, like ENABLED), and `PathsAgree`, whose operators are recursive, for the values are
trees.

## What the checks found

Four instances in which TLC finds a counterexample to what the repository says of
itself. They are kept as configurations to run by hand; the runs of `PROJECT.json` are
those that pass.

- `MCSaga_two_drivers.cfg` (`OneDriver`): `recoveryScan` claims by listing; when its own worker drives the
  transaction already, it releases the lock that worker relies on
  (coordinator.go:198), and a second instance drives too. coordinator.go:268: "Uses
  distributed locking [...] to ensure only one instance processes a given transaction
  at a time."
- `MCSaga_foreign_poller.cfg` (`NoLostWakeup`): the poller of another replica records the result and notifies
  nobody; the waiting driver times out and compensates a step that succeeded.
  docs/saga_multiple_instance.md:10 calls the poller safe with several replicas.
- `MCSaga_crash_in_lease.cfg` (`CrashIsRecovered`): recovery runs once; within the lease of the crashed engine it
  finds nothing, and a transaction without a timeout stays where it is.
  saga/README.md:566 says that unfinished transactions are recovered after a restart.
- `MCDistLock_lock_again.cfg` (`CallsReturn`): re-acquiring with the old watchdog in its renewal deadlocks,
  startWatchdog waiting with `muMu` held (redis.go:218). lock.go:157 suggests to
  re-acquire, redis.go:216 provides for it.

Observed while modelling, without a run of its own: a forward request that took
effect although it failed for the caller is not compensated, its step being failed,
and the transaction still ends as "compensation completed" (coordinator.go:689;
`NoRecordedEffectLeft` allows it); two healthy replicas can lose a
transaction between them at start-up: a scan whose `Submit` is declined gives back the lease
its own worker relies on (coordinator.go:198), the other replica takes it, the first one
stops for want of the lease and the second because a compare-and-set is refused (a failed
drive, which `NothingForgotten` excuses); PollMaxTimes + 1
requests are sent, the count being checked before it is raised (poller.go:275); a
graceful stop turns the step in hand into a compensation (coordinator.go:517); a
notification of one async step that comes late wakes the wait for the next and
moves `current_step` past it (coordinator.go:634); after `TryAcquire` succeeded once a
later `Acquire` on the same lock makes one attempt (redis.go:268);
`ScanInterval` is never read (coordinator.go:21); forward attempts number MaxRetry,
compensating ones MaxRetry + 1.

Met while proving, each with `MaxStoreErrors = 1` in `MCSaga_failover.cfg`, and the reason
why two theorems exclude failed writes:

- `CompensateInReverse`: when a step cannot be recorded as compensating, CompensateStep
  returns before its request (executor.go:293) and executeCompensation goes on
  (coordinator.go:713), so the step before it is taken back while this one still stands.
- `NoRecordedEffectLeft`: that a step could not be taken back is known only in
  `allCompensated`. If the verdict cannot be written, or the process crashes before it is,
  the next drive finds the step failed, has nothing to compensate and writes
  "compensation completed"; a poll under way since before then records the step succeeded.

In the parts modelled since:

- Dispatch: a transaction dropped by a full queue stays pending until some process
  starts, since the timeout scan lists only running and compensating ones
  (coordinator.go:125, store.go:826); the recovery scan leaves whatever exceeds its
  batch of 100 (coordinator.go:168).
- Templates: text or a second index after an index is ignored, so `l[1][0].id` finds
  `l[1].id` (template.go:197); an object, or a string with braces, can never be put in,
  because the result is searched for unresolved variables (template.go:54), although
  `valueToString` provides for objects; a poll's answer replaces the action's
  (poller.go:288), so the compensation of an async step sees another response than its
  polls did, and after a crash between the two writes the next poll is rendered from
  the answer of the last.
- Task queue: a nil payload that gets an envelope is handed to the handler as the
  whole envelope, its trace, reply and metadata lost (trace_envelope.go:72); a bare
  payload that looks like an envelope is unwrapped; `Stop`, or `Start`, may return while
  handlers run, because the other one does the waiting (consumer.go:144); the handler of
  an aborted task runs on while the task is handed out again; a saga forgets that its
  trace was not sampled (executor.go:536); the list and the total of `ListTasks` are two
  readings.
- Configuration: runs of callbacks overlap when they take longer than 50 ms, although
  config.go says they are executed in a single goroutine: an older content may be
  assigned last, and `apply` may mix old and new keys; a run that began before `Close`
  goes on after it; a change between the reading of the file in `Load` and the hook is
  not reported; callbacks are called also when the file could not be read; with
  `CanReload` a later `Load` may put an older content over a newer one
  (`NoChangeMissed` fails then).

## Limits

Not modelled, with reasons: `logger/` and `saga/logging.go` (levels and sinks set at
start, output nobody acts on); `saga/observer` and `cmd/sagactl` (one SELECT per call,
and printing); the examples; database migrations; the build of Redis, PostgreSQL and
HTTP clients; the formatting of numbers in templates and the texts of errors.
`SagaDispatch` and `SagaData` each abstract what the other one and `Saga` have in
detail: several transactions, each with its steps, requests and data in one model, are
out of TLC's reach. PostgreSQL is assumed to make each statement atomic, clocks of
instances to agree (the code compares with the database's or its own `NOW`; not in
`Auth`), Redis to be one node that keeps its keys; asynq, viper and fsnotify are
modelled from how the code uses them.

## Plan

Done: the saga engine with `SubmitAndWait`, its contract and refinement, the lock,
request authentication, dispatch over the bounded queue, templates and JSON paths, the
task queue with traces, configuration; proofs of every safety and action property of the
runs but `PathsAgree`. Left:

1. `SagaDispatch` as an implementation of a set of transactions, each with at most one
   lease, so that the proofs about `Saga` with one engine and those about the queue speak of
   the same thing.
2. A tighter bound for `RetriesTheorem`: of the database calls that fail only those that
   write that a step failed cost an attempt.
3. A composition of `Auth` with the executor's signed requests: a retried request is
   signed anew, so no retry is refused as a repetition.
