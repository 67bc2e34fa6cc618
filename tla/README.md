# osqueue in TLA+

osqueue is a job queue whose whole state is one JSON object in object storage.
A broker process, elected through that same object, applies the mutations of
clients to it in groups, with compare-and-swap writes. These modules model the
parts where time, failure and interleaving matter, from the client's sockets to
the requests of the storage backends, check them with TLC on small instances, and
prove with TLAPS, for every instance, all of their invariants, what a step may
never do, and that the engines implement one atomic queue.

## 1. The system

| Part | State | Operations | Talks to |
|---|---|---|---|
| Queue state functions, `packages/core/src/state.ts` | none (pure) | enqueue, claim, heartbeat, complete, register, expiry | called by the engine and the election |
| Group-commit engine, `packages/core/src/group-commit.ts` | buffer of submissions, cached state and version, timer, running | `start`, `submit`, `stop`, the write loop | storage; callers await promises |
| Broker election, `packages/core/src/broker-election.ts` | none between calls | `tryElect`, `checkLeadership` | storage |
| Broker process, `packages/broker/src/server.ts` | running, heartbeat interval | `start`, heartbeat callback, `stop`, routes | election, engine, clients |
| Broker operations, `operations.ts`, `service.ts` | none | one engine call per request, conversions | engine |
| Storage backends, `memory.ts`, `s3.ts`, `gcs.ts` | the object and its version | `read`, `write` (CAS), `createIfNotExists` | the cloud stores |
| Throttle, `packages/storage/src/throttled.ts` | two token buckets, the daily count, statistics | the same three, after a delay | a backend |
| Worker, `packages/worker/src/worker.ts` | running, active jobs, two maps by job, timers | `start`, poll, claim and run, `stop` | client |
| Client, `packages/client/src/client.ts` | adapter, broker address | `connect`, `reconnect`, one call per operation | storage (discovery), a transport |
| Transports, `packages/client/src/transports` | of the websocket: socket, promise of its opening, pending requests, counter; of the others: none | one request per call, `reconnect` | broker |

The queue object is the only shared state: engines, elections and client
discovery meet there. Inside a process everything runs on one event loop, so a
step is what happens between two awaits, and anything may happen between steps.

### What is hard

* **Engine.** `submit` starts another write loop while one is in flight, so
  loops of one engine overlap as loops of two brokers do. Cache, buffer and timer
  are shared by them, and each await leaves time for another loop to change them.
  A storage request that fails for its caller may still be applied, later.
* **Election.** The time by which a heartbeat is judged is taken before a read,
  and the write follows later still; leader and candidates race. A leader that
  was late goes on, and its registration goes through the engine's retries.
* **Worker.** Active jobs are counted after the await of the claim. Claims
  arrive after `stop()`. A job whose lease ran out may be claimed a second time by
  the same worker, and then both calls share the entries of two maps.
* **Storage.** Google Cloud Storage needs two requests for one read or write,
  and anything may come between them. Client libraries repeat requests whose
  answers they miss. Callers of the throttle share its buckets.
* **Client.** Calls that are in progress at the same time share a socket, the promise
  of its opening and a map of pending requests. The close event of a socket may arrive
  when the next one exists, an answer after its time-out, and the broker may be
  another one by then. Three hand-written encodings are to mean the same.

`PROJECT.json` lists these hazards at their lines.

### What makes each part correct

* Engine: each submission is applied at most once, and answered truthfully and
  eventually; no commit overwrites another; all engines are one atomic queue.
* Jobs: no job is lost or comes back; attempts count claims and are bounded; a
  holder that reports in time keeps its job.
* Election: only an expired broker is displaced; a serving broker that is on time
  keeps its lease, so at most one serves; after a failure somebody serves again.
* Worker: concurrency is respected; slots and timers are given back on every way
  out; a punctual worker keeps its job; every job leaves the queue.
* Storage: a version stands for its contents; no acknowledged update is lost; the
  throttle lets pass what it was configured to, plus what it gave delays for.
* Client: a call gets its own answer or an error with a cause, and gets one;
  it asks for and returns the same on every transport.

## 2. The modules

| Module | Stands for |
|---|---|
| `QueueState` | `state.ts`: the queue as a record, each mutation as an operator, a batch as a fold over it |
| `QueueStateProofs` | what these operators do to any queue: the lemmas the proofs of engine and worker rest on |
| `AtomicQueue` | the abstract specification: batches of submissions applied to one queue atomically |
| `GroupCommit` | engines on one object, composed of `QueueState`, the store and the promises of callers |
| `GroupCommitProperties` | its invariants, action properties, liveness and refinement |
| `GroupCommitProofs` | theorems of `GroupCommit` that treat the queue as an opaque value |
| `GroupCommitRefinement` | the refinement of `AtomicQueue` |
| `GroupCommitAccounts` | theorems about the jobs and their holders |
| `BrokerLeadership` | election and life of broker processes on one object, in time |
| `BrokerLeadershipProperties`, `BrokerLeadershipProofs` | its properties and theorems |
| `WorkerRuntime` | workers on a queue of `QueueState`, in time |
| `WorkerRuntimeProperties`, `WorkerRuntimeProofs` | its properties and theorems |
| `ObjectStorage` | the three backends under callers that use them as the engine does |
| `ThrottledStorage` | the throttle around them; EXTENDS `ObjectStorage` and conjoins its steps |
| `StorageProperties`, `StorageProofs` | their properties and theorems |
| `QueueApi` | what a call becomes on its way through each transport and the broker, and its answer on the way back (pure) |
| `ClientSession` | the client and its transports, with discovery, sockets and a failover |
| `ClientProperties`, `ClientProofs` | its properties, with those of `QueueApi`, and theorems |
| `MCGroupCommit`, `MCBrokerLeadership`, `MCWorkerRuntime`, `MCStorage`, `MCClient` | values for TLC |

`BrokerLeadership` and `WorkerRuntime` use one atomic step where the code goes
through an engine. That is what `ImplementsAtomicQueue` shows of `GroupCommit`: a
submission is applied to the queue once, as a whole, between the call and its
answer, and a refused one once at most, possibly later. Several mutations of one
batch are the same mutations applied one after the other at the same time.

In the same way `GroupCommit` uses a store whose requests take effect at one
moment. `ObjectStorage` looks into that: memory and S3 are such stores, Google
Cloud Storage is one as long as no other write comes between its two requests.

Operators that have the word *mutant* in their comment describe plausible bugs. Nothing
uses them; they exist to show that a property fails when
the definition below them is replaced by them.

### GroupCommit and the code

* `store` is the object with its version; `cachedState`, `cachedVersion` (0 for
  null) and `buffer` are the fields of the engine; `armed` says that `loopTimer` is
  set; `outcome` and `result` are the promises of the submissions.
* `loop[b, l]` is one invocation of `writeLoop`: `reading` and `writing` while
  a request is on its way, `read` and `wrote` while its answer is, `backoff` between
  attempts, `orphan` when only the request is left. `StoreRead`, `StoreWrite` are the
  moments at which a request takes effect, the other actions what the event loop
  does with an answer.
* `CreateState`, `ReadState` are `start()`. A create and its answer are one step,
  because nothing else uses the engine before it is up.
* A write loop that finds its buffer empty only sets the timer again. As the timer
  is part of the state and not its delay, that is no step.
* Job ids are the submission, the attempt and the position: what
  `crypto.randomUUID()` promises is that every application of a batch makes new ones.
* `commits`, `effect`, `gone` are history: how often a submission was applied,
  with which result, and which jobs have left the queue.
* Faults: `read` and `write` requests fail before or after they take effect; `stop`;
  `crash` leaves writes in flight. A restarted broker is another element of `Brokers`.

### BrokerLeadership and the code

* A timestamp is kept as its age, so time has no bound. Ages above
  `Old = Timeout + 1 + MaxDelay` need not be told apart: a candidate looks at
  `heartbeat - since`, at most `MaxDelay` less than the age. Versions are kept as
  one bit per election, whether the version that was read is still the stored one.
* `phase` follows `BrokerServer.start()`: electing, creating or claiming,
  elected, registering, opening, up; then closing and stopped. `down` is a process
  that will be started (again) by the loop of `infra/entrypoint.sh`.
* `beat[b, k]` is one heartbeat callback: registering, checking, checked; an
  `orphan` is a registration whose caller has gone while its request may arrive.
* Time passes only while no step of a process is later than its `Delay`. A
  process with a larger `Delay` is slow; none is infinitely fast.
* `Traffic` is any other commit, which changes the version.

### WorkerRuntime and the code

* Time is told from the present: `now` is 0, `Tick` makes all timestamps older,
  and the operators of `QueueState` apply as they are.
* `call[w, c]` is one invocation of `tryClaimAndProcess`; `activeJobs`,
  `abortControllers`, `heartbeatTimers` are the fields, with the call in place of
  its controller or timer; `intervals` are the timers that are really set.
* `sent` holds requests nobody waits for: heartbeats, and those of calls that
  failed or of dead processes. They are applied at any time, or lost.
* `Faulty` workers may be late, lose requests, stop and die. The others are
  punctual: timers and requests are at most `Delay` late.
* A poll with all jobs active does nothing and is no step. `start()` after
  `stop()` is left out.
* Whether a payload passes its schema depends on the job's type here.

### The storage backends, the throttle and the code

* `object` is the one key with how often it was written. `tokenOf` is the version:
  the hash of the contents on S3, a number elsewhere. Contents are the sequence of the
  updates made to them; an update is its caller and a number.
* A caller behaves as the engine does: it creates or reads the object, keeps
  contents and version, writes back what extends them, keeps what it wrote with the
  version in the answer, and reads again after a conflict. After an error it gives the
  update up and keeps what it had.
* `call[c].pc`: `sent` until the request takes effect, `lookup` between the two
  requests on Google Cloud Storage, then `answered` or `refused`.
* `late` are writes whose sender has given up. `Repeats` is a client library that
  sends a write again whose answer it missed. `raced` remembers that a write landed
  while another call was between its requests.
* In the throttle a token is `cost` units and a tick brings one, so that what are
  fractions in the code are whole numbers. `acquireRead` and `acquireWrite` are what
  the code does up to its `await`: a call that is not delayed sends its request in the
  same step. `DelayEnds` is the timer. A create is a write.
* `ThrottledSpec` implements `Spec` of `ObjectStorage`, which is a theorem.

### The client and the code

* `socket`, `opening`, `counter`, `pending` are the variables in the closure of
  `createWsAdapter`, per adapter; `adapter` is the client's field. `req` are the calls of
  the application, as the code runs them between awaits.
* A socket is `creating` (its promise is there, its constructor is awaited: `Created`
  makes it the adapter's), `connecting`, `open`, `lost` (broken, which nobody has
  noticed), `ended` (its `readyState` is no longer OPEN, its close event is still to come),
  `closing`, `failed`, `aborting` (closed while connecting), or `closed`, and each
  event of it that the code listens to is an action. `isOpen` is true of a
  `lost` socket and false of an `ended` one, so that a call opens a second socket then.
* An opening fails when nobody answers (`alive` is false), when the socket was closed,
  or, as a fault, on the way to a broker that is alive (`mayFail`). In the same way a
  connection breaks (`Breaks`) or is ended by the broker's side (`Ends`).
* `crossed` is history: the sockets whose opening began before their adapter's older
  ones had closed, or was given up by a reconnect before its constructor was there.
* Calls that wait for the same opening are woken in one step, as their
  continuations run before the next event. Answers of one socket come in any order, since
  the broker answers when the engine has committed; `handleMessage` takes any.
* `leader` is what discovery reads, `serving` the process that answers. A URL
  leads to a process as long as that one is alive.
* The brokers are abstract here: a request is served, some time, with its own
  result. What it does to the queue is `QueueApi` (which mutation) and `GroupCommit`.
* In `QueueApi` a call is a record with `None` for what is undefined. JSON
  drops undefined fields (`JsonObject`), a protobuf message has a default for each.
  `RequestsArrive` compares what arrives with what the call means.

## 3. The runs

| Run | Instance | Shows |
|---|---|---|
| `core` | 2 brokers, 2 workers, 4 submissions of two jobs, claims, heartbeats, completions; 3 clock values, time-out 0; failing reads | what is promised of jobs: `NoJobLost`, `NoResurrection`, `AttemptsCountClaims`, `AttemptsBounded`, `CompletedCounted`, `HolderKeepsJob`; `CacheCoherent`, `AckedIsApplied` |
| `settle` | 2 brokers with two overlapping loops each, 3 submissions, 1 retry; lost and late writes, stop, crashes; fairness | `AppliedOnce`, `SnapshotIsCommitted`, `PendingIsHeld`, `NoLostWakeup`, refinement of `AtomicQueue`, `EverySubmissionSettles` |
| `forgotten` | 2 brokers, 3 submissions, 1 retry, failing reads | `PendingIsHeld` is violated |
| `election` | 2 brokers that restart, one of them slow, 2 overlapping callbacks; failing storage, shutdown, a crash | `ElectionRespectsLease` |
| `failover` | 3 punctual brokers with own addresses, two of which may die for good; fairness | `LeaderHoldsLease`, `AtMostOneServing`, `LeaderReturns` |
| `split_brain` | 2 brokers, one slow; fairness | `OldLeaderStops` is violated |
| `jobs` | a faulty worker with 2 calls and a punctual one, one job that is good, malformed or without handler | `ActiveJobsCounted`, `NoStrayHeartbeats`, `PunctualKeepsJob` |
| `progress` | the same with one call each; fairness | `EveryJobLeaves`, `StopEnds` |
| `concurrency` | 1 punctual worker with `concurrency` 1, 2 jobs | `ConcurrencyRespected` is violated |
| `storage` | 2 callers with 2 updates each on each of the 3 backends, 1 fault; reads cost 1 tick, with 2 at once, writes 2 ticks; 1 free write per day | `VersionsIdentify`, `UpdatesKept`, `TwiceOnlyIfRepeated`, `ContentsExtended`; `DelaysAccounted`, `BudgetKept` |
| `lost_update` | 2 callers on Google Cloud Storage, no fault, no limits | `NoLostUpdate` is violated |
| `client` | 2 calls, 3 sockets, 1 reconnect, 1 lost connection, failed opening, failed request or failover, on each transport; fairness | `AnswersMatch`, `WaitersAreHeld`, `SocketsOwned`, `FailuresExplained`, `EveryCallSettles`; `RequestsArrive`, `AnswersAreTold` |

`TypeOK` is checked in `core`, `election`, `jobs` and `client`; the types of the
storage modules are part of the invariant that is proved of them.

### Why these bounds

* Two loops race in every way two writers of one object can; a third one only
  repeats a conflict. One retry has a first, a repeated and a last attempt. Three
  submissions are a batch of two beside another one, four are needed for claim,
  expiry, second claim and a late report of the first holder.
* `HeartbeatTimeout = 0` in the engine runs puts the boundary of expiry between
  two clock values; `core` has one more, to be late by two. `core` has no retries, as
  they do not touch what it is about; `settle` has one.
* `Timeout = 5` with `Interval = Delay = 1` in `failover` is tight: with 4 the
  lease can run out between two registrations that are each as late as allowed. What
  the documentation gives as a ratio of three is here `Timeout >= Interval + 4 Delay`.
* `HeartbeatTimeout = 4` with `Interval = Delay = 1` in `jobs` is tight too: the
  answer to the claim, the timer and the heartbeat each add a delay.
* `progress` has delay 0 and one call per worker, as liveness needs only that
  the lease runs out, not when.
* `storage`: two updates are a first one, and one on contents that are the
  caller's own or another's. One fault is enough for each late, repeated or lost
  request to meet every other step. `DayLength = 3` and `MaxClock = 4` have a midnight
  with calls on both sides of it. The proofs are for any of these.
* `client`: two calls share or miss a socket in every way, three would add only
  another waiter. A reconnect, or a connection that ends, gives a second socket while the
  first one still has events to come; with both, or with the second call, there is a
  third one, and a call, a reconnect or a fault at each point of their lives. There are as
  many adapters and sockets as the calls and the reconnect can use up, so that the bound never blocks a
  call, and liveness is about the code.
* `Slots`, `MaxCrashes`, `MaxFaults`, `MaxUpdates`, `MaxClock`, `MaxReconnects`,
  `Adapters` and `Sockets` are bounds of the model alone: the code limits neither the
  loops of an engine, nor overlapping callbacks, nor claims in flight, nor sockets.
* `CHECK_DEADLOCK FALSE` is set where the system may come to rest: all submissions
  or calls made, or all brokers stopped.

### Fairness

Weak fairness only, for what Node, the storage and the network do by
themselves: timers fire, requests are answered or fail, sockets open or fail and tell
that they closed, the clock goes on, and `infra/entrypoint.sh` starts a broker
that was not elected. `progress` adds that handlers end, one way or the other, and
that the requests of a punctual worker arrive. In `client` nothing is assumed of
brokers that receive a message on a socket: the time-out settles the call. An HTTP
request has no time-out of the client's, so it is assumed that it is answered or
broken off. Nothing is assumed of clients, crashes, faults or of who wins a race.

## 4. What the code does not keep

* **A forgotten batch** (`forgotten`). When the re-read after a conflict fails,
  `writeLoop` rejects what is in the buffer, not the batch it had drained. Those
  callers wait for ever.
* **Two leaders stay** (`split_brain`). The heartbeat callback registers first and
  checks then, so both of two leaders always find themselves registered.
* **Concurrency** (`concurrency`). A worker claims at every poll until the first
  answer arrives, and runs everything it was granted.
* **Lost updates on Google Cloud Storage** (`lost_update`). The generation that goes
  with contents is fetched by a second request. When another broker, or another write loop
  of the same one, writes in between, contents and generation do not belong together, the
  next conditional write succeeds, and an acknowledged commit is gone.

Things met while modelling that no run is spent on.

*Engine and brokers.* What is submitted to a stopped engine is buffered and never
answered (`submit`, `group-commit.ts:67`), and `BrokerServer.stop()` stops the engine
before it closes the server; `EverySubmissionSettles` is about submissions to running
engines. An engine competes with itself when a mutation arrives during a write
(`settle` shows that this is safe). Brokers on two hosts with the default address
`0.0.0.0:8080` are one broker to the election. A leader that restarts in its own lease
is not given a new one and may see another one elected while it starts (`failover`
therefore has distinct addresses and no restarts).

*Worker.* After `stop()` a worker sends no heartbeats for handlers that are still
running, so their jobs may be given to others (`PunctualKeepsJob` is about workers
that were not stopped). A claim that is answered after `stop()` has returned starts a handler
(`worker.ts:113` does not look at `running`), whose signal nobody aborts and whose timer
nobody clears from outside; `worker.md:110` says that stop waits for active jobs.

*Storage.* An S3 put that landed and is repeated by the SDK is refused, and the engine
applies its batch a second time on what it reads then (`TwiceOnlyIfRepeated` shows that
this is the only way to it, unless, on Google Cloud Storage, a write came between the two
requests of a call). A delayed caller of the throttle takes no token, so after
its delay another call passes with the one it waited for: callers one after the other
come to twice the rate that was set, and n at the same time to n + 1 times
(`throttling.md:53` and `:56` say that each call consumes one). `DelaysAccounted` is
what does hold: each call above the rate was given its delay.

*Client.* The handler of the close event (`ws.ts:108`) takes whichever socket the
adapter has by then for the one that closed. So after a `reconnect()`, which opens the next
socket without waiting for that event, and equally when a call comes between the end of a
connection and its close event (`ws.ts:86`), the new socket is forgotten, stays open, and is
closed by nobody, and the calls on it are rejected. `FailuresExplained` and `SocketsOwned`
therefore promise nothing of a socket that `crossed` an older one, and everything of the
others. An opening that ends after a reconnect clears the
promise of the newer one, so that a call may open a third socket, or send on one that
is still connecting, which throws an error without a tag; the README of the package
says that errors are tagged, and those of `fetch` are not either. After discovery the
address is kept: `reconnect` never finds a new leader, and the wait of
`discoveryRetryMs` (`client.md:34`) comes after a `connect` that either threw or
succeeded. Calls made before the first discovery ends each make an adapter. `getStats` has no
`completedTotal`, which `client.md:117` lists: `GetStatsResponse` has no such field. A job
without a payload is refused by Connect alone (`RequestsArrive` names that).

## 5. The proofs

Eight proof modules hold for all values of the constants that satisfy the named
assumptions. Every invariant a run checks is the subject of a theorem (the violated
ones of section 4 apart), and so is every action property and the refinement; liveness
is not.

### What is assumed

* Sizes and domains: `TimeoutAssumption`, `AttemptsAssumption`, `SlotsAssumption`,
  `SubmissionsAssumption`, `RetriesAssumption`, `UpdatesAssumption`,
  `LimitsAssumption`, `DayAssumption`, `ConcurrencyAssumption`, `TimingAssumption`,
  `BackendsAssumption`, `DelayAssumption`, `TransportsAssumption`,
  `RequestsAssumption`, `FaultsAssumption`.
* What TypeScript's types say of values: `JobSpecsAssumption`, `BacklogsAssumption`;
  `CallsAssumption`, `JobsAssumption`, `StatesAssumption` (strings, numbers and lists
  are never `null`, a job has an id, a status and a count of attempts).
* That what stands for "none" is none of the other values: `JobIdsAssumption`,
  `AddressAssumption`, `ValuesAssumption`, `OutcomesAssumption`, `SocketsAssumption`.
* `ConfigAccepted`: what `BrokerServer` refuses to run with.

Three theorems have a hypothesis of their own, in their statements: `NobodyIsForgotten`
that reads do not fail, as with failing reads the run `forgotten` refutes it;
`PunctualLeaderHoldsLease` (with `OnePunctualBrokerServes`) and `PunctualWorkerKeepsJob`
that brokers and workers have time enough, see below.

### The queue's functions: `QueueStateProofs`

A pass over the jobs (`expireHeartbeats`) and one over a batch (`applyBatch`) are
recursive functions. `ExpiryUnfolds` and `BatchUnfolds` take them apart by one element.
The library's induction theorems take an operator as parameter, which the provers cannot
instantiate; so an induction is on a *set* of bad positions, which has a least element
(`LeastElement`, from the library's theorem on the well-founded order of the numbers):
`PassInduction`, `BatchSteps`. `ClaimJob`, `HeartbeatJob`, `CompleteJob`, `EnqueueJobs`,
`ExpireHeartbeats` say what each operation does to the set of jobs, and `SameHolders`
to `ExpiryKeepsHolders` what it leaves of the holder of a job.

### The engine: `GroupCommitProofs`, `GroupCommitRefinement`, `GroupCommitAccounts`

* `TypeCorrect`.
* `CacheIsCoherent`. `CacheCoherent` is not inductive: an answer on its way
  may be put into any cache at any later time. `VersionsSound` (`AnswersAreSound`) says of
  each such answer what `CacheCoherent` says of the cache, and that nothing is newer
  than the store. `SnapshotsAreCommitted` is the same for the jobs that caches and
  answers show (`SnapshotsSound`).
* `SubmissionsAppliedOnce`, `ResolvedWasApplied`. The strengthening `PlacesSound`
  (`SubmissionsInOnePlace`) says that a submission which is not settled is in one
  place, the buffer or one batch of its own broker, and when it has been applied
  only the batch with that write's answer holds it.
* `NothingWaitsUntimed`: every action that leaves something in the buffer of a
  running engine leaves its timer set. `NobodyIsForgotten`: who waits is in the buffer,
  or in the batch of a loop that is still alive.
* `EnginesImplementQueue`: a landing write is one step of `AtomicQueue`, every other
  step is a submission or an answer there, or a stutter. The steps where an engine may
  go wrong are the landings: the state that is written was computed earlier, from a cache,
  perhaps by an earlier attempt. `PassSound` (`WritesArePasses`) is what makes them right:
  a write under way whose expected version is the stored one carries the pass over its batch of the
  *stored* state. It needs `BatchesDistinct`, no submission twice in one batch, and with the
  invariants above it is `EngineSound`.
* `NoJobIsLost`, `NoJobReturns`, `AttemptsAreClaims`, `AttemptsAreBounded`
  all follow from `AccountsSound`: jobs in the queue and jobs
  that have left it are together those that were enqueued; each job's attempts are its
  granted claims; of those that have left, as many as `completedTotal` were
  completed, and the others had used up their attempts. It is kept by one application of a
  batch because it is kept by each mutation of it; and a completion names a job
  that was enqueued.
* `CompletionsAreCounted` is about each step of the store, which by `WritesArePasses` is one
  pass over a batch. `PassTakes` says what a pass does: the expiry takes the jobs that are
  stale and used up and counts none of them; after it each mutation takes at most the job it
  completes, which its worker holds, and counts exactly that (`MutationTakes`, by `PassInduction`).
  That the worker holds it because a claim granted it is `AccountsSound`.
* `HoldersKeepTheirJobs` needs time as well: a write that lands late brings the expiry
  of an earlier clock value. `TimelySound` says that this value is not before any
  heartbeat in the queue, so whatever expires by it has also expired now.

### The election: `BrokerLeadershipProofs`

* `LeadershipTypeCorrect`, which includes that ages stay within the bounds at which
  they are cut off.
* `NoFreshLeaderDisplaced`. `ClaimSound` (`ClaimsAreSound`) is the invariant: as long
  as the version that was read is the stored one, the broker in it has expired,
  because ages only grow; so whenever the compare-and-swap succeeds, it is right.
* `PunctualLeaderHoldsLease` under `AllPunctual`: `Timeout >= Interval + 4 * MaxDelay`,
  storage does not fail, nobody is shut down or restarted, addresses are distinct; any
  number of brokers may crash. `LeaseSound` follows the heartbeat of a leader: it is as
  old as its last step allows, or a registration is on its way that was made in time
  (`InLease`); and as long as a request of a crashed leader may land, nobody else has
  written. The bound cannot be lowered: TLC refutes `LeaderHoldsLease` with one less. Two
  leaders would both be the registered one, hence `OnePunctualBrokerServes`.

### The worker: `WorkerRuntimeProofs`

* `WorkerTypeOK`, `ActiveJobsAreCounted`, `HeartbeatsEndWithTheirCall`, from
  `WorkerSound`: each entry of a map and each timer is one of a call at work on that job.
  It is not one entry per call at work: when a lease ran out and the same
  worker claimed the job again, two calls share an entry, and the first to end takes it
  away.
* `PunctualWorkerKeepsJob` under `HasTime`: `HeartbeatTimeout >= Interval + 3 * Delay`.
  `LeasesSound` says of each job of a punctual worker that its lease was renewed at most a
  delay before its timer was last set, or that a heartbeat on its way will renew it
  (`Renewed`); and that only one call of that worker has it. What other workers do to the
  queue leaves the holder alone, which is `HoldersKeepTheirJobs` of the operators
  (`SameHolders` and its neighbours). TLC refutes `PunctualKeepsJob` with a time-out
  less by one.

### The storage: `StorageProofs`

* `BackendsVersions`, `BackendsKeepUpdates`, `BackendsExtend`. The invariant
  `StorageInv` says, as long as nothing has `raced`, of each version that anybody
  holds, is given or sends that it `StandsFor` the contents it goes with: on S3 it is
  those contents, elsewhere it is a number, and when that is the current one the contents
  are too. A write that holds therefore extends the current contents, and what was
  acknowledged stays in them.
* `OnlyRepeatsDuplicate`: until its write has landed an update is in no contents
  (`NextUnwritten`, `LaterUnwritten`), a write that was given up is the only one of its
  update (`LateUnwritten`, `LateApart`), unless the client library sent it again. Like the
  other three it is about executions in which no call has `raced`; on S3 none does.
* `ThrottleImplementsBackend` is the refinement: a step of the throttle is one of the
  backend or leaves it alone. With it `ThrottledKeepsUpdates` follows, and the others do.
* `ThrottleAccounts`, `ThrottleKeepsBudget`: for each limited bucket, what was
  passed, and what is left, was in the bucket at first, has flowed in, or is in the
  delays; and on each day just the first `maxWritesPerDay` writes pass unmetered.
  `today` is the history this is about: it is reset at midnight, and the code's count with
  the first write after it, which `BudgetInv` relates.

### The client: `ClientProofs`

* `ClientTypeCorrect`, `AnswersAreOwn`, `NoCallForgotten`. `ClientInv` says in addition
  that ids of an adapter's entries, requests and answers are at most its counter,
  that entry and message of an id belong to the same call, and that whoever waits
  for an opening waits for a socket that is still connecting, which is why its end
  wakes everybody.
* `OpenSocketsAreOwned`, `FailuresAreExplained`. Of two sockets that one adapter has at a
  time, one crossed the other (`OneOrCrossed`). A socket that did not is the only one of
  its adapter until it ends or is closed (`Alone`), and is the adapter's meanwhile
  (`Held`); a call with an entry waits on a socket of that adapter which has not closed
  (`EntriesOnSockets`). The exception is per socket and not for good: a socket that
  opens after the others have closed is covered again.
* `CallsArrive`, `AnswersAreFaithful`: what `QueueApi` computes, for any calls, jobs and
  states, with a lemma per operation; `FieldOfJson` says that what is left out by
  JSON is read as undefined.

Each proof has one lemma or step per action.

### Only model-checked

Liveness and everything under fairness, as the prover has no rules for it:
`EverySubmissionSettles`, `LeaderReturns`, `EveryJobLeaves`, `StopEnds`,
`EveryCallSettles`. The four violated properties are refuted by TLC.

## 6. Not modelled

* Health and CORS routes of the broker, `close()` of adapters, custom adapters, options
  of the constructors; the generated protobuf code, but for what its messages keep.
* Wrapping and wording of errors; which tag an error of the broker has at the client.
* The producer and worker programs, which pass environment variables to the packages.
* The dashboard, a user interface whose state is what it polled last (polls overlap
  when an answer takes longer than the interval, so that an old answer may be
  shown after a newer one), the documentation site, images and cloud resources.

## 7. Plan

1. Done: `QueueState`, `AtomicQueue`, `GroupCommit`, `BrokerLeadership`,
   `WorkerRuntime`, `ObjectStorage`, `ThrottledStorage`, `QueueApi`, `ClientSession`.
2. Done: the proofs of section 5, for every invariant, every action property and
   the refinement of `AtomicQueue`.
3. To prove: that the queue of `WorkerRuntime`, one atomic step per request, is what
   `AtomicQueue` allows, so that its theorems carry over to workers behind an engine; the
   step properties behind `LeaderReturns` and `EverySubmissionSettles` that need no fairness,
   such as a bound on the attempts of a write loop.
