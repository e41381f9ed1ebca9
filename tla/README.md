# Codebox: TLA+ models, checks and proofs

Codebox runs users' scripts in Docker containers. A *broker* takes requests over gRPC, uWSGI or
Celery and sends them to a *load balancer*, which keeps connections to *workers*; each worker runs
scripts in containers that it keeps warm. This directory holds models of the parts where runs, evictions, failures
and restarts meet, the TLC configurations that check them, and proofs of what holds of them for
instances of any size.

## Files

| file | content |
| --- | --- |
| `Runner.tla` | the script runner of a worker and its containers |
| `MCRunner.tla`, `runner_*.cfg` | small instances of it |
| `RunnerProofs.tla` | theorems about it: types, pools, waiting, isolation, limits |
| `RunnerLeakProofs.tla` | theorems about it: connections, semaphore units, clean-up |
| `LoadBalancer.tla` | the load balancer, with what it keeps of its workers |
| `MCLoadBalancer.tla`, `lb_*.cfg` | small instances of it |
| `LoadBalancerProofs.tla` | theorems about it: types, connections, calls |
| `LoadBalancerCacheProofs.tla` | theorems about it: registries and CPU |
| `FileRepo.tla` | uploads into the file repository, the same on load balancer and workers |
| `MCFileRepo.tla`, `fr_*.cfg` | small instances of it |
| `RepoStore.tla` | what a file repository promises to whoever uploads, abstractly |
| `FileRepoProofs.tla` | theorems about it, and that `FileRepo` implements `RepoStore` |
| `AmqpChannel.tla` | the broker's channel to RabbitMQ |
| `Broker.tla` | the broker, composed with `AmqpChannel` and `RepoStore` |
| `MCBroker.tla`, `broker_*.cfg` | small instances of it |
| `BrokerProofs.tla` | theorems about the broker and its channel |
| `UserCache.tla` | the cache of a user: wrapper, worker and Redis |
| `MCUserCache.tla`, `cache_core.cfg` | a small instance of it |
| `UserCacheProofs.tla` | theorems about it |
| `UnitSets.tla` | lemmas: counting the units of a resource that several holders have |
| `PROJECT.json` | components, runs, mutants, hazards, theorems, and the lines each definition stands for |

Run `tlc -config runner_core.cfg MCRunner` (and so on), and `tlapm RunnerProofs.tla`. A module is
one component; its parameters are constants with an assumption by name; its MC module gives them
values. Operators named `X_Something` that no action uses are mutations of `X`: with `X` defined by
one of them, the property that `PROJECT.json` pairs with it must fail.

## Inventory

| component | state | operations | what is hard | what makes it correct |
| --- | --- | --- | --- | --- |
| Script runner (`app/script/runner.go`, `container.go`) | pool per runtime, weight semaphore, container cache, script index, wait channels of async definitions; per container: state, connections, session | Run and afterRun, Delete, CreatePool, StopPool, eviction handler | a container is used by runs, evicted by others and cleaned up by whoever is last, under three different locks; each failing step must put back what was taken | pools keep their size, the semaphore counts what is used, no cleanup under a connection, no run in another's container, every run ends |
| Load balancer (`app/lb`) | cached workers, their free CPU and error counts, cached containers by definition, workers by script index | Run with retries, Register, Disconnect, Heartbeat, ContainerRemoved, Delete | releases and evictions do not take the mutex; notifications, answers and evictions in any order | CPU accounted, limits kept, connections open while used, registries agree |
| File repository (`app/filerepo`) | cache of resources, store locks, volumes, permanent files | StoreLock, Store, StoreUnlock, Get, Delete, Link, Mount, CleanupVolume; Upload and Exists over gRPC | concurrent uploads of a key, lock timeouts, evictions of a key while it is uploaded again, goroutines that outlive their upload | only complete resources are served, nothing is left behind, locks are released |
| Broker (`app/broker`) | uploads in progress, connections to load balancers | RunHandler, Run, SimpleRun, uploads of sources, retries, traces, Shutdown | concurrent runs share one upload; attempts are repeated while streams of earlier ones are open; lost confirmations; async runs outlive their caller | one upload at a time, sources are there before the run, every run ends |
| AMQP channel (`cmd/amqp`) | channel, declared queues, running flag, mutex | Init, Publish, Shutdown, reconnecting monitor | Shutdown or Publish while reconnecting, queues lost with the connection | no use of a missing channel, no publication to a queue that is gone |
| Autoscaler (`cmd/autoscaler`) | two counters, time of the last change | one loop | counters that are not reset, unsigned numbers | stays within its scale, only after consecutive observations |
| User cache (`app/script/user_cache.go`, class Cache of `assets/wrappers/node.js`) | a hash and a sorted set in Redis per user; in each wrapper the promises of commands under way | GET, SET, replies in chunks, expiry | pipelines of several clients mix; limits kept by Lua scripts that can fail or be gone; replies without identity | recorded size and limits, each promise its own reply, every command answered |
| Result parser (`app/script/result.go`), wrappers (`assets/wrappers`, `codewrapper`) | buffers | parse frames | frames split over chunks, widths | what was framed is what is read |
| Docker manager, commands, metrics, common, deployment | – | thin layers over libraries | – | – |

How they interact: the broker uploads sources to the balancer's repository and sends it the run;
the balancer reserves a container of a worker, uploads the sources to the worker's repository
unless the container is cached, sends the run, and learns from the first response that the worker
has cached a new container. The worker tells it of each removed container. When a worker loses the
balancer it stops its pool, creates a new one and registers under a new identity.

`PROJECT.json` lists the hazards of all of this, each at the line where it bites, with the
properties that cover it or the reason why none does.

## Runner

**Correspondence.** The states and connections of containers, pool, semaphore, cache, index and
wait channels are variables by the same names or nearly so (`leader` is `containerWait`). A run is
one element of `Req`, whose `pc` says where in `getContainer`, `processRun` or `afterRun` it is; the
code runs `afterRun` in a goroutine of its own, but only after the run, so that one `pc` is enough.
A step is what happens under one lock, or one call that another goroutine can overtake. Every
function that evicts runs `onEvictedContainerHandler` itself (`victim` is the container it waits
for); the handler is four steps (`evict`): it stops the container from accepting, which needs no lock, counts the
connections, which needs the container's mutex, and then cleans up or drops the index entry. `Reserve` calls the semaphore back with the container's
mutex held: `Locked` holds everyone else off that container. Panics of the process, and uses of a
nil session that nobody recovers from, are `Crash`, followed by `Restart`. Merged into one step
because nobody can tell the difference: `delete` from `containerWait` and `close` of its channel (`Leave`; who
finds no channel in between begins a new one, as after both), and in StopPool the drain of the pool, the
flush of the cache and the reset of the index (`DrainPool`; StopPool waits for every run first, so that
only handlers that are still at work run beside it).

A run that waits for the semaphore of a cached container, and whose context ends while that
container is being evicted, goes on to the next one and leaves its connection behind (`ReserveError`, `Abandoned`). A
later run with the same request ID would then be refused (`Reserved`); two runs with one ID at the same time
are left out.

Containers are reused once nothing refers to them; the history variable `late` holds the
connections that were reserved after the container stopped accepting them. What the environment may do (`Events`)
is chosen by each run, so that none need explore the product of all of it.

**Runs.**

| run | instance | shows |
| --- | --- | --- |
| `runner_core` | 2 runs, 3 containers, weights 1 and 2 on 2 units, failing scripts, TTL, StopPool | `ConnLimited`, `KeptAlive`, `SemaphoreAccounted`, `QuietIsFree`, `StopPoolStops` |
| `runner_async` | 2 runs of an async definition, memory pressure, broken streams, TTL, Delete with and without ID | `WaitersHaveCreator`, `KeptAlive`, `SemaphoreAccounted` |
| `runner_faults` | a sync and an async definition of one script, cache of one, every step of a run can fail | `PoolConserved`, `Isolated` |
| `runner_live` | 2 runs, cache of one, contexts that end, with fairness | `RunsEnd`, `Reclaimed` |

`runner_core` and `runner_async` leave out missing resources, contexts that end at the semaphore and failing updates: each leaks
a connection or a used container (see Divergences), and properties of `runner_core` are then false. For the same reason
nothing is stated of what a pool contains: without these events only `CreateFresh` fills one. `runner_faults` and
`runner_live` have them; `Reclaimed` leaves out a container with an abandoned connection.

Two runs are enough for each race of two goroutines over one container, and with the handlers,
Delete calls and janitor there are up to five actors. Three containers are one more than two runs can use: one is
always in the pool, cached, or being replaced. Concurrency 2 with weight 2 is the smallest instance
in which a run waits although units are free. Capacity 1 makes each addition evict.

**Fairness.** Goroutines run: the steps of a run and of afterRun are strongly fair, because
other goroutines can get in between repeatedly where it waits (for the semaphore and the pool's channel, both first in
first out, and for mutexes); the handlers, Delete, the janitor, the pool's life and restarts are
weakly fair. A context that waits for the semaphore ends: the broker
gives each run a timeout (`app/broker/server.go:242`). Without that two runs can wait for each
other for ever when the cache holds one container: one waits for the semaphore, in `Reserve`'s
callback, with its container locked; the other holds the semaphore and evicts that container, and its
handler waits for the container's mutex (`EvictCountConns`).

## LoadBalancer

**Correspondence.** `workers` is the LRU cache of registered workers, `scripts` the workers' own
`scriptsRefCounter`, `byIndex` is `workersByIndex`, `cached` is `workerContainersCached`. A
`Worker` is one registration of a pool (`PoolID`): the registries by ID (`byIndex`, and `workers` as
`RegisteredAs` reads it) have pools, those by object have workers. A worker whose `Register` got no answer tries again
with the same pool ID (`cmd/worker.go:408`), and `Register` then replaces the object while the
older one may be in use, to be evicted later or dropped. A
`WorkerContainer` is an `Object`: its worker and definition never change, so they are part of its
identity. A run is an element of `Run`; `held` are its reservations in the order of its deferred
calls, one for each attempt. `Grab` is all of `grabWorkerContainer`, which holds the mutex; a
release is two steps (`Disconnect`, `Release`) because it holds none. An eviction removes the
worker from the cache in one step and runs `onEvictedWorkerHandler` in another, by the janitor,
by Disconnect or by the run whose error was one too many (`victim`). The worker's side (`Created`, `home`) and the
limiter (`Locks`) are external.

`misled` is a history variable: the pools for which the balancer's bookkeeping was told the wrong thing,
in five ways that the code allows: a removal that overtakes the announcement of its container,
one of a container whose announcement was lost, a container added after its worker was evicted,
an ID that another run overwrote, and a pool registered again while its first object was in use, whose
eviction handler wipes the index entries of the second one. `IndexCounts` and `WorkerForgotten` say that nothing else
makes the registries disagree.

**Runs.** `lb_core`: two runs on two workers, retries, errors, cancellation, evictions, an async
container of two connections and a limiter of one (`CPUAccounted`, `OpenWhileUsed`, `RegisteredAlive`, `AsyncLimited`). `lb_index`: a sync
and an async definition of one script, two containers, one run with two attempts, and a pool that its worker registers a
second time at any moment, by a second object; answers are lost, removals overtake them (`IndexCounts`, `WorkerForgotten`, and
`RegisteredAlive` and `OpenWhileUsed` with both objects). One run is enough to interleave with notifications, evictions and
registrations, since `AddCache` is atomic; two runs that announce one container are in `misled` in any case.
`lb_v_release`: one run on one worker with two objects to try, no limit, and attempts that fail:
after the last one the run waits on a nil channel. `MaxCounted` bounds how many containers are
created, and how often a pool that still has index entries is registered again. Two attempts and a threshold of two errors let a run hold two reservations, and evict a
worker that another run uses. The passing runs do not check for deadlock: a run that has used up its
retries is blocked for ever, in the code as in the model.

## FileRepo

**Correspondence.** A ticket is what `StoreLock` makes: a lock channel and a storeKey, with the
directory of that name (`files`). An upload is an element of `Uploader`; its file goroutine is
`writer`, which can outlive it. Chunks that the writer takes are no steps; one that it does not take, because
it has failed, stays in the channel, and the next one blocks the upload (`stuck`). An eviction is
the removal from the cache and two steps of the handler. Which key is the least recently used is left open.
A client sends at least one file. Volumes, permanent files and Flush are left out (see `PROJECT.json`).

**Runs.** `fr_core`: two uploads of two keys into a cache of one, with everything that can fail:
`ServedComplete`, `NoLeftovers`, `NoStaleLock`. Three tickets are enough for two uploads and a
cached resource. `fr_live`: two uploads of one key, `KeepsPromise` and `LockReleased`, assuming that goroutines run
and uploads have finitely many files. Both allow deadlock, for when every upload is stuck.

The repository's promise to its clients is `RepoStore`: an upload asks for a key, is accepted or
rejected, and if accepted commits or fails; a rejected upload finds its key served, a commit leaves
its key served, and anything can be evicted at any time. `FileRepo` maps `served` to the keys in the
cache, the stage of an upload to a function of its `pc` (`StageAt`) and states `KeepsPromise`, which
`fr_live` checks and `FileRepoProofs` proves. The broker builds on nothing else: a rejection
(`Rejected`), which for the repository is an error, is for the broker a success, and this is right
only because of that promise.

## Broker and AmqpChannel

**Correspondence.** A run is one goroutine; its `pc` follows `RunHandler` or `Run`,
`processRun`, `uploadFiles` and `processResponse`. `uploads` is the map of that name, for one load
balancer: its keys contain the balancer's address. An entry is the run that made the channel;
`close(doneCh)`, the deletion of the entry and the steps of the upload are separate actions, since
only the map is under the mutex. Whoever waits is moved on by `CloseDone` itself; one that finds a
closed channel goes on in `Enter`. `Needs` lists the keys of a run, the source first, the environment if any second;
each is uploaded in turn, and each attempt begins with the first again. A stream of an upload (`Stream`) stays open
after a failure until the context of its run ends, so that a later attempt can meet it
in the repository. Every error of `uploadChunks`, also of sending the metadata, leads to `Recheck`; only `Upload`
itself fails without one. Calls of the load balancer have outcomes only; its inside is `LoadBalancer`.

`AmqpChannel` has the connection, the monitor goroutine and the mutex that it holds while it
reconnects; `Publish` is an action that the broker's `UpdateTrace` and `SaveTrace` take, and which is
not enabled while the mutex is held. The nil channel that a failed attempt leaves behind is a value
of `ch`, and its use ends the process (`panicked`). The shutdown of the command is `Drain` (the servers
let their handlers finish), `Shutdown` (the connections to balancers are closed), `StopAmqp` and
`Exit`; async runs whose caller has had its answer are no handlers, so that they go on during all of it.

`misled` is a history variable: runs that waited for an upload that failed. `uploadFiles` returns no
error to them, and they are sent without their files; `SentWithSources` says that nobody else is,
unless the repository has evicted a key since (`evicted`).

**Runs.** `broker_core`: two runs, one through uWSGI and one async, that need the same source, the second
one an environment too; two attempts; downloads and calls fail, the repository evicts, the broker is
stopped. Two runs are enough for each of the races over one entry (begin, wait, late arrival, retry
during the other's upload); the environment makes a run go through the map twice. `broker_live`: the
same runs with one attempt, and RabbitMQ that comes and goes: `RunningSafe`, `QueueKnown`, `RunsEnd`.
Second attempts are in `broker_core` only: outages, two keys and two attempts together have too many states for a
liveness check, so `RunsEnd` says nothing of a retry that meets what the first attempt has left.

**Fairness.** The steps of a run are strongly fair, since one that publishes waits for a mutex
that the monitor takes again and again; those of an upload and of the repository's acceptance are
weakly fair, as are the monitor and Shutdown. Calls of the balancer end because each run has a
context with a timeout (`app/broker/server.go:242`). That RabbitMQ comes back is an assumption:
Publish has no context, and during an outage every run waits in it.

## UserCache

**Correspondence.** Three parties share the state: in each container the wrapper's class Cache
(`issued`, `answered`, `inValue`), in the worker one `Process` for each container (`pc`, `taken`), and Redis, with the
hash, the sum kept in it, and the sorted set. Each command of the pipeline of a SET is an action, because a
pipeline is no transaction and the commands of other containers come in between; a Lua script is
one action. GET changes nothing but scores and expiry times, and is one action. A value is its length. Replies are sequences of parts; a chunk of any
number of parts is read at once, as sockets deliver them. A chunk may end before a length, between it and its
value or within the value (`SocketData`), or within the four bytes of the length (`SplitLength`): then
`readInt32LE` throws, and the bytes are lost. From there on the wrapper takes other bytes for lengths
(`astray`), and `ReadAstray` lets it do whatever may follow: wait for more, throw again, or give promises
bytes that are no reply. In a sync container the exception becomes the script's and the stream goes on; in an async
one nobody catches it and the wrapper ends, which for the stream is `Cut`. Events cut a stream or a pipeline at any
command, refuse a command, let the keys expire and restart Redis, with or without its data but
always without its scripts.

The history variables name what the code does not handle: `drifted` (two SETs of one key that overlap, a
pipeline cut between its commands, data lost under a SET), `unpopped` (SETs that ended before the pop
script) and `dropped` (containers that have lost replies behind a null one, or bytes of a length). `SizeAccounted` says that otherwise the size
is exact when no SET is under way, and while SETs are, differs by what they owe; `ListBounded` that the sorted
set stays within its limit, up to SETs under way or cut; `OwnReply` and `Answered` that promises
get their own replies and that no command is left without.

**Run.** `cache_core`: two containers that write the same two keys, values of length 0 and 2, a limit of one key and of
size 3. The first one has three commands in flight (a GET of one key, or a SET of it to nothing; a SET of the other; a GET
again), the second one a SET. Two keys suffice to exceed both limits; the length 0 is, when read,
the reply without a value; three commands put a reply behind a null one and a value in front of one. Chunks
end anywhere, within the lengths too. It checks all five properties.

**Fairness.** `Process` and the event loop of the wrapper run. The scripts of a container need not
issue another command.

## Divergences

What the checks show the code to do otherwise than it says:

- `lb_v_release`: after its last retry has failed a run waits for ever for a response
  (`app/lb/server.go:287`), and its reservations are never released.

The properties of the passing runs hold with this in place. Further disagreements, which the models
have and from which a property is excepted or its run leaves out the event:

- A run whose context ends while it waits for the semaphore returns its new container
  to the pool (`app/script/runner.go:469`, "simply return it to pool"), and then cleans it up there (`:507`).
- When a resource is missing, the container returns to the pool ("reuse container",
  `app/script/runner.go:461`) with its connection and semaphore units. With `"missing"` among the Events of
  `runner_core`, or with `"cancel"` for the path above, each of `KeptAlive`, `QuietIsFree`, `StopPoolStops` and
  `SemaphoreAccounted` is violated.
- A run whose context ends while it waits for the semaphore of a cached container that is being
  evicted tries the next one (`app/script/runner.go:767`) and leaves its connection behind. The
  handler leaves the clean-up to whoever releases that connection, which is nobody; StopPool, which is to
  "cleanup all containers" (`:645`), ends with the container running. `Reclaimed` excepts it (`Abandoned`).
- A chunk that ends within the length of a reply makes the wrapper throw and lose the bytes
  (`assets/wrappers/node.js:230`), although it means to wait ("If we're not done reading a packet, return.", `:244`).
  `OwnReply` and `Answered` except the container by `dropped`.
- When docker cannot wake up a cached container that is evicted meanwhile, the run tries the next one
  as well (`app/script/runner.go:767`) and leaves its connection and the semaphore units behind. With `"update"` among
  the Events of an instance of two runs, `SemaphoreAccounted` and `KeptAlive` are violated.
- When a pool is registered again while the balancer uses the object of its first registration, the
  eviction handler of that one wipes the index entries of both (`app/lb/server.go:613`): without the
  exception of `misled`, `IndexCounts` is violated.
- A run that waits for an upload which fails is sent without its files (`app/broker/server.go:497`):
  without the exception of `misled`, `SentWithSources` is violated.
- The limits of the user cache (`cmd/worker.go:191` and `:195`, "max number of elements in user cache
  (per user)", "max total size ...") are limits of the list only. The pop script
  (`app/script/user_cache.go:66`) indexes the reply of ZPOPMIN from zero, gets nil and fails, after the key
  has left the sorted set: its value stays until the whole cache expires, and the SET that met the limit ends
  the stream of its container.
- A null reply and what follows it in one chunk: `assets/wrappers/node.js:232` returns without the rest. Without
  `dropped`, `OwnReply` and `Answered` are violated.
- After Shutdown of the AMQP channel during an outage the channel stays nil, and the trace of an async run that
  ends then, or the monitor, uses it (`cmd/amqp/client.go:76`): without `~running`, `RunningSafe` is violated.

Weaker spots for which no property is stated are in the hazards with a note.

## Proofs

Every safety property that a passing run checks is proved for all values of the constants that satisfy
the module's assumption: any number of runs, containers, workers, uploads, keys or commands, and
any subset of `Events` (with one exception, `NoLeak` below). The runs show the same on a small
instance, and that the properties can fail (by the mutants). Each theorem has an inductive
invariant, whose parts are named; before it was proved TLC checked it on the instances of the runs.

**Sums.** Three properties say that a count is a sum of weights: the semaphore's, the CPU of a
worker, the size of the cache. They count a set instead: a pair of the holder and a number for each
unit it holds (`1..n`). `UnitSets` has what the proofs need of such sets, from the library's facts on
cardinalities: what a set gains or loses with a holder, and what becomes of it when one holder's
number changes.

### Runner

`RunnerProofs.tla`, from `RunnerAssumption` (finite sets of runs, containers and runtimes, weights
and limits in the naturals):

- `TypeCorrect`: `Spec => []TypeOK`. `TypeOK` is not inductive: that a run is somewhere says
  nothing of whether it has a definition and a container. `Placed` adds that, and `TypeInv` is inductive.
- `PoolNeverShrinks`: `Spec => []PoolConserved`. That the pool and the debts add up is not inductive:
  a run that puts its container back must not find it in the pool already, nor share it with
  another debtor. `PoolInv` therefore adds `Debts`: which runs owe a container where, that debtors have
  different containers, that none of them is in a pool, and that pools are disjoint. Lemmas `Borrow` and `Repay` say what the
  set of debtors becomes when a run takes a container and when it puts one back; `DebtIncurred`
  and `DebtRepaid` use them for the step's effect on the sum, and `SameDebts` is for the steps that
  do not touch it. Since the pool's channel has room for Concurrency containers, the sends of
  `recreateContainer` and of the return paths never block.
- `NoLostWakeUp`: `Spec => []WaitersHaveCreator`, inductive with `Creators`: a registered creator
  is at one of the labels from which it wakes those who wait.
- `RunsIsolated`: `Spec => []Isolated`. A container may get another definition only while nobody else
  has it in hand or on its list of candidates: `Possession` says so of pooled containers and of
  those that a run has not yet cached or put back (`Unshared`).
- `ConnectionsLimited`: `Spec => []ConnLimited`, inductive with `WithinLimit` (a run that works
  keeps its connection, and its container has no more than the run's definition allows). It rests on
  `Possession`: a container keeps its definition while runs work with it.

`RunnerLeakProofs.tla` proves four more under the hypothesis `NoLeak`: no resource is missing, no context
ends while a run waits for the semaphore, and no update of a container fails. The hypothesis is
needed: with `"missing"` or `"cancel"` among the Events TLC finds each of the four violated, in an instance of
two runs, a sync and an async definition and Concurrency 1; with `"update"`, `KeptAlive` and `SemaphoreAccounted`. These are the leaks
listed under Divergences. All other failures, of scripts, set-ups, volumes, streams and the creation of containers,
memory pressure, evictions, Delete and StopPool, are allowed.

- `UnitsAccounted`, `QuietLeavesNothing`: `SemaphoreAccounted` and `QuietIsFree`, from one invariant, `LeakInv`. `Links` says that the connections of a container are those of
  the runs which work with it, `PoolClean` that what is in a pool is fresh and known to nobody,
  `Accounted` that the semaphore counts the weights of connected containers. The argument needs all three at once:
  who releases the last connection returns the weight of its own definition, and that is the
  one that was acquired because of `Links`; and `ReleaseOk` shows that Release never meets too few units.
- `ConnectionKeepsAlive`: `Spec => []KeptAlive`. `CleanUps` says of a container that somebody has
  decided to clean up (`Condemned`) that it does not accept any more, and that its connections are
  later ones; `SetUps` that such a container is not a fresh one.
- `StoppedPoolStops`: `Spec => []StopPoolStops`. `Watch` says of each container that accepts connections, or will,
  who is in charge of it: cache, pool, a handler, or a run that has yet to cache or stop it; `Closing` that a
  handler which counts connections does so when no new ones can be accepted. At
  the end of StopPool none of these is left.

### LoadBalancer

`LoadBalancerProofs.tla`, from `LoadBalancerAssumption`:

- `TypeCorrect`: `Spec => []TypeOK`. A counter that only goes down by one where it was incremented
  stays in the naturals only if the counts are right. `Counted` says so: an object has as many
  connections, and a worker as many calls, as there are reservations of it (`Holders`, `Users`: pairs of a
  run and the number of its attempt; a run between `Disconnect` and `Release` still uses the worker but holds no
  connection). `ReserveCounts`, `DisconnectCounts` and `ReleaseCounts` add or remove one entry; every other
  step leaves the reservations as they are (`SameCounts`). With `Placed` (what a run has where) and
  `Defined`, this is inductive.
- `WorkersAlive`: `RegisteredAlive` is inductive with: no registered worker is waiting for its
  eviction handler (`Registered`). Registration cannot break that since each makes a new object, also under an
  old ID, and takes the older one out of the cache.
- `StaysOpen`: `OpenWhileUsed` follows from `Counted`: `Close` waits until no call is counted, hence no run
  has a reservation. New reservations are of workers that are alive (`GrabsAlive`).
- `StaysLimited`: `AsyncLimited`; a reused object has no connections, again by `Counted`.

`LoadBalancerCacheProofs.tla` goes on from there:

- `IndexTrue` and `ForgottenForGood`: `IndexCounts` and `WorkerForgotten`. `Tallied` states the counters
  of each worker according to its life: equal to the numbers of its cached containers while it is alive, zero
  when it is gone. A step that caches or forgets a container changes three counters for the owner of the container,
  so that one must know whose it is and of which definition: `Known` for cached containers, `Announced` for those that an
  answer has named and that are not cached yet, `Alike` for the definition of a reservation.
  The indexes are kept by pool, the counters by worker: `Sole` says that of the workers of a pool only one is in
  use, unless the pool is in `misled`.
  `Announced` is where `misled` comes in: of two runs whose answers name the same container, one has misled the balancer.
- `NoCPULost`: `CPUAccounted`. Its equation (`Books`) is inductive with `Counted` and `Alike`: what the last connection
  of a container gives back is the cost of its definition, and between `Disconnect` and `Release` it is owed by the run.

### FileRepo

`FileRepoProofs.tla`, from `FileRepoAssumption`:

- `TypeCorrect`: `Spec => []TypeOK`, which is inductive.
- `ServedIsComplete`: `Spec => []ServedComplete`. That what is cached is complete says nothing of the
  upload that is about to commit, nor of who can still touch the files. `UploadInv` adds `Owners` (a
  ticket belongs to one upload, until that has committed it), `Values` (a ticket is cached under one
  key, is not cached once it is being evicted, and no goroutine stores a file for it) and `Written`
  (where a goroutine's progress shows in the files). `DropValues` and `DropKeepsValues` say what an
  eviction does to cached and evicted tickets, whichever step makes it. The lock is not needed in the
  argument: it may be lost or taken twice, since uploads write to paths of their own.
- `NothingLeftOver`: `Spec => []NoLeftovers`. `Kept` names, for files and for the goroutine that writes them,
  who takes care of them: the upload that has yet to commit or discard them, the cached value, the eviction, or
  nobody, for the uploads that `orphans` records.
- `LocksNotStale`: `Spec => []NoStaleLock`. `Locks`: the lock of a key is that of an upload of this key
  which has not closed it, that of the cached value, or the key is being evicted.
- `ImplementsStore`: `Spec => KeepsPromise`, the refinement of `RepoStore`. `TypeOK` is enough for it:
  one lemma says how a step of an upload from one label to another moves its stage (`Staged`,
  `StagedSubject`), one that an eviction is the abstract one whoever makes it (`Evicts`), and each
  action is then a step of `RepoStore` or none.

### Broker

`BrokerProofs.tla`, from `BrokerAssumption` and `AmqpAssumption`:

- `ChannelSafe` and `QueuesKnown`: `RunningSafe` and `QueueKnown` are inductive together with `NilHidden` (while the
  broker runs, the channel is nil only with the monitor at `connect`, that is with the mutex).
  `ChannelSteps` projects each step of the broker to one of the channel (`ChannelNext`).
- `TypeCorrect`: `TypeOK` with `Subjects` (a stream of the repository works on the key in its name).
- `UploadsOnce`: `Spec => []OneUpload`, inductive with the types. The cases are the beginning of an
  upload (`EnterKeeps`), its end (`CloseKeeps`, `ForgetKeeps`) and a step on the way, in which a
  run neither begins nor ends one (`MovesOn`).
- `SourcesSent`: `Spec => []SentWithSources`. `Knows` says what a run knows at each label: that
  the keys before the present one are there, and the present one from the success of its upload
  on. A run that waits knows nothing of its key, and gets it from `OneUpload`: it is woken by the run
  that has uploaded the same key, and which knows.

### UserCache

`UserCacheProofs.tla`, from `UserCacheAssumption`:

- `ListStaysBounded`: `Spec => []ListBounded`, inductive once the sorted set is known to be finite.
- `TypeCorrect` and `OwnAnswer`: `TypeOK` (of which the hard part is that no promise is answered
  before its command was read, in containers that are not `astray`) and `OwnReply`. `Answering(c, r)` describes the stream of a container whose last
  reply was the r-th: `r` is the number of commands read, less the one in a pipeline; the parts under
  way are in order (`InOrder`) up to that reply; and they begin with the reply that the first waiting promise is for,
  if none was dropped. `ChunkCompletes`, `ChunkCalls` and `RestOfStream` say what a chunk completes and leaves,
  wherever it ends; once bytes are lost nothing is claimed of whose reply a promise gets, only that no
  promise is answered twice (`LossAnswers`, `AstrayBounded`). `PiecesInOrder` and `JoinInOrder` are for chunks and new replies. What a chunk of any length completes is defined by recursion;
  `CompleteIs` proves what it computes, by induction over the length of the chunk. The
  library's induction theorems cannot be used for that, but `Least` (a set of numbers has a least
  element) follows from its facts on well-founded relations, and `NumberInduction` from `Least`.
- `SizeTrue`: `Spec => []SizeAccounted`. The equation alone is not inductive: the first of two SETs of a key that stores
  its value changes what the other one owes. `Sized` adds that there is no second one (`Single`) unless `drifted`, and it must hold again when `Lose` resets `drifted`.

### Only model-checked

Liveness under fairness (`RunsEnd` of Runner and Broker, `Reclaimed`, `LockReleased`, `Answered`, and the violation of
`ReservationsReleased`), which is beyond the prover.

## Not modelled, and what could follow

- The autoscaler and the command loop of the worker (`cmd/worker.go`) beyond what `Runner` and
  `LoadBalancer` have of it: sequential loops around external services.
- Result parsing and the protocol of a run between worker and wrapper: framing of bytes.
- Volumes, PermStore and Flush of the file repository, and the readers of its resources (`Link` walks
  a path that can be evicted under it, see the hazards).
- The choice of the broker among several load balancers.
- The Docker manager, metrics, flags and generated assets.

Worth proving next: `QuietLeavesNothing` and `StoppedPoolStops` with failing updates, which TLC finds
to hold; and what is true of the four theorems under `NoLeak` once a leak has happened, with
a history variable for the containers and units concerned instead of a hypothesis.
