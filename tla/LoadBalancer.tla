---------------------------- MODULE LoadBalancer ----------------------------
(***************************************************************************)
(* The load balancer (app/lb/server.go) and what it keeps of its workers   *)
(* (app/lb/worker.go): runs reserve CPU and connections on workers, learn  *)
(* which containers the workers have cached, and retry on errors, while    *)
(* workers register, are evicted and notify of removed containers.         *)
(*                                                                         *)
(* A step is what the code does while it holds the server's mutex, or      *)
(* between two calls that can block.  The mutex does not cover everything: *)
(* releases, evictions from the worker cache and the container's ID are    *)
(* changed without it.                                                     *)
(***************************************************************************)
EXTENDS Integers, Sequences, FiniteSets

CONSTANTS
  Run,        \* goroutines serving a Run call, reused for one after another
  Worker,     \* Worker objects of the balancer, one for each registration
  Pool,       \* pool IDs: a worker process makes one for each pool of its runner
  PoolID,     \* [Worker -> Pool]: the ID that the object is registered under
  Copy,       \* WorkerContainers there can be for one worker and definition
  Container,  \* IDs of containers on the workers, reused once forgotten
  Def,        \* script definitions
  Index,      \* script indexes
  DefIndex,   \* [Def -> Index]
  Async,      \* [Def -> Nat]
  Mcpu,       \* [Def -> Nat]: what a run takes of its worker's CPU
  Limit,      \* [Def -> Nat]: ConcurrencyLimit of the runs, 0 is none
  MCPU,       \* CPU of a worker
  WorkerRetry, WorkerErrorThreshold,
  MaxCounted, \* bound: no container is created, and no pool registered again, beyond it
  Events,     \* what the environment may do, a subset of AllEvents
  None

AllEvents ==
  {"fail",    \* an upload to a worker, or sending the run to it, fails
   "error",   \* a worker answers with an error, or breaks off its answer
   "cancel",  \* the context of a run ends
   "evict",   \* a worker disconnects or its heartbeats stop
   "lost",    \* a worker caches a container but its answer gets lost
   "early",   \* ContainerRemoved overtakes the answer that announces the container
   "again"}   \* Register fails on the worker only, which retries with the same pool

ASSUME LoadBalancerAssumption ==
  /\ IsFiniteSet(Run) /\ IsFiniteSet(Worker) /\ IsFiniteSet(Copy) /\ IsFiniteSet(Container)
  /\ PoolID \in [Worker -> Pool]
  /\ DefIndex \in [Def -> Index]
  /\ Async \in [Def -> Nat] /\ Mcpu \in [Def -> Nat] /\ Limit \in [Def -> Nat]
  /\ MCPU \in Nat
  /\ MaxCounted \in Nat
  /\ WorkerRetry \in Nat \ {0} /\ WorkerErrorThreshold \in Nat \ {0}
  /\ Events \subseteq AllEvents
  /\ None \notin Worker \cup Pool \cup Container \cup Def \cup (Worker \X Def \X Copy)

\* WorkerContainer: its worker and what it was reserved for never change.  The
\* structure is reused once nothing refers to it.
Object == Worker \X Def \X Copy
Owner(o) == o[1]
DefOf(o) == o[2]

VARIABLES
  workers,   \* the cache of registered workers, by their IDs
  evicting,  \* workers removed from it whose onEvictedWorkerHandler is to run
  wst,       \* [Worker -> alive, shut down, or its connection closed (or not open yet)]
  freeCPU,   \* [Worker -> Int]
  inUse,     \* [Worker -> Nat]: waitGroup
  errors,    \* [Worker -> Nat]: errorCount
  scripts,   \* [Worker -> [Def -> Nat]]: scriptsRefCounter
  byIndex,   \* [Index -> [Pool -> Nat]]: workersByIndex
  cached,    \* [Container -> Object or None]: workerContainersCached
  conns,     \* [Object -> Nat]
  home,      \* [Container -> pool that has it, or has had it, or None]
  hdef,      \* [Container -> its definition]
  removing,  \* [Container -> worker that its ContainerRemoved call has found, or None]
  pc,        \* [Run -> where the run is]
  rdef,      \* [Run -> Definition of the run]
  held,      \* [Run -> what its deferred calls give back, in the order reserved]
  answer,    \* [Run -> container of a response with Cached set, then ID of its object]
  left,      \* [Run -> connections left at the object being released]
  victim,    \* [Run -> worker whose eviction handler the run is executing]
  misled     \* history: pools of which the balancer got its registries wrong

workerVars == <<workers, evicting, wst, freeCPU, inUse, errors>>
cacheVars  == <<scripts, byIndex, cached, misled>>
remoteVars == <<home, hdef, removing>>
runVars    == <<pc, rdef, held, answer, left, victim>>
vars == <<workerVars, cacheVars, conns, remoteVars, runVars>>

Labels == {"idle", "grab", "lock", "attempt", "relay", "answered", "settle", "cache",
           "release", "released", "blocked"}

TypeOK ==
  /\ workers \in SUBSET Worker /\ evicting \in SUBSET Worker
  /\ wst \in [Worker -> {"alive", "shut", "closed"}]
  /\ freeCPU \in [Worker -> Int]
  /\ inUse \in [Worker -> Nat]
  /\ errors \in [Worker -> 0..WorkerErrorThreshold]
  /\ scripts \in [Worker -> [Def -> Nat]]
  /\ byIndex \in [Index -> [Pool -> Nat]]
  /\ cached \in [Container -> Object \cup {None}]
  /\ conns \in [Object -> Nat]
  /\ home \in [Container -> Pool \cup {None}]
  /\ hdef \in [Container -> Def \cup {None}]
  /\ removing \in [Container -> Worker \cup {None}]
  /\ pc \in [Run -> Labels]
  /\ rdef \in [Run -> Def \cup {None}]
  /\ held \in [Run -> Seq([cont : Object, locked : BOOLEAN])]
  /\ \A r \in Run : Len(held[r]) <= WorkerRetry
  /\ answer \in [Run -> Container \cup {None}]
  /\ left \in [Run -> Nat]
  /\ victim \in [Run -> Worker \cup {None}]
  /\ misled \in SUBSET Pool

Init ==
  /\ workers = {} /\ evicting = {} /\ misled = {}
  /\ removing = [k \in Container |-> None]
  /\ wst = [w \in Worker |-> "closed"]
  /\ freeCPU = [w \in Worker |-> 0]
  /\ inUse = [w \in Worker |-> 0]
  /\ errors = [w \in Worker |-> 0]
  /\ scripts = [w \in Worker |-> [d \in Def |-> 0]]
  /\ byIndex = [i \in Index |-> [p \in Pool |-> 0]]
  /\ cached = [k \in Container |-> None]
  /\ conns = [o \in Object |-> 0]
  /\ home = [k \in Container |-> None]
  /\ hdef = [k \in Container |-> None]
  /\ pc = [r \in Run |-> "idle"]
  /\ rdef = [r \in Run |-> None]
  /\ held = [r \in Run |-> << >>]
  /\ answer = [r \in Run |-> None]
  /\ left = [r \in Run |-> 0]
  /\ victim = [r \in Run |-> None]

-----------------------------------------------------------------------------
(* What refers to what *)

Goto(r, label) == pc' = [pc EXCEPT ![r] = label]

\* What the run reserved last, and on which worker.
Current(r) == held[r][Len(held[r])].cont
WorkerOf(r) == Owner(Current(r))

HeldBy(r) == {held[r][n].cont : n \in DOMAIN held[r]}

CachedFor(d) == {cached[k] : k \in {c \in Container : cached[c] # None /\ DefOf(cached[c]) = d}}

UnusedObject(o) ==
  /\ \A k \in Container : cached[k] # o
  /\ \A r \in Run : o \notin HeldBy(r)

UnusedContainer(k) ==
  /\ home[k] = None /\ cached[k] = None
  /\ \A r \in Run : answer[r] # k

\* Something of the balancer still refers to the worker.
Used(w) ==
  \/ \E o \in Object : Owner(o) = w /\ ~UnusedObject(o)
  \/ \E k \in Container : removing[k] = w

UnusedWorker(w) == wst[w] = "closed" /\ w \notin evicting /\ ~Used(w)

UnusedPool(p) ==
  /\ \A w \in Worker : PoolID[w] = p => UnusedWorker(w)
  /\ \A k \in Container : home[k] # p
  /\ \A i \in Index : byIndex[i][p] = 0

RegisteredAs(p) == {w \in workers : PoolID[w] = p}

-----------------------------------------------------------------------------
(* Workers *)

\* Register, of a worker process that has just made a new pool, or that tries
\* again because it got no answer.  The worker object then replaces the one that
\* is registered under the ID, which the cache may evict or simply drop.  If the
\* balancer has used an older object of the pool, its registries by ID and those
\* by object no longer go together.
Register(w) ==
  LET p == PoolID[w] IN
  /\ UnusedWorker(w)
  /\ UnusedPool(p) \/ ("again" \in Events /\ \A i \in Index : byIndex[i][p] <= MaxCounted)
  /\ workers' = (workers \ RegisteredAs(p)) \cup {w}
  /\ evicting' \in {evicting, evicting \cup RegisteredAs(p)}
  /\ wst' = [wst EXCEPT ![w] = "alive"]
  /\ freeCPU' = [freeCPU EXCEPT ![w] = MCPU]
  /\ misled' = IF UnusedPool(p) THEN misled \ {p}
               ELSE IF \E v \in Worker : PoolID[v] = p /\ Used(v) THEN misled \cup {p}
               ELSE misled
  /\ UNCHANGED <<inUse, errors, scripts, byIndex, cached, conns, remoteVars, runVars>>

Expel_KeepsWorker(w) == evicting' = evicting \cup {w} /\ UNCHANGED workers

\* Taking a worker out of the cache makes the caller run the handler.
Expel(w) ==
  /\ workers' = workers \ {w}
  /\ evicting' = evicting \cup {w}

\* Disconnect, or the cache's janitor after WorkerKeepalive without heartbeat.
Evict(w) ==
  /\ "evict" \in Events /\ w \in workers
  /\ Expel(w)
  /\ UNCHANGED <<wst, freeCPU, inUse, errors, cacheVars, conns, remoteVars, runVars>>

Forget_ContainersOnly(w) ==
  /\ cached' = [k \in Container |->
                  IF cached[k] # None /\ Owner(cached[k]) = w /\ scripts[w][DefOf(cached[k])] > 1
                  THEN None ELSE cached[k]]
  /\ byIndex' = [i \in Index |->
                   IF \E d \in Def : DefIndex[d] = i /\ scripts[w][d] > 0
                   THEN [byIndex[i] EXCEPT ![PoolID[w]] = 0] ELSE byIndex[i]]

Forget_AllOfPool(w) ==
  /\ cached' = [k \in Container |->
                  IF cached[k] # None /\ Owner(cached[k]) = w THEN None ELSE cached[k]]
  /\ byIndex' = [i \in Index |-> [byIndex[i] EXCEPT ![PoolID[w]] = 0]]

\* Drop the containers and the index entries of the definitions that the
\* worker's own counters know.
Forget(w) ==
  /\ cached' = [k \in Container |->
                  IF cached[k] # None /\ Owner(cached[k]) = w /\ scripts[w][DefOf(cached[k])] > 0
                  THEN None ELSE cached[k]]
  /\ byIndex' = [i \in Index |->
                   IF \E d \in Def : DefIndex[d] = i /\ scripts[w][d] > 0
                   THEN [byIndex[i] EXCEPT ![PoolID[w]] = 0] ELSE byIndex[i]]

\* onEvictedWorkerHandler and Shutdown.
EvictHandler(w) ==
  /\ w \in evicting
  /\ evicting' = evicting \ {w}
  /\ wst' = [wst EXCEPT ![w] = "shut"]
  /\ Forget(w)
  /\ UNCHANGED <<workers, freeCPU, inUse, errors, scripts, misled, conns,
                 remoteVars, runVars>>

\* Shutdown's goroutine has waited for the calls to finish.  Nobody looks at
\* the worker's counters any more.
Close(w) ==
  /\ wst[w] = "shut" /\ inUse[w] = 0
  /\ wst' = [wst EXCEPT ![w] = "closed"]
  /\ freeCPU' = [freeCPU EXCEPT ![w] = 0]
  /\ errors' = [errors EXCEPT ![w] = 0]
  /\ scripts' = [scripts EXCEPT ![w] = [d \in Def |-> 0]]
  /\ UNCHANGED <<workers, evicting, inUse, byIndex, cached, misled, conns,
                 remoteVars, runVars>>

\* ContainerRemoved up to the server's mutex: a worker that is not registered
\* is refused.  Unless the notification is early, the answer that announces
\* the container has been processed.
ContainerRemoved(k) ==
  /\ home[k] # None /\ removing[k] = None
  /\ "early" \notin Events => \A r \in Run : answer[r] # k
  /\ \/ /\ \E w \in RegisteredAs(home[k]) : removing' = [removing EXCEPT ![k] = w]
        /\ UNCHANGED <<home, hdef>>
     \/ /\ RegisteredAs(home[k]) = {}
        /\ home' = [home EXCEPT ![k] = None] /\ hdef' = [hdef EXCEPT ![k] = None]
        /\ UNCHANGED removing
  /\ UNCHANGED <<workerVars, cacheVars, conns, runVars>>

Decrement_Always(n) == n - 1
Decrement(n) == IF n > 0 THEN n - 1 ELSE 0

\* removeCache
RemoveCache(k) ==
  LET w == removing[k]
      d == hdef[k] IN
  /\ w # None
  /\ removing' = [removing EXCEPT ![k] = None]
  /\ home' = [home EXCEPT ![k] = None] /\ hdef' = [hdef EXCEPT ![k] = None]
  /\ scripts' = [scripts EXCEPT ![w][d] = Decrement(@)]
  /\ byIndex' = [byIndex EXCEPT ![DefIndex[d]][PoolID[w]] = Decrement(@)]
  /\ cached' = [cached EXCEPT ![k] = None]
  /\ misled' = IF cached[k] = None THEN misled \cup {PoolID[w]} ELSE misled
  /\ UNCHANGED <<workerVars, conns, runVars>>

-----------------------------------------------------------------------------
(* Run *)

Start(r, d) ==
  /\ pc[r] = "idle"
  /\ rdef' = [rdef EXCEPT ![r] = d]
  /\ Goto(r, "grab")
  /\ UNCHANGED <<workerVars, cacheVars, conns, remoteVars, held, answer, left, victim>>

HandlerDone(r) == victim[r] \notin evicting

\* A run that has nothing to give back is over.
Return(r) ==
  /\ Goto(r, "idle")
  /\ rdef' = [rdef EXCEPT ![r] = None]
  /\ answer' = [answer EXCEPT ![r] = None]
  /\ left' = [left EXCEPT ![r] = 0]
  /\ victim' = [victim EXCEPT ![r] = None]

HasConn_OffByOne(o) == conns[o] <= Async[DefOf(o)]
HasConn(o) == conns[o] < Async[DefOf(o)]

\* The cached containers that grabWorkerContainer considers: of an async
\* definition those with a connection left, else those with free CPU whose
\* worker's ID is registered.
Considered(d) ==
  IF Async[d] > 1 THEN {o \in CachedFor(d) : HasConn(o)}
  ELSE {o \in CachedFor(d) : RegisteredAs(PoolID[Owner(o)]) # {} /\ freeCPU[Owner(o)] > 0}

\* worker.reserve refuses a worker that is not alive; the container is then
\* blacklisted and the next one considered.
Reservable_Always(o) == TRUE
Reservable(o) == wst[Owner(o)] = "alive"

\* Sync runs take the container whose worker has the most free CPU.
Preferred(o, S) ==
  Async[DefOf(o)] > 1 \/ \A p \in S : freeCPU[Owner(p)] <= freeCPU[Owner(o)]

FreestWorkers == {w \in workers : \A v \in workers : freeCPU[v] <= freeCPU[w]}

\* WorkerContainer.Reserve: only the first connection takes CPU, and only a run
\* that has it goes through the limiter.
Reserve(r, o) ==
  /\ conns' = [conns EXCEPT ![o] = @ + 1]
  /\ inUse' = [inUse EXCEPT ![Owner(o)] = @ + 1]
  /\ freeCPU' = [freeCPU EXCEPT ![Owner(o)] = IF conns[o] = 0 THEN @ - Mcpu[DefOf(o)] ELSE @]
  /\ held' = [held EXCEPT ![r] = Append(@, [cont |-> o, locked |-> FALSE])]
  /\ Goto(r, IF conns[o] = 0 /\ Limit[DefOf(o)] > 0 THEN "lock" ELSE "attempt")

\* grabWorkerContainer, all of it under the server's mutex.  (A fresh container
\* on a worker that is not alive would be tried again for ever.)
Grab(r) ==
  LET d == rdef[r]
      S == {o \in Considered(d) : Reservable(o)} IN
  /\ pc[r] = "grab" /\ HandlerDone(r)
  /\ \/ /\ \E o \in S : Preferred(o, S) /\ Reserve(r, o)
        /\ UNCHANGED <<rdef, answer, left, victim>>
     \/ /\ S = {}
        /\ \E w \in FreestWorkers, n \in Copy :
             UnusedObject(<<w, d, n>>) /\ Reserve(r, <<w, d, n>>)
        /\ UNCHANGED <<rdef, answer, left, victim>>
     \/ /\ S = {} /\ workers = {}
        /\ IF held[r] = << >> THEN Return(r)
           ELSE Goto(r, "release") /\ UNCHANGED <<rdef, answer, left, victim>>
        /\ UNCHANGED <<freeCPU, inUse, conns, held>>
  /\ UNCHANGED <<workers, evicting, wst, errors, cacheVars, remoteVars>>

\* Locks that runs of d hold in the limiter.
Locks(d) ==
  {p \in Run \X (1..WorkerRetry) :
     rdef[p[1]] = d /\ p[2] \in DOMAIN held[p[1]] /\ held[p[1]][p[2]].locked}

Lock(r) ==
  /\ pc[r] = "lock"
  /\ \/ /\ Cardinality(Locks(rdef[r])) < Limit[rdef[r]]
        /\ held' = [held EXCEPT ![r][Len(held[r])].locked = TRUE]
        /\ Goto(r, "attempt")
     \/ "cancel" \in Events /\ Goto(r, "release") /\ UNCHANGED held
  /\ UNCHANGED <<workerVars, cacheVars, conns, remoteVars, rdef, answer, left, victim>>

\* handleWorkerError.  The worker that gets deleted is the one that is registered
\* under the ID.  Errors past the threshold make no difference: they are not
\* counted here.
HandleWorkerError(r) ==
  LET w == WorkerOf(r) IN
  /\ errors' = [errors EXCEPT ![w] = IF @ < WorkerErrorThreshold THEN @ + 1 ELSE @]
  /\ IF errors[w] + 1 >= WorkerErrorThreshold /\ RegisteredAs(PoolID[w]) # {}
     THEN \E v \in RegisteredAs(PoolID[w]) : Expel(v) /\ victim' = [victim EXCEPT ![r] = v]
     ELSE UNCHANGED <<workers, evicting, victim>>

\* processWorkerRun: the sources are uploaded to the worker unless the
\* container is cached, and the run is sent to it.  If that fails the run is
\* retried, except if chunks of it have been read already.  After the last
\* retry relayReponse receives from a nil channel.
Attempt(r) ==
  /\ pc[r] = "attempt"
  /\ \/ Goto(r, "relay") /\ UNCHANGED <<workers, evicting, errors, victim>>
     \/ /\ "fail" \in Events
        /\ HandleWorkerError(r)
        /\ \/ Goto(r, IF Len(held[r]) < WorkerRetry THEN "grab" ELSE "blocked")
           \/ Goto(r, "release")
     \/ /\ "cancel" \in Events
        /\ Goto(r, "release") /\ UNCHANGED <<workers, evicting, errors, victim>>
  /\ UNCHANGED <<wst, freeCPU, inUse, cacheVars, conns, remoteVars, rdef, held, answer, left>>

\* A container that the worker creates for the run.
Created(r, k) ==
  /\ UnusedContainer(k) /\ scripts[WorkerOf(r)][rdef[r]] <= MaxCounted
  /\ home' = [home EXCEPT ![k] = PoolID[WorkerOf(r)]]
  /\ hdef' = [hdef EXCEPT ![k] = rdef[r]]

\* relayReponse receives the first response: Cached is set if the worker
\* created a container for the run.
Answer(r) ==
  /\ pc[r] = "relay" /\ Goto(r, "answered")
  /\ \/ \E k \in Container : Created(r, k) /\ answer' = [answer EXCEPT ![r] = k]
     \/ UNCHANGED <<home, hdef, answer>>
  /\ UNCHANGED <<removing, workerVars, cacheVars, conns, rdef, held, left, victim>>

\* relayReponse receives an error, before or after a first response.  It may
\* be that the worker has cached a container that is never announced.
WorkerError(r) ==
  /\ pc[r] \in {"relay", "answered"}
  /\ \/ "error" \in Events /\ HandleWorkerError(r)
     \/ "cancel" \in Events /\ UNCHANGED <<workers, evicting, errors, victim>>
  /\ Goto(r, IF pc[r] = "relay" THEN "release" ELSE "settle")
  /\ \/ UNCHANGED <<home, hdef>>
     \/ "lost" \in Events /\ pc[r] = "relay" /\ \E k \in Container : Created(r, k)
  /\ UNCHANGED <<removing, wst, freeCPU, inUse, cacheVars, conns, rdef, held, answer, left>>

\* Runs that are about to cache the object that r uses.
SharingID(r) == {q \in Run : pc[q] = "cache" /\ Current(q) = Current(r)}

\* ResetErrorCount, and cont.ID = response.ContainerId without the mutex:
\* another run that shares the object will cache it under this ID.
Settle(r) ==
  /\ pc[r] \in {"answered", "settle"} /\ HandlerDone(r)
  /\ errors' = [errors EXCEPT ![WorkerOf(r)] = 0]
  /\ IF answer[r] = None
     THEN Goto(r, "release") /\ UNCHANGED <<answer, misled>>
     ELSE /\ Goto(r, "cache")
          /\ answer' = [q \in Run |-> IF q \in SharingID(r) THEN answer[r] ELSE answer[q]]
          /\ misled' = IF SharingID(r) = {} THEN misled ELSE misled \cup {PoolID[WorkerOf(r)]}
  /\ UNCHANGED <<workers, evicting, wst, freeCPU, inUse, scripts, byIndex, cached, conns,
                 remoteVars, rdef, held, left, victim>>

\* addCache
AddCache(r) ==
  LET o == Current(r)
      w == Owner(o)
      d == rdef[r] IN
  /\ pc[r] = "cache" /\ Goto(r, "release")
  /\ scripts' = [scripts EXCEPT ![w][d] = @ + 1]
  /\ byIndex' = [byIndex EXCEPT ![DefIndex[d]][PoolID[w]] = @ + 1]
  /\ cached' = [cached EXCEPT ![answer[r]] = o]
  /\ misled' = IF wst[w] = "alive" THEN misled ELSE misled \cup {PoolID[w]}
  /\ answer' = [answer EXCEPT ![r] = None]
  /\ UNCHANGED <<workerVars, conns, remoteVars, rdef, held, left, victim>>

\* The deferred calls, the last one first: limiter.Unlock and the connection.
Disconnect(r) ==
  LET o == Current(r) IN
  /\ pc[r] = "release" /\ HandlerDone(r) /\ Goto(r, "released")
  /\ conns' = [conns EXCEPT ![o] = @ - 1]
  /\ left' = [left EXCEPT ![r] = conns[o] - 1]
  /\ held' = [held EXCEPT ![r][Len(held[r])].locked = FALSE]
  /\ UNCHANGED <<workerVars, cacheVars, remoteVars, rdef, answer, victim>>

\* The last connection gives the CPU back.
Refund_Always(r) == wst[WorkerOf(r)] = "alive"
Refund(r) == left[r] = 0 /\ wst[WorkerOf(r)] = "alive"

\* worker.release
Release(r) ==
  LET w == WorkerOf(r) IN
  /\ pc[r] = "released"
  /\ freeCPU' = [freeCPU EXCEPT ![w] = IF Refund(r) THEN @ + Mcpu[rdef[r]] ELSE @]
  /\ inUse' = [inUse EXCEPT ![w] = @ - 1]
  /\ held' = [held EXCEPT ![r] = SubSeq(@, 1, Len(@) - 1)]
  /\ IF Len(held[r]) = 1 THEN Return(r)
     ELSE /\ Goto(r, "release") /\ left' = [left EXCEPT ![r] = 0]
          /\ UNCHANGED <<rdef, answer, victim>>
  /\ UNCHANGED <<workers, evicting, wst, errors, cacheVars, conns, remoteVars>>

-----------------------------------------------------------------------------

RunStep(r) ==
  \/ Grab(r) \/ Lock(r) \/ Attempt(r) \/ Answer(r) \/ WorkerError(r) \/ Settle(r)
  \/ AddCache(r) \/ Disconnect(r) \/ Release(r)

Next ==
  \/ \E r \in Run : (\E d \in Def : Start(r, d)) \/ RunStep(r)
  \/ \E w \in Worker : Register(w) \/ Evict(w) \/ EvictHandler(w) \/ Close(w)
  \/ \E k \in Container : ContainerRemoved(k) \/ RemoveCache(k)

Spec == Init /\ [][Next]_vars

\* Goroutines run, the workers answer, the limiter serves its queue in order.
FairSpec ==
  /\ Spec
  /\ \A r \in Run : SF_vars(RunStep(r))
  /\ \A w \in Worker : WF_vars(EvictHandler(w)) /\ WF_vars(Close(w))
  /\ \A k \in Container : WF_vars(RemoveCache(k))

-----------------------------------------------------------------------------
(* Properties *)

\* Units of a worker's CPU: those of its containers that have connections, and
\* those of runs that have closed the last one but not given them back yet.
CPUTaken(w) ==
  UNION {{o} \X (1..Mcpu[DefOf(o)]) : o \in {p \in Object : Owner(p) = w /\ conns[p] > 0}}
CPUDue(w) ==
  UNION {{r} \X (1..Mcpu[rdef[r]]) :
           r \in {q \in Run : pc[q] = "released" /\ left[q] = 0 /\ WorkerOf(q) = w}}

\* A worker's free CPU is what its containers leave of it: none gets lost, and
\* none is given back twice.
CPUAccounted ==
  \A w \in Worker : wst[w] = "alive" =>
    freeCPU[w] = MCPU - Cardinality(CPUTaken(w)) - Cardinality(CPUDue(w))

\* The connection to a worker is not closed while a run uses it.
OpenWhileUsed == \A r \in Run : \A o \in HeldBy(r) : wst[Owner(o)] # "closed"

\* A registered worker is alive: grabWorkerContainer, which holds the mutex,
\* comes to an end.
RegisteredAlive == \A w \in workers : wst[w] = "alive"

\* An async container gets at most Async connections.
AsyncLimited == \A o \in Object : conns[o] > 1 /\ Async[DefOf(o)] > 1 => conns[o] <= Async[DefOf(o)]

\* The cached containers of a worker, and those of a pool, of some definitions.
CachedOn(w, D) == {k \in Container : cached[k] # None /\ Owner(cached[k]) = w /\ DefOf(cached[k]) \in D}
CachedAt(p, D) ==
  {k \in Container : cached[k] # None /\ PoolID[Owner(cached[k])] = p /\ DefOf(cached[k]) \in D}

\* A registered worker is found under exactly the indexes of the containers that
\* the balancer knows of: Delete reaches it.
IndexCounts ==
  \A w \in workers : PoolID[w] \notin misled =>
    /\ \A d \in Def : scripts[w][d] = Cardinality(CachedOn(w, {d}))
    /\ \A i \in Index :
         byIndex[i][PoolID[w]] = Cardinality(CachedAt(PoolID[w], {d \in Def : DefIndex[d] = i}))

\* Nothing is left of the containers of a worker that was shut down.
WorkerForgotten ==
  /\ \A w \in Worker : PoolID[w] \notin misled /\ wst[w] # "alive" => CachedOn(w, Def) = {}
  /\ \A p \in Pool \ misled :
       (\A w \in Worker : PoolID[w] = p => wst[w] # "alive") => \A i \in Index : byIndex[i][p] = 0

\* What a run reserved on workers it gives back.
ReservationsReleased == \A r \in Run : held[r] # << >> ~> held[r] = << >>

=============================================================================
