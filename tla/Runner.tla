------------------------------- MODULE Runner -------------------------------
(***************************************************************************)
(* The script runner of a worker (app/script/runner.go) and the containers *)
(* it manages (app/script/container.go): concurrent runs take containers   *)
(* from a cache or from a per-runtime pool, reserve connections and pool   *)
(* semaphore units, and clean up after themselves, while evictions, Delete *)
(* calls and StopPool work on the same containers.                         *)
(*                                                                         *)
(* A container in use by several goroutines is protected by three          *)
(* different things: its state (an atomic), its mutex and the cache's      *)
(* mutex.  A step below is what the code does under one of them.           *)
(***************************************************************************)
EXTENDS Integers, FiniteSets

CONSTANTS
  Req,          \* request IDs, each with the goroutine that serves it
  Cont,         \* identities of containers, reused once nothing refers to them
  Def,          \* script definitions (cache keys)
  Runtime,      \* supported runtimes
  Index,        \* script indexes (runtime, source, user)
  DefRuntime,   \* [Def -> Runtime]
  DefIndex,     \* [Def -> Index]
  Async,        \* [Def -> Nat]: connections a container takes, 0 and 1 are sync
  Weight,       \* [Def -> Nat \ {0}]: semaphore units, the MCPU of a run in pool shares
  Concurrency,  \* containers per runtime in the pool and units of the semaphore
  Capacity,     \* capacity of the container cache
  Events,       \* what the environment may do, a subset of AllEvents
  None

AllEvents ==
  {"run",      \* a script, or the connection to it, fails
   "setup",    \* Link, Mount or SendSetup fails
   "missing",  \* Link fails with ErrResourceNotFound
   "volume",   \* CleanupVolume fails
   "cancel",   \* a context ends while its run waits for the semaphore
   "update",   \* docker fails to change the resources of a container
   "create",   \* docker fails to create a container, after all retries
   "memory",   \* CheckFreeMemory reports too little memory
   "stream",   \* the cache, stdout or stderr stream of a container breaks
   "ttl",      \* the cache's janitor finds a container too old
   "delete",   \* Delete is called for a script index
   "deleteID", \* Delete is called for one container of a script index
   "stop"}     \* the worker leaves its load balancer and resets the pool

ASSUME RunnerAssumption ==
  /\ IsFiniteSet(Req) /\ IsFiniteSet(Cont) /\ IsFiniteSet(Runtime)
  /\ DefRuntime \in [Def -> Runtime]
  /\ DefIndex \in [Def -> Index]
  /\ Async \in [Def -> Nat]
  /\ Weight \in [Def -> Nat \ {0}]
  /\ Concurrency \in Nat \ {0}
  /\ Capacity \in Nat \ {0}
  /\ Events \subseteq AllEvents
  /\ None \notin Req \cup Cont \cup Def

VARIABLES
  phase,   \* of the process: pool stopped (or being filled), serving, stopping, crashed
  pool,    \* [Runtime -> SUBSET Cont]: containerPool
  sem,     \* units of poolSemaphore in use
  cache,   \* containerCache, a set of containers under the definitions in cdef
  index,   \* scriptIndex, the set of indexed definitions
  leader,  \* [Def -> Req or None]: containerWait, the run that creates a container
  st,      \* [Cont -> state of the container]
  cdef,    \* [Cont -> Definition of the container]
  conns,   \* [Cont -> reserved connection IDs]
  evict,   \* [Cont -> where onEvictedContainerHandler is]
  doomed,  \* containers that a Delete call is about to delete
  pc,      \* [Req -> where the run is]
  rdef,    \* [Req -> Definition of the run]
  rcont,   \* [Req -> container of the run]
  cand,    \* [Req -> cached containers it has still to try]
  isNew,   \* [Req -> newContainer: rcont was taken from the pool]
  err,     \* [Req -> error the run ended with]
  victim,  \* [Req -> container whose eviction handler the run is executing]
  late     \* history: connections reserved after the container stopped accepting

reqVars  == <<pc, rdef, rcont, cand, isNew, err, victim>>
contVars == <<st, cdef, conns, evict, late>>
vars == <<phase, pool, sem, cache, index, leader, doomed, reqVars, contVars>>

Phases  == {"stopped", "serving", "stopping", "crashed"}
States  == {"none", "fresh", "running", "stopping", "stopped"}
Evictor == {"no", "handler", "count", "cleanup", "drop"}
InRun   == {"try", "wait", "woken", "take", "reserve", "acquire", "setup",
            "add", "index", "conn", "run"}
InAfterRun == {"after", "delete", "evicted", "recreate", "finish", "cleanup", "memory"}
Errors  == {"none", "semaphore", "missing", "other"}

TypeOK ==
  /\ phase \in Phases
  /\ pool \in [Runtime -> SUBSET Cont]
  /\ sem \in 0..Concurrency
  /\ cache \in SUBSET Cont
  /\ index \in SUBSET Def
  /\ leader \in [Def -> Req \cup {None}]
  /\ st \in [Cont -> States]
  /\ cdef \in [Cont -> Def \cup {None}]
  /\ conns \in [Cont -> SUBSET Req]
  /\ evict \in [Cont -> Evictor]
  /\ doomed \in SUBSET Cont
  /\ pc \in [Req -> {"idle"} \cup InRun \cup InAfterRun]
  /\ rdef \in [Req -> Def \cup {None}]
  /\ rcont \in [Req -> Cont \cup {None}]
  /\ cand \in [Req -> SUBSET Cont]
  /\ isNew \in [Req -> BOOLEAN]
  /\ err \in [Req -> Errors]
  /\ victim \in [Req -> Cont \cup {None}]
  /\ late \in SUBSET Req

\* A worker process that has just started: no pool yet.
Init ==
  /\ phase = "stopped"
  /\ pool = [t \in Runtime |-> {}]
  /\ sem = 0
  /\ cache = {} /\ index = {} /\ doomed = {} /\ late = {}
  /\ leader = [d \in Def |-> None]
  /\ st = [c \in Cont |-> "none"]
  /\ cdef = [c \in Cont |-> None]
  /\ conns = [c \in Cont |-> {}]
  /\ evict = [c \in Cont |-> "no"]
  /\ pc = [r \in Req |-> "idle"]
  /\ rdef = [r \in Req |-> None]
  /\ rcont = [r \in Req |-> None]
  /\ cand = [r \in Req |-> {}]
  /\ isNew = [r \in Req |-> FALSE]
  /\ err = [r \in Req |-> "none"]
  /\ victim = [r \in Req |-> None]

-----------------------------------------------------------------------------
(* Containers *)

Accepting(c) == st[c] = "running"

\* connLimit, which Configure sets
ConnLimit(d) == IF Async[d] = 0 THEN 1 ELSE Async[d]

\* Reserve refuses a connection to c, which was configured for d.
Full_OffByOne(c, d) == Cardinality(conns[c]) > ConnLimit(d)
Full(c, d) == Cardinality(conns[c]) >= ConnLimit(d)

\* ConnsNum() == 0
NoConns_OffByOne(c) == Cardinality(conns[c]) <= 1
NoConns_Negated(c) == conns[c] # {}
NoConns(c) == conns[c] = {}

\* Reserve calls Acquire with the container's mutex held: until it returns,
\* everything else that locks the container waits.
Locked(c) == \E r \in Req : pc[r] = "acquire" /\ rcont[r] = c

StoppedAccepting(c) == IF st[c] \in {"running", "fresh"} THEN "stopping" ELSE st[c]

\* Nothing in the program refers to c any more, so that its identity can
\* stand for a new container: c was stopped, or it was left behind (Abandoned).
Unused(c) ==
  /\ st[c] \in {"none", "stopping", "stopped"}
  /\ c \notin cache \cup doomed /\ evict[c] = "no"
  /\ \A t \in Runtime : c \notin pool[t]
  /\ \A r \in Req : c # rcont[r] /\ c # victim[r] /\ c \notin cand[r]

\* createFreshContainer, and the send to the pool's channel, which has room
\* for Concurrency containers.
CreateFresh(t) ==
  /\ Cardinality(pool[t]) < Concurrency
  /\ \E c \in Cont :
       /\ Unused(c)
       /\ st' = [st EXCEPT ![c] = "fresh"]
       /\ cdef' = [cdef EXCEPT ![c] = None]
       /\ conns' = [conns EXCEPT ![c] = {}]
       /\ pool' = [pool EXCEPT ![t] = @ \cup {c}]

PutBack(r) ==
  LET t == DefRuntime[rdef[r]] IN
  /\ Cardinality(pool[t]) < Concurrency
  /\ pool' = [pool EXCEPT ![t] = @ \cup {rcont[r]}]

\* cleanupContainer: Stop lets only the first caller through.
CleanUp(c) ==
  /\ st[c] = "stopped" \/ ~Locked(c)
  /\ st' = [st EXCEPT ![c] = "stopped"]

\* Take c out of the cache, which makes the caller run the eviction handler.
CacheDelete(c) ==
  /\ cache' = cache \ {c}
  /\ evict' = [evict EXCEPT ![c] = "handler"]

\* deleteContainer for a caller that does not look at the result.
DeleteContainer(c) ==
  IF c \in cache
  THEN CacheDelete(c) /\ UNCHANGED st
  ELSE st' = [st EXCEPT ![c] = StoppedAccepting(c)] /\ UNCHANGED <<cache, evict>>

Crash == phase' = "crashed"

-----------------------------------------------------------------------------
(* Run: getContainer and the run itself *)

Goto(r, label) == pc' = [pc EXCEPT ![r] = label]

Leave_NoWake(r, label) ==
  LET d == rdef[r] IN
  /\ leader' = [leader EXCEPT ![d] = IF @ = r THEN None ELSE @]
  /\ Goto(r, label)

\* getContainer returns: if the run was creating the container of an async
\* definition, the runs that wait for it look into the cache again.
Leave(r, label) ==
  LET d == rdef[r] IN
  IF leader[d] = r
  THEN /\ leader' = [leader EXCEPT ![d] = None]
       /\ pc' = [q \in Req |-> IF q = r THEN label
                               ELSE IF pc[q] = "wait" /\ rdef[q] = d THEN "woken"
                               ELSE pc[q]]
  ELSE Goto(r, label) /\ UNCHANGED leader

Fail(r, e) == err' = [err EXCEPT ![r] = e] /\ Leave(r, "after")

Lookup_ByIndex(r, d) ==
  /\ cand' = [cand EXCEPT ![r] = {c \in cache : DefIndex[cdef[c]] = DefIndex[d]}]
  /\ Goto(r, "try")

\* containerCache.Get returns a copy: containers that are cached later are not
\* in it, and those in it may be evicted.
Lookup(r, d) ==
  /\ cand' = [cand EXCEPT ![r] = {c \in cache : cdef[c] = d}]
  /\ Goto(r, "try")

\* Run: the pool is running and the sources are there.
Start(r, d) ==
  /\ phase = "serving" /\ pc[r] = "idle"
  /\ rdef' = [rdef EXCEPT ![r] = d]
  /\ Lookup(r, d)
  /\ UNCHANGED <<phase, pool, sem, cache, index, leader, doomed, contVars,
                 rcont, isNew, err, victim>>

LookupAgain(r) ==
  /\ pc[r] = "woken"
  /\ Lookup(r, rdef[r])
  /\ UNCHANGED <<phase, pool, sem, cache, index, leader, doomed, contVars,
                 rdef, rcont, isNew, err, victim>>

\* IsAcceptingConnections and Refresh, which is true if c is still cached.
\* Once false it stays false, so it does not matter when r looked.
GoodStanding(c) == Accepting(c) /\ c \in cache

TryCached(r) ==
  /\ pc[r] = "try"
  /\ \E c \in cand[r] :
       /\ GoodStanding(c)
       /\ cand' = [cand EXCEPT ![r] = @ \ {c}]
       /\ rcont' = [rcont EXCEPT ![r] = c]
  /\ Goto(r, "reserve")
  /\ UNCHANGED <<phase, pool, sem, cache, index, leader, doomed, contVars,
                 rdef, isNew, err, victim>>

\* No cached container is left to try: the first run of an async definition
\* goes to the pool, the others wait for it.
Miss(r) ==
  LET d == rdef[r] IN
  /\ pc[r] = "try" /\ \A c \in cand[r] : ~GoodStanding(c)
  /\ cand' = [cand EXCEPT ![r] = {}]
  /\ rcont' = [rcont EXCEPT ![r] = None]
  /\ IF Async[d] <= 1 THEN Goto(r, "take") /\ UNCHANGED leader
     ELSE IF leader[d] = None
          THEN leader' = [leader EXCEPT ![d] = r] /\ Goto(r, "take")
          ELSE Goto(r, "wait") /\ UNCHANGED leader
  /\ UNCHANGED <<phase, pool, sem, cache, index, doomed, contVars,
                 rdef, isNew, err, victim>>

\* ErrConnectionIDReserved: the connection was left to c by an earlier run.
Reserved(r, c) == r \in conns[c]

\* Container.Reserve up to the callback, which a first connection enters with
\* the container locked.  A reservation is late if c no longer accepts any.
Reserve(r, c, next) ==
  /\ conns' = [conns EXCEPT ![c] = @ \cup {r}]
  /\ late' = IF st[c] \in {"fresh", "running"} THEN late \ {r} ELSE late \cup {r}
  /\ Goto(r, IF conns[c] = {} THEN "acquire" ELSE next)

\* Receive from the pool, Configure and Reserve.
Take(r) ==
  LET d == rdef[r] IN
  /\ pc[r] = "take"
  /\ isNew' = [isNew EXCEPT ![r] = TRUE]
  /\ \E c \in pool[DefRuntime[d]] :
       /\ ~Locked(c)
       /\ pool' = [pool EXCEPT ![DefRuntime[d]] = @ \ {c}]
       /\ cdef' = [cdef EXCEPT ![c] = d]
       /\ rcont' = [rcont EXCEPT ![r] = c]
       /\ IF Full(c, d) \/ Reserved(r, c)
          THEN Fail(r, "other") /\ UNCHANGED <<conns, late>>
          ELSE Reserve(r, c, "setup") /\ UNCHANGED <<leader, err>>
  /\ UNCHANGED <<phase, sem, cache, index, doomed, st, evict, rdef, cand, victim>>

\* An error of Reserve, or of its callback: getContainer goes on to the next
\* cached container if this one stopped accepting meanwhile, and leaves its
\* connection behind; else it returns the error.
ReserveError(r, e) ==
  IF isNew[r] \/ Accepting(rcont[r])
  THEN Fail(r, e)
  ELSE Goto(r, "try") /\ UNCHANGED <<leader, err>>

ReserveCached(r) ==
  LET c == rcont[r] IN
  /\ pc[r] = "reserve" /\ ~Locked(c)
  /\ \/ /\ Full(c, cdef[c])
        /\ Goto(r, "try") /\ UNCHANGED <<conns, late, leader, err>>
     \/ /\ ~Full(c, cdef[c]) /\ Reserved(r, c)
        /\ ReserveError(r, "other") /\ UNCHANGED <<conns, late>>
     \/ /\ ~Full(c, cdef[c]) /\ ~Reserved(r, c)
        /\ Reserve(r, c, "conn") /\ UNCHANGED <<leader, err>>
  /\ UNCHANGED <<phase, pool, sem, cache, index, doomed, st, cdef, evict,
                 rdef, rcont, cand, isNew, victim>>

\* The semaphore has room for a run of d.
HasRoom_Unchecked(d) == sem <= Concurrency
HasRoom(d) == sem + Weight[d] <= Concurrency

\* Reserve's callback: semaphore.Acquire, and ContainerUpdate where the
\* resources of the container change.
Acquire(r) ==
  LET d == rdef[r] IN
  /\ pc[r] = "acquire"
  /\ \/ /\ HasRoom(d)
        /\ sem' = sem + Weight[d]
        /\ \/ Goto(r, IF isNew[r] THEN "setup" ELSE "conn") /\ UNCHANGED <<leader, err>>
           \/ /\ "update" \in Events
              /\ Async[d] > 1 \/ (isNew[r] /\ Weight[d] > 1)
              /\ ReserveError(r, "other")
     \/ "cancel" \in Events /\ ReserveError(r, "semaphore") /\ UNCHANGED sem
  /\ UNCHANGED <<phase, pool, cache, index, doomed, contVars,
                 rdef, rcont, cand, isNew, victim>>

\* Link, Mount and SendSetup.  A container that docker has stopped refuses
\* the connection.  (If the last step of SendSetup fails, the container is
\* running until afterRun stops it, but nobody else can reach it.)
SetUp(r) ==
  LET c == rcont[r] IN
  /\ pc[r] = "setup" /\ ~Locked(c)
  /\ \/ /\ st[c] # "stopped"
        /\ st' = [st EXCEPT ![c] = IF @ = "fresh" THEN "running" ELSE @]
        /\ Goto(r, "add") /\ UNCHANGED <<leader, err>>
     \/ "missing" \in Events /\ Fail(r, "missing") /\ UNCHANGED st
     \/ /\ "setup" \in Events \/ st[c] = "stopped"
        /\ Fail(r, "other") /\ UNCHANGED st
  /\ UNCHANGED <<phase, pool, sem, cache, index, doomed, cdef, conns, evict, late,
                 rdef, rcont, cand, isNew, victim>>

\* containerCache.Add, which evicts another container when the cache is full.
AddToCache(r) ==
  /\ pc[r] = "add"
  /\ IF Cardinality(cache) < Capacity
     THEN cache' = cache \cup {rcont[r]} /\ UNCHANGED <<evict, victim>>
     ELSE \E v \in cache :
            /\ cache' = (cache \ {v}) \cup {rcont[r]}
            /\ evict' = [evict EXCEPT ![v] = "handler"]
            /\ victim' = [victim EXCEPT ![r] = v]
  /\ Goto(r, "index")
  /\ UNCHANGED <<phase, pool, sem, index, leader, doomed, st, cdef, conns, late,
                 rdef, rcont, cand, isNew, err>>

\* The eviction handler that a call of r runs has returned.
HandlerDone(r) == victim[r] # None => evict[victim[r]] = "no"

AddToIndex(r) ==
  /\ pc[r] = "index" /\ HandlerDone(r)
  /\ index' = index \cup {rdef[r]}
  /\ victim' = [victim EXCEPT ![r] = None]
  /\ Leave(r, "run")
  /\ UNCHANGED <<phase, pool, sem, cache, doomed, contVars,
                 rdef, rcont, cand, isNew, err>>

\* Conn on a cached container: Stop has set the session to nil, and Open on a
\* nil session is a nil dereference that no one recovers from.
Conn(r) ==
  LET c == rcont[r] IN
  /\ pc[r] = "conn" /\ ~Locked(c)
  /\ IF st[c] = "stopped"
     THEN Crash /\ UNCHANGED pc
     ELSE Goto(r, "run") /\ UNCHANGED phase
  /\ UNCHANGED <<pool, sem, cache, index, leader, doomed, contVars,
                 rdef, rcont, cand, isNew, err, victim>>

\* The script answers or fails; it fails if its container is gone.
RunScript(r) ==
  /\ pc[r] = "run" /\ ~Locked(rcont[r])
  /\ \/ st[rcont[r]] # "stopped" /\ UNCHANGED err
     \/ /\ "run" \in Events \/ st[rcont[r]] = "stopped"
        /\ err' = [err EXCEPT ![r] = "other"]
  /\ Goto(r, "after")
  /\ UNCHANGED <<phase, pool, sem, cache, index, leader, doomed, contVars,
                 rdef, rcont, cand, isNew, victim>>

-----------------------------------------------------------------------------
(* afterRun, in a goroutine of its own *)

\* Who took a container from the pool adds a new one, whatever happened.
AfterRelease_OnlyIfOk(r) == IF isNew[r] /\ err[r] = "none" THEN "recreate" ELSE "finish"
AfterRelease(r) == IF isNew[r] THEN "recreate" ELSE "finish"

\* Container.Release up to its callback.
Disconnect_OnlyIfOk(r) ==
  conns' = [conns EXCEPT ![rcont[r]] = IF err[r] = "none" THEN @ \ {r} ELSE @]
Disconnect(r) == conns' = [conns EXCEPT ![rcont[r]] = @ \ {r}]

LastConn_BeforeDelete(r) == conns[rcont[r]] = {}
LastConn(r) == conns[rcont[r]] \ {r} = {}

\* A resource was missing: the volume is cleaned up and the container goes
\* back to the pool.
ReturnMissing(r) ==
  /\ pc[r] = "after" /\ err[r] = "missing"
  /\ \/ PutBack(r) /\ Goto(r, "finish") /\ UNCHANGED err
     \/ /\ "volume" \in Events
        /\ err' = [err EXCEPT ![r] = "other"] /\ UNCHANGED <<pool, pc>>
  /\ UNCHANGED <<phase, sem, cache, index, leader, doomed, contVars,
                 rdef, rcont, cand, isNew, victim>>

\* The semaphore was not acquired for a new container.
ReturnUnacquired(r) ==
  /\ pc[r] = "after" /\ err[r] = "semaphore" /\ isNew[r] /\ ~Locked(rcont[r])
  /\ Disconnect(r)
  /\ PutBack(r) /\ Goto(r, "finish")
  /\ UNCHANGED <<phase, sem, cache, index, leader, doomed, st, cdef, evict, late,
                 rdef, rcont, cand, isNew, err, victim>>

\* releaseContainer: the last connection gives the semaphore units back (the
\* semaphore panics if they were not acquired) and freezes an async container.
Release(r) ==
  /\ pc[r] = "after" /\ ~Locked(rcont[r])
  /\ err[r] # "missing" /\ ~(err[r] = "semaphore" /\ isNew[r])
  /\ Disconnect(r)
  /\ IF LastConn(r) /\ sem < Weight[rdef[r]]
     THEN Crash /\ UNCHANGED <<sem, err, pc>>
     ELSE /\ sem' = IF LastConn(r) THEN sem - Weight[rdef[r]] ELSE sem
          /\ \/ err' = err
             \/ /\ "update" \in Events /\ LastConn(r) /\ Async[rdef[r]] > 1
                /\ err' = [err EXCEPT ![r] = "other"]
          /\ Goto(r, IF err'[r] # "none" THEN "delete" ELSE AfterRelease(r))
          /\ UNCHANGED phase
  /\ UNCHANGED <<pool, cache, index, leader, doomed, st, cdef, evict, late,
                 rdef, rcont, cand, isNew, victim>>

\* deleteContainer: Delete runs the eviction handler if c was cached, then
\* StopAcceptingConnections.
Delete(r) ==
  LET c == rcont[r] IN
  /\ pc[r] = "delete"
  /\ IF c \in cache
     THEN CacheDelete(c) /\ victim' = [victim EXCEPT ![r] = c]
     ELSE UNCHANGED <<cache, evict, victim>>
  /\ Goto(r, "evicted")
  /\ UNCHANGED <<phase, pool, sem, index, leader, doomed, st, cdef, conns, late,
                 rdef, rcont, cand, isNew, err>>

StopAccepting(r) ==
  /\ pc[r] = "evicted" /\ HandlerDone(r)
  /\ st' = [st EXCEPT ![rcont[r]] = StoppedAccepting(rcont[r])]
  /\ victim' = [victim EXCEPT ![r] = None]
  /\ Goto(r, AfterRelease(r))
  /\ UNCHANGED <<phase, pool, sem, cache, index, leader, doomed, cdef, conns,
                 evict, late, rdef, rcont, cand, isNew, err>>

\* recreateContainer: failed attempts are cleaned up and retried, and if all
\* fail the worker panics.
Recreate(r) ==
  /\ pc[r] = "recreate"
  /\ \/ /\ CreateFresh(DefRuntime[rdef[r]])
        /\ Goto(r, "finish") /\ UNCHANGED phase
     \/ "create" \in Events /\ Crash /\ UNCHANGED <<pool, st, cdef, conns, pc>>
  /\ UNCHANGED <<sem, cache, index, leader, doomed, evict, late,
                 rdef, rcont, cand, isNew, err, victim>>

\* The goroutine is gone (taskWaitGroup.Done).
Done(r) ==
  /\ Goto(r, "idle")
  /\ rdef' = [rdef EXCEPT ![r] = None]
  /\ rcont' = [rcont EXCEPT ![r] = None]
  /\ cand' = [cand EXCEPT ![r] = {}]
  /\ isNew' = [isNew EXCEPT ![r] = FALSE]
  /\ err' = [err EXCEPT ![r] = "none"]
  /\ victim' = [victim EXCEPT ![r] = None]
  /\ late' = late \ {r}
  /\ UNCHANGED <<phase, cache, evict>>

\* CheckFreeMemory: evict one container after another until it is satisfied.
CheckMemory(r) ==
  \/ Done(r)
  \/ /\ "memory" \in Events
     /\ IF cache = {}
        THEN Crash /\ UNCHANGED <<cache, evict, reqVars, late>>
        ELSE /\ \E c \in cache : CacheDelete(c) /\ victim' = [victim EXCEPT ![r] = c]
             /\ Goto(r, "memory")
             /\ UNCHANGED <<phase, rdef, rcont, cand, isNew, err, late>>

\* A container that does not accept connections and has none is cleaned up.
Disposable(c) == ~Accepting(c) /\ NoConns(c)

Finish(r) ==
  /\ pc[r] = "finish" /\ ~Locked(rcont[r])
  /\ IF Disposable(rcont[r])
     THEN /\ Goto(r, "cleanup")
          /\ UNCHANGED <<phase, cache, evict, late, rdef, rcont, cand, isNew, err, victim>>
     ELSE CheckMemory(r)
  /\ UNCHANGED <<pool, sem, index, leader, doomed, st, cdef, conns>>

CleanUpAfterRun(r) ==
  /\ pc[r] = "cleanup" /\ CleanUp(rcont[r]) /\ CheckMemory(r)
  /\ UNCHANGED <<pool, sem, index, leader, doomed, cdef, conns>>

CheckMemoryAgain(r) ==
  /\ pc[r] = "memory" /\ HandlerDone(r) /\ CheckMemory(r)
  /\ UNCHANGED <<pool, sem, index, leader, doomed, st, cdef, conns>>

-----------------------------------------------------------------------------
(* Evictions *)

\* onEvictedContainerHandler, in the goroutine that removed c from the cache.
\* Last, it looks if another container is cached under the same definition.
CountCached(c) == IF \E o \in cache : cdef[o] = cdef[c] THEN "no" ELSE "drop"

EvictStopAccepting(c) ==
  /\ evict[c] = "handler"
  /\ st' = [st EXCEPT ![c] = IF Accepting(c) THEN "stopping" ELSE @]
  /\ evict' = [evict EXCEPT ![c] = "count"]
  /\ UNCHANGED <<phase, pool, sem, cache, index, leader, doomed, cdef, conns, late, reqVars>>

\* ConnsNum, for which the handler needs the container's mutex.
EvictCountConns(c) ==
  /\ evict[c] = "count" /\ ~Locked(c)
  /\ evict' = [evict EXCEPT ![c] = IF NoConns(c) THEN "cleanup" ELSE CountCached(c)]
  /\ UNCHANGED <<phase, pool, sem, cache, index, leader, doomed, st, cdef, conns, late, reqVars>>

EvictCleanUp(c) ==
  /\ evict[c] = "cleanup" /\ CleanUp(c)
  /\ evict' = [evict EXCEPT ![c] = CountCached(c)]
  /\ UNCHANGED <<phase, pool, sem, cache, index, leader, doomed, cdef, conns, late, reqVars>>

EvictDropIndex(c) ==
  /\ evict[c] = "drop"
  /\ index' = index \ {cdef[c]}
  /\ evict' = [evict EXCEPT ![c] = "no"]
  /\ UNCHANGED <<phase, pool, sem, cache, leader, doomed, st, cdef, conns, late, reqVars>>

\* The cache's janitor removes containers that are older than ContainerTTL.
Expire(c) ==
  /\ "ttl" \in Events /\ c \in cache
  /\ CacheDelete(c)
  /\ UNCHANGED <<phase, pool, sem, index, leader, doomed, st, cdef, conns, late, reqVars>>

\* The goroutines that read the streams of a container that was set up.
StreamError(c) ==
  /\ "stream" \in Events /\ Accepting(c)
  /\ DeleteContainer(c)
  /\ UNCHANGED <<phase, pool, sem, index, leader, doomed, cdef, conns, late, reqVars>>

\* DeleteContainersByID: the whole index goes, then its cached containers are
\* deleted, all of them or the one with the given ID.
DeleteIndex(i) ==
  LET hashes == {d \in index : DefIndex[d] = i}
      found  == {c \in cache : cdef[c] \in hashes} IN
  /\ phase = "serving" /\ hashes # {}
  /\ index' = index \ hashes
  /\ \/ "delete" \in Events /\ doomed' = doomed \cup found
     \/ /\ "deleteID" \in Events
        /\ \E c \in Cont : doomed' = doomed \cup (found \cap {c})
  /\ UNCHANGED <<phase, pool, sem, cache, leader, contVars, reqVars>>

DeleteDoomed(c) ==
  /\ c \in doomed
  /\ doomed' = doomed \ {c}
  /\ DeleteContainer(c)
  /\ UNCHANGED <<phase, pool, sem, index, leader, cdef, conns, late, reqVars>>

-----------------------------------------------------------------------------
(* The pool's life *)

\* CreatePool makes a new semaphore and creates the containers, in any order.
\* An error makes the worker panic.
FillPool(t) ==
  /\ phase = "stopped" /\ \A c \in Cont : evict[c] = "no"
  /\ \/ CreateFresh(t) /\ UNCHANGED phase
     \/ /\ "create" \in Events /\ Cardinality(pool[t]) < Concurrency
        /\ Crash /\ UNCHANGED <<pool, st, cdef, conns>>
  /\ UNCHANGED <<sem, cache, index, leader, doomed, evict, late, reqVars>>

CreatePool ==
  /\ phase = "stopped"
  /\ \A t \in Runtime : Cardinality(pool[t]) = Concurrency
  /\ phase' = "serving"
  /\ sem' = 0
  /\ UNCHANGED <<pool, cache, index, leader, doomed, contVars, reqVars>>

\* StopPool is called once GracefulStop has waited for all calls to return:
\* only afterRun goroutines are left.
StopPool ==
  /\ "stop" \in Events /\ phase = "serving" /\ doomed = {}
  /\ \A r \in Req : pc[r] \in {"idle"} \cup InAfterRun
  /\ phase' = "stopping"
  /\ UNCHANGED <<pool, sem, cache, index, leader, doomed, contVars, reqVars>>

\* containerCache.Flush
Flush_Silent == cache' = {} /\ UNCHANGED evict
Flush ==
  /\ cache' = {}
  /\ evict' = [c \in Cont |-> IF c \in cache THEN "handler" ELSE evict[c]]

\* StopPool after taskWaitGroup.Wait: clean up the pool, flush the cache.
DrainPool ==
  /\ phase = "stopping" /\ \A r \in Req : pc[r] = "idle"
  /\ phase' = "stopped"
  /\ st' = [c \in Cont |-> IF \E t \in Runtime : c \in pool[t] THEN "stopped" ELSE st[c]]
  /\ pool' = [t \in Runtime |-> {}]
  /\ Flush /\ index' = {}
  /\ UNCHANGED <<sem, leader, doomed, cdef, conns, late, reqVars>>

\* A panic ends the process.  The next one stops the containers it finds
\* (CleanupUnused) and starts from nothing.
Restart ==
  /\ phase = "crashed" /\ phase' = "stopped"
  /\ pool' = [t \in Runtime |-> {}]
  /\ sem' = 0
  /\ cache' = {} /\ index' = {} /\ doomed' = {} /\ late' = {}
  /\ leader' = [d \in Def |-> None]
  /\ st' = [c \in Cont |-> "none"]
  /\ cdef' = [c \in Cont |-> None]
  /\ conns' = [c \in Cont |-> {}]
  /\ evict' = [c \in Cont |-> "no"]
  /\ pc' = [r \in Req |-> "idle"]
  /\ rdef' = [r \in Req |-> None]
  /\ rcont' = [r \in Req |-> None]
  /\ cand' = [r \in Req |-> {}]
  /\ isNew' = [r \in Req |-> FALSE]
  /\ err' = [r \in Req |-> "none"]
  /\ victim' = [r \in Req |-> None]

-----------------------------------------------------------------------------

RunStep(r) ==
  \/ LookupAgain(r) \/ TryCached(r) \/ Miss(r) \/ Take(r) \/ ReserveCached(r) \/ Acquire(r)
  \/ SetUp(r) \/ AddToCache(r) \/ AddToIndex(r) \/ Conn(r) \/ RunScript(r)

AfterRunStep(r) ==
  \/ ReturnMissing(r) \/ ReturnUnacquired(r) \/ Release(r) \/ Delete(r)
  \/ StopAccepting(r) \/ Recreate(r) \/ Finish(r) \/ CleanUpAfterRun(r)
  \/ CheckMemoryAgain(r)

EvictStep(c) ==
  EvictStopAccepting(c) \/ EvictCountConns(c) \/ EvictCleanUp(c) \/ EvictDropIndex(c)

PoolStep == (\E t \in Runtime : FillPool(t)) \/ CreatePool \/ DrainPool

Next ==
  \/ /\ phase # "crashed"
     /\ \/ \E r \in Req : (\E d \in Def : Start(r, d)) \/ RunStep(r) \/ AfterRunStep(r)
        \/ \E c \in Cont : EvictStep(c) \/ Expire(c) \/ StreamError(c) \/ DeleteDoomed(c)
        \/ \E i \in Index : DeleteIndex(i)
        \/ PoolStep \/ StopPool
  \/ Restart

Spec == Init /\ [][Next]_vars

\* Goroutines run; channels, mutexes and the weighted semaphore serve their
\* waiters in order, so that no one who can go on again and again is passed
\* over for ever.
Fairness ==
  /\ \A r \in Req : SF_vars(RunStep(r)) /\ SF_vars(AfterRunStep(r))
  /\ \A c \in Cont : WF_vars(EvictStep(c)) /\ WF_vars(Expire(c)) /\ WF_vars(DeleteDoomed(c))
  /\ WF_vars(PoolStep) /\ WF_vars(Restart)

FairSpec == Spec /\ Fairness

-----------------------------------------------------------------------------
(* Properties *)

\* A run owes its runtime a container from when it takes one from the pool
\* until it has put it back or created another.
Owes(r, t) ==
  /\ isNew[r] /\ DefRuntime[rdef[r]] = t
  /\ pc[r] \in InRun \cup {"after", "delete", "evicted", "recreate"}

\* However runs, failures and evictions interleave, no pool gains or loses a
\* container: what is not in the channel is owed by a run.  (The sends to the
\* channel, which has room for Concurrency containers, never block.)
PoolConserved ==
  phase \in {"serving", "stopping"} =>
    \A t \in Runtime :
      Cardinality(pool[t]) + Cardinality({r \in Req : Owes(r, t)}) = Concurrency

\* The runs that work with a container between reserving and releasing it.
Users(c) == {r \in Req : rcont[r] = c /\ pc[r] \in {"setup", "add", "index", "conn", "run"}}

\* A container that runs a script was set up for the definition of that run:
\* no one runs in the container of another definition.
Isolated == \A c \in Cont : \A r \in Users(c) : cdef[c] = rdef[r]

\* A container that is not async serves one run at a time, an async one at
\* most Async runs.
ConnLimited ==
  \A c \in Cont : Cardinality(Users(c)) > 1 => Cardinality(Users(c)) <= Async[cdef[c]]

\* A run that waits for another one to create its container waits for one
\* that is about to: no wake-up is lost.
WaitersHaveCreator ==
  \A r \in Req : pc[r] = "wait" =>
    \E q \in Req : /\ leader[rdef[r]] = q /\ rdef[q] = rdef[r]
                   /\ pc[q] \in {"take", "acquire", "setup", "add", "index"}

\* A connection that was reserved before its container stopped accepting
\* keeps it alive: whoever cleans up saw it.
KeptAlive == \A c \in Cont : st[c] = "stopped" => conns[c] \subseteq late

\* The containers with a connection that has been through the semaphore, and
\* the units they hold.
Holding(c) == conns[c] # {} /\ ~Locked(c)
Units == {u \in Cont \X (1..Concurrency) : Holding(u[1]) /\ u[2] <= Weight[cdef[u[1]]]}

\* The semaphore's count is the weight of the containers with connections.
SemaphoreAccounted ==
  phase \in {"serving", "stopping"} => sem = Cardinality(Units)

\* When nothing runs, no semaphore unit is taken and no connection reserved.
\* Missing resources and cancelled waits, after which the container is to be
\* reused (runner.go:461, 468), break this.
QuietIsFree ==
  phase = "serving" /\ (\A r \in Req : pc[r] = "idle") =>
    sem = 0 /\ \A c \in Cont : conns[c] = {}

\* StopPool is to "cleanup all containers" (runner.go:645): it leaves none
\* running, except those that an eviction handler of another goroutine is about
\* to stop.  Without cancelled waits it does; a run that gives up a container it
\* waited for leaves it behind (ReserveError).
StopPoolStops ==
  phase = "stopped" =>
    \A c \in Cont : \/ st[c] \in {"none", "stopped"}
                    \/ evict[c] # "no"
                    \/ \E t \in Runtime : c \in pool[t]

\* Every run comes to its end, after run and all.
RunsEnd == \A r \in Req : pc[r] # "idle" ~> pc[r] = "idle"

\* A connection of c belongs to a run that does not work with c any more.
Abandoned(c) ==
  \E r \in conns[c] : rcont[r] # c \/ pc[r] \in {"idle", "try", "wait", "woken", "take"}

\* A container that does not accept connections any more is stopped, whoever of
\* its users and evictors comes last, unless a run has left its connection behind.
Reclaimed ==
  \A c \in Cont : st[c] = "stopping" ~> st[c] \in {"none", "stopped"} \/ Abandoned(c)

=============================================================================
