---------------------------- MODULE RunnerProofs ----------------------------
(***************************************************************************)
(* What holds of the runner for every number of runs and containers, and   *)
(* whatever fails: the pools, who waits for whom, and who works with which *)
(* container.                                                              *)
(***************************************************************************)
EXTENDS Runner, FiniteSetTheorems, TLAPS

\* Where a run is in possession of a container.
WithContainer == {"reserve", "acquire", "setup", "add", "index", "conn", "run"} \cup InAfterRun

\* A run that is under way has a definition, and a container from when it has
\* chosen one.
Placed ==
  \A r \in Req : /\ pc[r] # "idle" => rdef[r] \in Def
                 /\ pc[r] \in WithContainer => rcont[r] \in Cont

TypeInv == TypeOK /\ Placed

LEMMA TypeInit == Init => TypeInv
  BY RunnerAssumption
  DEF Init, TypeInv, TypeOK, Placed, WithContainer, InAfterRun, InRun, Phases, States, Evictor,
      Errors

\* Leave, Goto, Fail and Lookup keep the types of what they change.
LEMMA LeaveType ==
  ASSUME TypeInv, NEW r \in Req, pc[r] # "idle",
         NEW label \in InRun \cup InAfterRun, Leave(r, label)
  PROVE  /\ leader' \in [Def -> Req \cup {None}]
         /\ pc' \in [Req -> {"idle"} \cup InRun \cup InAfterRun]
         /\ pc'[r] = label
         /\ \A q \in Req : q # r => pc'[q] = pc[q] \/ (pc[q] = "wait" /\ pc'[q] = "woken")
  BY DEF TypeInv, TypeOK, Placed, Leave, Goto, InRun, InAfterRun

\* createFreshContainer and Reserve keep the types of the containers' state.
LEMMA CreateFreshType ==
  ASSUME TypeInv, NEW t \in Runtime, CreateFresh(t)
  PROVE  /\ pool' \in [Runtime -> SUBSET Cont]
         /\ st' \in [Cont -> States]
         /\ cdef' \in [Cont -> Def \cup {None}]
         /\ conns' \in [Cont -> SUBSET Req]
  BY DEF TypeInv, TypeOK, CreateFresh, States

LEMMA ReserveType ==
  ASSUME TypeInv, NEW r \in Req, NEW c \in Cont, NEW next \in {"setup", "conn"},
         Reserve(r, c, next)
  PROVE  /\ conns' \in [Cont -> SUBSET Req]
         /\ late' \in SUBSET Req
         /\ pc' \in [Req -> {"idle"} \cup InRun \cup InAfterRun]
         /\ pc' = [pc EXCEPT ![r] = pc'[r]]
         /\ pc'[r] \in WithContainer
<1>1. conns' \in [Cont -> SUBSET Req] /\ late' \in SUBSET Req
  BY DEF TypeInv, TypeOK, Reserve
<1>2. PICK label \in {"acquire", next} : pc' = [pc EXCEPT ![r] = label]
  BY DEF Reserve, Goto
<1> QED
  BY <1>1, <1>2 DEF TypeInv, TypeOK, InRun, WithContainer

\* The end of afterRun keeps the types, whether the run is done or goes on to
\* evict a container.
LEMMA CheckMemoryType ==
  ASSUME TypeInv, NEW r \in Req, pc[r] \in InAfterRun, CheckMemory(r),
         UNCHANGED <<pool, sem, index, leader, doomed, cdef, conns>>,
         st' \in [Cont -> States]
  PROVE  TypeInv'
<1> USE DEF TypeInv, TypeOK, Placed, WithContainer, InRun, InAfterRun, Phases, Evictor,
           Errors, reqVars
<1>1. CASE Done(r)
  BY <1>1 DEF Done, Goto
<1>2. CASE cache = {} /\ Crash /\ UNCHANGED <<cache, evict, reqVars, late>>
  BY <1>2 DEF Crash
<1>3. ASSUME NEW c \in cache, CacheDelete(c), victim' = [victim EXCEPT ![r] = c],
             Goto(r, "memory"), UNCHANGED <<phase, rdef, rcont, cand, isNew, err, late>>
      PROVE  TypeInv'
  BY <1>3 DEF CacheDelete, Goto
<1> QED
  BY <1>1, <1>2, <1>3 DEF CheckMemory

LEMMA TypeStep == TypeInv /\ [Next]_vars => TypeInv'
<1> SUFFICES ASSUME TypeInv, [Next]_vars PROVE TypeInv'
  OBVIOUS
<1> USE RunnerAssumption DEF TypeInv, TypeOK, Placed, WithContainer, InRun, InAfterRun, Phases, States, Evictor, Errors, reqVars, contVars
<1>1. ASSUME NEW r \in Req, NEW d \in Def, Start(r, d) PROVE TypeInv'
  BY <1>1 DEF Start, Lookup, Goto
<1>2. ASSUME NEW r \in Req, LookupAgain(r) PROVE TypeInv'
  BY <1>2 DEF LookupAgain, Lookup, Goto
<1>3. ASSUME NEW r \in Req, TryCached(r) PROVE TypeInv'
  BY <1>3 DEF TryCached, Goto
<1>4. ASSUME NEW r \in Req, Miss(r) PROVE TypeInv'
  <2>1. PICK label \in {"take", "wait"} : pc' = [pc EXCEPT ![r] = label]
    BY <1>4 DEF Miss, Goto
  <2>2. leader' \in [Def -> Req \cup {None}]
    BY <1>4 DEF Miss
  <2>3. /\ pc[r] = "try" /\ cand' = [cand EXCEPT ![r] = {}] /\ rcont' = [rcont EXCEPT ![r] = None]
        /\ UNCHANGED <<phase, pool, sem, cache, index, doomed, contVars, rdef, isNew, err, victim>>
    BY <1>4 DEF Miss
  <2>4. TypeOK'
    BY <2>1, <2>2, <2>3
  <2>5. Placed'
    BY <2>1, <2>3
  <2> QED
    BY <2>4, <2>5
<1>5. ASSUME NEW r \in Req, Take(r) PROVE TypeInv'
  <2> DEFINE d == rdef[r]
  <2>1. d \in Def /\ DefRuntime[d] \in Runtime
    BY <1>5 DEF Take
  <2>2. PICK c \in pool[DefRuntime[d]] :
          /\ pool' = [pool EXCEPT ![DefRuntime[d]] = @ \ {c}]
          /\ cdef' = [cdef EXCEPT ![c] = d]
          /\ rcont' = [rcont EXCEPT ![r] = c]
          /\ IF Full(c, d) \/ Reserved(r, c)
             THEN Fail(r, "other") /\ UNCHANGED <<conns, late>>
             ELSE Reserve(r, c, "setup") /\ UNCHANGED <<leader, err>>
    BY <1>5 DEF Take
  <2>3. c \in Cont
    BY <2>1, <2>2
  <2>4. /\ isNew' = [isNew EXCEPT ![r] = TRUE]
        /\ UNCHANGED <<phase, sem, cache, index, doomed, st, evict, rdef, cand, victim>>
    BY <1>5 DEF Take
  <2>5. CASE Full(c, d) \/ Reserved(r, c)
    <3>1. Fail(r, "other") /\ UNCHANGED <<conns, late>>
      BY <2>2, <2>5
    <3>2. err' = [err EXCEPT ![r] = "other"] /\ Leave(r, "after")
      BY <3>1 DEF Fail
    <3>3. pc[r] = "take"
      BY <1>5 DEF Take
    <3>4. /\ leader' \in [Def -> Req \cup {None}]
          /\ pc' \in [Req -> {"idle"} \cup InRun \cup InAfterRun]
          /\ pc'[r] = "after"
          /\ \A q \in Req : q # r => pc'[q] = pc[q] \/ (pc[q] = "wait" /\ pc'[q] = "woken")
      BY <3>2, <3>3, LeaveType
    <3>5. Placed'
      BY <2>1, <2>2, <2>3, <2>4, <3>4
    <3> QED
      BY <2>1, <2>2, <2>3, <2>4, <3>1, <3>2, <3>4, <3>5
  <2>6. CASE ~(Full(c, d) \/ Reserved(r, c))
    BY <2>1, <2>2, <2>3, <2>4, <2>6, ReserveType
  <2> QED
    BY <2>5, <2>6
<1>6. ASSUME NEW r \in Req, ReserveCached(r) PROVE TypeInv'
  <2>1. rcont[r] \in Cont
    BY <1>6 DEF ReserveCached
  <2>2. CASE Goto(r, "try") /\ UNCHANGED <<conns, late, leader, err>>
    BY <1>6, <2>2 DEF ReserveCached, Goto
  <2>3. CASE Reserve(r, rcont[r], "conn") /\ UNCHANGED <<leader, err>>
    BY <1>6, <2>1, <2>3, ReserveType DEF ReserveCached
  <2>4. CASE Fail(r, "other") /\ UNCHANGED <<conns, late>>
    <3>1. pc[r] = "reserve" /\ Leave(r, "after") /\ err' = [err EXCEPT ![r] = "other"]
      BY <1>6, <2>4 DEF ReserveCached, Fail
    <3>2. /\ leader' \in [Def -> Req \cup {None}]
          /\ pc' \in [Req -> {"idle"} \cup InRun \cup InAfterRun]
          /\ pc'[r] = "after"
          /\ \A q \in Req : q # r => pc'[q] = pc[q] \/ (pc[q] = "wait" /\ pc'[q] = "woken")
      BY <3>1, LeaveType
    <3>3. /\ UNCHANGED <<phase, pool, sem, cache, index, doomed, st, cdef, conns, evict, late>>
          /\ UNCHANGED <<rdef, rcont, cand, isNew, victim>>
      BY <1>6, <2>4 DEF ReserveCached
    <3>4. Placed'
      BY <3>1, <3>2, <3>3
    <3> QED
      BY <3>1, <3>2, <3>3, <3>4
  <2> QED
    BY <1>6, <2>2, <2>3, <2>4 DEF ReserveCached, ReserveError
<1>7. ASSUME NEW r \in Req, Acquire(r) PROVE TypeInv'
  <2>1. rdef[r] \in Def /\ Weight[rdef[r]] \in Nat
    BY <1>7 DEF Acquire
  <2>2. sem' \in 0..Concurrency
    BY <1>7, <2>1 DEF Acquire, HasRoom
  <2>3. ASSUME NEW e \in Errors, ReserveError(r, e)
        PROVE  /\ leader' \in [Def -> Req \cup {None}] /\ err' \in [Req -> Errors]
               /\ pc' \in [Req -> {"idle"} \cup InRun \cup InAfterRun]
               /\ Placed'
    <3>1. CASE Fail(r, e)
      BY <1>7, <3>1, LeaveType DEF Fail, Acquire
    <3>2. CASE Goto(r, "try") /\ UNCHANGED <<leader, err>>
      BY <1>7, <3>2 DEF Goto, Acquire
    <3> QED
      BY <2>3, <3>1, <3>2 DEF ReserveError
  <2>4. CASE Goto(r, IF isNew[r] THEN "setup" ELSE "conn") /\ UNCHANGED <<leader, err>>
    BY <1>7, <2>2, <2>4 DEF Acquire, Goto
  <2>5. CASE ReserveError(r, "other") \/ ReserveError(r, "semaphore")
    BY <1>7, <2>2, <2>3, <2>5 DEF Acquire
  <2> QED
    BY <1>7, <2>4, <2>5 DEF Acquire
<1>8. ASSUME NEW r \in Req, SetUp(r) PROVE TypeInv'
  <2>1. CASE Fail(r, "missing") \/ Fail(r, "other")
    <3>1. /\ \E e \in Errors : err' = [err EXCEPT ![r] = e]
          /\ Leave(r, "after")
          /\ pc[r] = "setup"
      BY <1>8, <2>1 DEF SetUp, Fail
    <3>2. /\ leader' \in [Def -> Req \cup {None}]
          /\ pc' \in [Req -> {"idle"} \cup InRun \cup InAfterRun]
          /\ pc'[r] = "after"
          /\ \A q \in Req : q # r => pc'[q] = pc[q] \/ (pc[q] = "wait" /\ pc'[q] = "woken")
      BY <3>1, LeaveType
    <3>3. st' \in [Cont -> States]
      BY <1>8 DEF SetUp
    <3>4. /\ UNCHANGED <<phase, pool, sem, cache, index, doomed, cdef, conns, evict, late>>
          /\ UNCHANGED <<rdef, rcont, cand, isNew, victim>>
      BY <1>8 DEF SetUp
    <3>5. err' \in [Req -> Errors]
      BY <3>1
    <3>7. TypeOK'
      BY <3>2, <3>3, <3>4, <3>5
    <3>6. Placed'
      BY <3>1, <3>2, <3>4
    <3> QED
      BY <3>6, <3>7
  <2>2. CASE Goto(r, "add") /\ UNCHANGED <<leader, err>>
    BY <1>8, <2>2 DEF SetUp, Goto
  <2> QED
    BY <1>8, <2>1, <2>2 DEF SetUp
<1>9. ASSUME NEW r \in Req, AddToCache(r) PROVE TypeInv'
  <2>1. TypeOK'
    <3>1. rcont[r] \in Cont
      BY <1>9 DEF AddToCache
    <3>2. /\ cache' \in SUBSET Cont
          /\ \E v \in Cont : evict' \in {evict, [evict EXCEPT ![v] = "handler"]}
          /\ \E v \in Cont : victim' \in {victim, [victim EXCEPT ![r] = v]}
      BY <1>9, <3>1 DEF AddToCache
    <3> QED
      BY <1>9, <3>2 DEF AddToCache, Goto
  <2>2. Placed'
    BY <1>9 DEF AddToCache, Goto
  <2> QED
    BY <2>1, <2>2
<1>10. ASSUME NEW r \in Req, AddToIndex(r) PROVE TypeInv'
  <2>1. TypeOK'
    BY <1>10, LeaveType DEF AddToIndex
  <2>2. Placed'
    BY <1>10, LeaveType DEF AddToIndex
  <2> QED
    BY <2>1, <2>2
<1>11. ASSUME NEW r \in Req, Conn(r) PROVE TypeInv'
  BY <1>11 DEF Conn, Crash, Goto
<1>12. ASSUME NEW r \in Req, RunScript(r) PROVE TypeInv'
  BY <1>12 DEF RunScript, Goto
<1>13. ASSUME NEW r \in Req, ReturnMissing(r) PROVE TypeInv'
  BY <1>13 DEF ReturnMissing, PutBack, Goto
<1>14. ASSUME NEW r \in Req, ReturnUnacquired(r) PROVE TypeInv'
  BY <1>14 DEF ReturnUnacquired, PutBack, Disconnect, Goto
<1>15. ASSUME NEW r \in Req, Release(r) PROVE TypeInv'
  <2>1. /\ pc[r] = "after" /\ rcont[r] \in Cont /\ rdef[r] \in Def
        /\ conns' = [conns EXCEPT ![rcont[r]] = @ \ {r}]
        /\ UNCHANGED <<pool, cache, index, leader, doomed, st, cdef, evict, late,
                       rdef, rcont, cand, isNew, victim>>
    BY <1>15 DEF Release, Disconnect
  <2>2. CASE Crash /\ UNCHANGED <<sem, err, pc>>
    BY <2>1, <2>2 DEF Crash
  <2>3. CASE /\ ~(LastConn(r) /\ sem < Weight[rdef[r]])
             /\ sem' = IF LastConn(r) THEN sem - Weight[rdef[r]] ELSE sem
             /\ err' = err \/ err' = [err EXCEPT ![r] = "other"]
             /\ Goto(r, IF err'[r] # "none" THEN "delete" ELSE AfterRelease(r))
             /\ UNCHANGED phase
    <3>1. sem' \in 0..Concurrency
      BY <2>1, <2>3
    <3>2. PICK label \in {"delete", "recreate", "finish"} : pc' = [pc EXCEPT ![r] = label]
      BY <2>3 DEF AfterRelease, Goto
    <3> QED
      BY <2>1, <2>3, <3>1, <3>2
  <2> QED
    BY <1>15, <2>2, <2>3 DEF Release
<1>16. ASSUME NEW r \in Req, Delete(r) PROVE TypeInv'
  <2>1. TypeOK'
    <3>1. rcont[r] \in Cont
      BY <1>16 DEF Delete
    <3>2. CASE rcont[r] \in cache
      BY <1>16, <3>1, <3>2 DEF Delete, CacheDelete, Goto
    <3>3. CASE rcont[r] \notin cache
      BY <1>16, <3>3 DEF Delete, Goto
    <3> QED
      BY <3>2, <3>3
  <2>2. Placed'
    BY <1>16 DEF Delete, CacheDelete, Goto
  <2> QED
    BY <2>1, <2>2
<1>17. ASSUME NEW r \in Req, StopAccepting(r) PROVE TypeInv'
  BY <1>17 DEF StopAccepting, StoppedAccepting, AfterRelease, Goto
<1>18. ASSUME NEW r \in Req, Recreate(r) PROVE TypeInv'
  <2>1. DefRuntime[rdef[r]] \in Runtime
    BY <1>18 DEF Recreate
  <2>2. CASE CreateFresh(DefRuntime[rdef[r]]) /\ Goto(r, "finish") /\ UNCHANGED phase
    BY <1>18, <2>1, <2>2, CreateFreshType DEF Recreate, Goto
  <2>3. CASE Crash /\ UNCHANGED <<pool, st, cdef, conns, pc>>
    BY <1>18, <2>3 DEF Recreate, Crash
  <2> QED
    BY <1>18, <2>2, <2>3 DEF Recreate
<1>19. ASSUME NEW r \in Req, Finish(r) PROVE TypeInv'
  <2>1. CASE Disposable(rcont[r])
    BY <1>19, <2>1 DEF Finish, Goto
  <2>2. CASE ~Disposable(rcont[r])
    BY <1>19, <2>2, CheckMemoryType DEF Finish
  <2> QED
    BY <2>1, <2>2
<1>20. ASSUME NEW r \in Req, CleanUpAfterRun(r) PROVE TypeInv'
  BY <1>20, CheckMemoryType DEF CleanUpAfterRun, CleanUp
<1>21. ASSUME NEW r \in Req, CheckMemoryAgain(r) PROVE TypeInv'
  BY <1>21, CheckMemoryType DEF CheckMemoryAgain
<1>22. ASSUME NEW c \in Cont, EvictStopAccepting(c) PROVE TypeInv'
  BY <1>22 DEF EvictStopAccepting
<1>35. ASSUME NEW c \in Cont, EvictCountConns(c) PROVE TypeInv'
  BY <1>35 DEF EvictCountConns, CountCached
<1>23. ASSUME NEW c \in Cont, EvictCleanUp(c) PROVE TypeInv'
  BY <1>23 DEF EvictCleanUp, CleanUp, CountCached
<1>24. ASSUME NEW c \in Cont, EvictDropIndex(c) PROVE TypeInv'
  BY <1>24 DEF EvictDropIndex
<1>25. ASSUME NEW c \in Cont, Expire(c) PROVE TypeInv'
  BY <1>25 DEF Expire, CacheDelete
<1>26. ASSUME NEW c \in Cont, StreamError(c) PROVE TypeInv'
  <2>1. CASE CacheDelete(c) /\ UNCHANGED st
    BY <1>26, <2>1 DEF StreamError, CacheDelete
  <2>2. CASE st' = [st EXCEPT ![c] = StoppedAccepting(c)] /\ UNCHANGED <<cache, evict>>
    BY <1>26, <2>2 DEF StreamError, StoppedAccepting
  <2> QED
    BY <1>26, <2>1, <2>2 DEF StreamError, DeleteContainer
<1>27. ASSUME NEW c \in Cont, DeleteDoomed(c) PROVE TypeInv'
  <2>1. CASE CacheDelete(c) /\ UNCHANGED st
    BY <1>27, <2>1 DEF DeleteDoomed, CacheDelete
  <2>2. CASE st' = [st EXCEPT ![c] = StoppedAccepting(c)] /\ UNCHANGED <<cache, evict>>
    BY <1>27, <2>2 DEF DeleteDoomed, StoppedAccepting
  <2> QED
    BY <1>27, <2>1, <2>2 DEF DeleteDoomed, DeleteContainer
<1>28. ASSUME NEW i \in Index, DeleteIndex(i) PROVE TypeInv'
  BY <1>28 DEF DeleteIndex
<1>29. ASSUME NEW t \in Runtime, FillPool(t) PROVE TypeInv'
  <2>1. CASE CreateFresh(t) /\ UNCHANGED phase
    BY <1>29, <2>1, CreateFreshType DEF FillPool
  <2>2. CASE Crash /\ UNCHANGED <<pool, st, cdef, conns>>
    BY <1>29, <2>2 DEF FillPool, Crash
  <2> QED
    BY <1>29, <2>1, <2>2 DEF FillPool
<1>30. ASSUME CreatePool PROVE TypeInv'
  BY <1>30 DEF CreatePool
<1>31. ASSUME DrainPool PROVE TypeInv'
  BY <1>31 DEF DrainPool, Flush
<1>32. ASSUME StopPool PROVE TypeInv'
  BY <1>32 DEF StopPool
<1>33. ASSUME Restart PROVE TypeInv'
  BY <1>33 DEF Restart
<1>34. CASE UNCHANGED vars
  BY <1>34 DEF vars
<1> QED
  BY <1>1, <1>2, <1>3, <1>4, <1>5, <1>6, <1>7, <1>8, <1>9, <1>10, <1>11, <1>12, <1>13, <1>14, <1>15, <1>16, <1>17, <1>18, <1>19, <1>20, <1>21, <1>22, <1>23, <1>24, <1>25, <1>26, <1>27, <1>28, <1>29, <1>30, <1>31, <1>32, <1>33, <1>34, <1>35
  DEF Next, RunStep, AfterRunStep, EvictStep, PoolStep

\* Every variable keeps its type, the semaphore's count included: it never
\* exceeds the pool's concurrency nor drops below zero.
THEOREM TypeCorrect == Spec => []TypeOK
<1>1. TypeInv => TypeOK
  BY DEF TypeInv
<1> QED
  BY <1>1, TypeInit, TypeStep, PTL DEF Spec

-----------------------------------------------------------------------------
(* The pool gains and loses no container *)

\* Where a run that took a container from the pool still owes one.
OwesAt == InRun \cup {"after", "delete", "evicted", "recreate"}
Debtor(r) == isNew[r] /\ pc[r] \in OwesAt
Debtors(t) == {r \in Req : Owes(r, t)}

\* A run is in debt only after it took a container; what it took is in no
\* pool, and no other run took the same.  Nothing runs while the pool is down.
Debts ==
  /\ \A r \in Req : pc[r] \in {"idle", "try", "wait", "woken", "take", "reserve", "conn"} => ~isNew[r]
  /\ \A r \in Req : pc[r] \in {"setup", "add", "index", "recreate"} \/ err[r] = "missing" => isNew[r]
  /\ \A r \in Req, t \in Runtime : Debtor(r) => rcont[r] \notin pool[t]
  /\ \A r, q \in Req : Debtor(r) /\ Debtor(q) /\ r # q => rcont[r] # rcont[q]
  /\ \A t, u \in Runtime : t # u => pool[t] \cap pool[u] = {}
  /\ phase = "stopped" => \A r \in Req : pc[r] = "idle"

PoolInv == TypeInv /\ Debts /\ PoolConserved

LEMMA DebtorsFinite ==
  ASSUME TypeInv
  PROVE  /\ \A t \in Runtime : IsFiniteSet(pool[t]) /\ IsFiniteSet(Debtors(t))
         /\ \A r \in Req, t \in Runtime :
              r \in Debtors(t) <=> Debtor(r) /\ DefRuntime[rdef[r]] = t
<1>1. \A t \in Runtime : pool[t] \subseteq Cont /\ Debtors(t) \subseteq Req
  BY DEF TypeInv, TypeOK, Debtors
<1>2. \A t \in Runtime : IsFiniteSet(pool[t]) /\ IsFiniteSet(Debtors(t))
  BY <1>1, FS_Subset, RunnerAssumption
<1> QED
  BY <1>2 DEF Debtors, Debtor, Owes, OwesAt

\* Moving one container between a pool and a debtor keeps their sum.
LEMMA Borrow ==
  ASSUME NEW P, NEW O, IsFiniteSet(P), IsFiniteSet(O), NEW c \in P, NEW r, r \notin O
  PROVE  Cardinality(P \ {c}) + Cardinality(O \cup {r}) = Cardinality(P) + Cardinality(O)
<1>1. Cardinality(P \ {c}) = Cardinality(P) - 1
  BY FS_RemoveElement
<1>2. Cardinality(O \cup {r}) = Cardinality(O) + 1
  BY FS_AddElement
<1>3. Cardinality(P) \in Nat /\ Cardinality(O) \in Nat
  BY FS_CardinalityType
<1> QED
  BY <1>1, <1>2, <1>3

LEMMA Repay ==
  ASSUME NEW P, NEW O, IsFiniteSet(P), IsFiniteSet(O), NEW c, c \notin P, NEW r \in O
  PROVE  Cardinality(P \cup {c}) + Cardinality(O \ {r}) = Cardinality(P) + Cardinality(O)
<1>1. Cardinality(P \cup {c}) = Cardinality(P) + 1
  BY FS_AddElement
<1>2. Cardinality(O \ {r}) = Cardinality(O) - 1
  BY FS_RemoveElement
<1>3. Cardinality(P) \in Nat /\ Cardinality(O) \in Nat
  BY FS_CardinalityType
<1> QED
  BY <1>1, <1>2, <1>3

\* A step that moves no container into or out of a pool and changes no run's
\* debt preserves the invariant.
LEMMA SameDebts ==
  ASSUME PoolInv, TypeInv', pool' = pool,
         \A r \in Req : Debtor(r)' <=> Debtor(r),
         \A r \in Req : Debtor(r) => rcont'[r] = rcont[r] /\ rdef'[r] = rdef[r],
         \A r \in Req : pc'[r] \in {"idle", "try", "wait", "woken", "take", "reserve", "conn"} => ~isNew'[r],
         \A r \in Req : pc'[r] \in {"setup", "add", "index", "recreate"} \/ err'[r] = "missing" => isNew'[r],
         phase' = "stopped" => \A r \in Req : pc'[r] = "idle",
         phase' \in {"serving", "stopping"} => phase \in {"serving", "stopping"}
  PROVE  PoolInv'
<1>1. Debts'
  BY DEF PoolInv, Debts
<1>2. \A t \in Runtime : Debtors(t)' = Debtors(t)
  BY DEF Debtors, Debtor, Owes, OwesAt
<1>3. PoolConserved'
  BY <1>2 DEF PoolInv, PoolConserved, Debtors
<1> QED
  BY <1>1, <1>3 DEF PoolInv

\* A run that puts a container into its runtime's pool is no longer in debt.
LEMMA DebtRepaid ==
  ASSUME PoolInv, TypeInv', NEW r \in Req, Debtor(r), NEW c \in Cont,
         \A t \in Runtime : c \notin pool[t],
         \A q \in Req : Debtor(q) /\ q # r => c # rcont[q],
         pool' = [pool EXCEPT ![DefRuntime[rdef[r]]] = @ \cup {c}],
         pc' = [pc EXCEPT ![r] = "finish"],
         UNCHANGED <<phase, isNew, rcont, rdef, err>>
  PROVE  PoolInv'
<1> DEFINE t == DefRuntime[rdef[r]]
<1>1. t \in Runtime
  BY RunnerAssumption DEF PoolInv, TypeInv, Placed, TypeOK, Debtor, OwesAt, InRun
<1>2. /\ ~Debtor(r)'
      /\ \A q \in Req : q # r => (Debtor(q)' <=> Debtor(q))
  BY DEF PoolInv, TypeInv, TypeOK, Debtor, OwesAt, InRun
<1>3. Debts'
  BY <1>1, <1>2 DEF PoolInv, Debts, TypeInv, TypeOK, Debtor, OwesAt, InRun
<1>4. ASSUME NEW u \in Runtime, phase \in {"serving", "stopping"}
      PROVE  Cardinality(pool'[u]) + Cardinality(Debtors(u)') = Concurrency
  <2>1. Cardinality(pool[u]) + Cardinality(Debtors(u)) = Concurrency
    BY <1>4 DEF PoolInv, PoolConserved, Debtors
  <2>2. CASE u = t
    <3>1. Debtors(t)' = Debtors(t) \ {r}
      BY <1>2 DEF Debtors, Owes, Debtor, OwesAt
    <3>2. pool'[t] = pool[t] \cup {c} /\ c \notin pool[t]
      BY <1>1 DEF PoolInv, TypeInv, TypeOK
    <3>3. r \in Debtors(t) /\ IsFiniteSet(pool[t]) /\ IsFiniteSet(Debtors(t))
      BY <1>1, DebtorsFinite DEF PoolInv
    <3> QED
      BY <2>1, <2>2, <3>1, <3>2, <3>3, Repay
  <2>3. CASE u # t
    <3>1. Debtors(u)' = Debtors(u)
      BY <1>2, <2>3 DEF Debtors, Owes, Debtor, OwesAt
    <3>2. pool'[u] = pool[u]
      BY <2>3 DEF PoolInv, TypeInv, TypeOK
    <3> QED
      BY <2>1, <3>1, <3>2
  <2> QED
    BY <2>2, <2>3
<1>5. PoolConserved'
  BY <1>4 DEF PoolConserved, Debtors
<1> QED
  BY <1>3, <1>5 DEF PoolInv

\* The step in which r takes c from its runtime's pool.
Borrows(r, c) ==
  /\ pc[r] = "take" /\ c \in pool[DefRuntime[rdef[r]]]
  /\ pool' = [pool EXCEPT ![DefRuntime[rdef[r]]] = @ \ {c}]
  /\ rcont' = [rcont EXCEPT ![r] = c]
  /\ \A q \in Req : isNew'[q] <=> q = r \/ isNew[q]
  /\ pc'[r] \in {"acquire", "setup", "after"}
  /\ \A q \in Req : q # r => pc'[q] = pc[q] \/ (pc[q] = "wait" /\ pc'[q] = "woken")
  /\ \A q \in Req : q # r => err'[q] = err[q]
  /\ UNCHANGED <<phase, rdef>>

\* A run that takes a container from its runtime's pool is in debt from then on.
LEMMA DebtIncurred ==
  ASSUME PoolInv, TypeInv', NEW r \in Req, NEW c, Borrows(r, c)
  PROVE  PoolInv'
<1> USE DEF Borrows
<1> DEFINE t == DefRuntime[rdef[r]]
<1>1. t \in Runtime /\ c \in Cont
  BY RunnerAssumption DEF PoolInv, TypeInv, Placed, TypeOK
<1>2. /\ ~Debtor(r) /\ Debtor(r)'
      /\ \A q \in Req : q # r => (Debtor(q)' <=> Debtor(q))
  BY DEF PoolInv, Debts, TypeInv, TypeOK, Debtor, OwesAt, InRun
<1>3. Debts'
  <2>1. \A q \in Req, u \in Runtime : Debtor(q)' => rcont'[q] \notin pool'[u]
    BY <1>1, <1>2 DEF PoolInv, Debts, TypeInv, TypeOK
  <2>2. \A p, q \in Req : Debtor(p)' /\ Debtor(q)' /\ p # q => rcont'[p] # rcont'[q]
    BY <1>1, <1>2 DEF PoolInv, Debts, TypeInv, TypeOK
  <2>3. \A q \in Req : pc'[q] \in {"idle", "try", "wait", "woken", "take", "reserve", "conn"} => ~isNew'[q]
    BY DEF PoolInv, Debts, TypeInv, TypeOK
  <2>4. \A q \in Req : pc'[q] \in {"setup", "add", "index", "recreate"} \/ err'[q] = "missing" => isNew'[q]
    BY DEF PoolInv, Debts, TypeInv, TypeOK
  <2>5. \A v, u \in Runtime : v # u => pool'[v] \cap pool'[u] = {}
    BY <1>1 DEF PoolInv, Debts, TypeInv, TypeOK
  <2>6. phase # "stopped"
    BY DEF PoolInv, Debts
  <2> QED
    BY <2>1, <2>2, <2>3, <2>4, <2>5, <2>6 DEF Debts
<1>4. ASSUME NEW u \in Runtime, phase \in {"serving", "stopping"}
      PROVE  Cardinality(pool'[u]) + Cardinality(Debtors(u)') = Concurrency
  <2>1. Cardinality(pool[u]) + Cardinality(Debtors(u)) = Concurrency
    BY <1>4 DEF PoolInv, PoolConserved, Debtors
  <2>2. CASE u = t
    <3>1. Debtors(t)' = Debtors(t) \cup {r}
      BY <1>2 DEF Debtors, Owes, Debtor, OwesAt
    <3>2. pool'[t] = pool[t] \ {c}
      BY <1>1 DEF PoolInv, TypeInv, TypeOK
    <3>3. r \notin Debtors(t) /\ IsFiniteSet(pool[t]) /\ IsFiniteSet(Debtors(t))
      BY <1>1, <1>2, DebtorsFinite DEF PoolInv
    <3> QED
      BY <2>1, <2>2, <3>1, <3>2, <3>3, Borrow
  <2>3. CASE u # t
    <3>1. Debtors(u)' = Debtors(u)
      BY <1>2, <2>3 DEF Debtors, Owes, Debtor, OwesAt
    <3>2. pool'[u] = pool[u]
      BY <2>3 DEF PoolInv, TypeInv, TypeOK
    <3> QED
      BY <2>1, <3>1, <3>2
  <2> QED
    BY <2>2, <2>3
<1>5. PoolConserved'
  BY <1>4 DEF PoolConserved, Debtors
<1> QED
  BY <1>3, <1>5 DEF PoolInv

LEMMA PoolInit == Init => PoolInv
<1>1. Init => Debts
  BY DEF Init, Debts, Debtor
<1>2. Init => PoolConserved
  BY DEF Init, PoolConserved
<1> QED
  BY <1>1, <1>2, TypeInit DEF PoolInv

\* While the pool is filled no run is under way, so none is in debt.
LEMMA PoolFills ==
  ASSUME PoolInv, TypeInv', NEW t \in Runtime, FillPool(t)
  PROVE  PoolInv'
<1>1. phase = "stopped" /\ \A r \in Req : pc[r] = "idle" /\ ~Debtor(r)
  BY DEF FillPool, PoolInv, Debts, Debtor, OwesAt, InRun
<1>2. CASE CreateFresh(t) /\ UNCHANGED phase
  <2>1. PICK c \in Cont : /\ \A u \in Runtime : c \notin pool[u]
                          /\ pool' = [pool EXCEPT ![t] = @ \cup {c}]
    BY <1>2 DEF CreateFresh, Unused
  <2>2. UNCHANGED <<phase, pc, isNew, err, rcont, rdef>>
    BY <1>2 DEF FillPool, reqVars
  <2>3. Debts'
    BY <1>1, <2>1, <2>2 DEF PoolInv, Debts, Debtor, TypeInv, TypeOK
  <2>4. PoolConserved'
    BY <1>1, <2>2 DEF PoolConserved
  <2> QED
    BY <2>3, <2>4 DEF PoolInv
<1>3. CASE Crash /\ UNCHANGED <<pool, st, cdef, conns>>
  BY <1>3, SameDebts DEF Crash, FillPool, reqVars, Debtor, PoolInv, Debts
<1> QED
  BY <1>2, <1>3 DEF FillPool

LEMMA PoolCreated ==
  ASSUME PoolInv, TypeInv', CreatePool
  PROVE  PoolInv'
<1>1. phase = "stopped" /\ \A r \in Req : pc[r] = "idle"
  BY DEF CreatePool, PoolInv, Debts
<1>2. UNCHANGED <<pool, pc, isNew, err, rcont, rdef>> /\ phase' = "serving"
  BY DEF CreatePool, reqVars
<1>3. Debts'
  BY <1>1, <1>2 DEF PoolInv, Debts, Debtor
<1>4. ASSUME NEW t \in Runtime
      PROVE  Cardinality(pool'[t]) + Cardinality(Debtors(t)') = Concurrency
  <2>1. Debtors(t)' = {}
    BY <1>1, <1>2 DEF Debtors, Owes, InRun
  <2>2. Cardinality(pool'[t]) = Concurrency
    BY <1>2 DEF CreatePool
  <2> QED
    BY <2>1, <2>2, FS_EmptySet, RunnerAssumption
<1>5. PoolConserved'
  BY <1>4 DEF PoolConserved, Debtors
<1> QED
  BY <1>3, <1>5 DEF PoolInv

LEMMA PoolStepInv == PoolInv /\ [Next]_vars => PoolInv'
<1> SUFFICES ASSUME PoolInv, [Next]_vars PROVE PoolInv'
  OBVIOUS
<1>0. TypeInv /\ TypeInv'
  BY TypeStep DEF PoolInv
<1> DEFINE Same ==
      /\ pool' = pool
      /\ \A r \in Req : Debtor(r)' <=> Debtor(r)
      /\ \A r \in Req : Debtor(r) => rcont'[r] = rcont[r] /\ rdef'[r] = rdef[r]
      /\ \A r \in Req : pc'[r] \in {"idle", "try", "wait", "woken", "take", "reserve", "conn"} => ~isNew'[r]
      /\ \A r \in Req : pc'[r] \in {"setup", "add", "index", "recreate"} \/ err'[r] = "missing" => isNew'[r]
      /\ phase' = "stopped" => \A r \in Req : pc'[r] = "idle"
      /\ phase' \in {"serving", "stopping"} => phase \in {"serving", "stopping"}
<1>s. Same => PoolInv'
  BY <1>0, SameDebts
<1> USE DEF PoolInv, Debts, TypeInv, TypeOK, Debtor, OwesAt, InRun, InAfterRun, reqVars, contVars
<1>1. ASSUME NEW r \in Req, NEW d \in Def, Start(r, d) PROVE Same
  BY <1>0, <1>1 DEF Start, Lookup, Goto
<1>2. ASSUME NEW r \in Req, LookupAgain(r) PROVE Same
  BY <1>0, <1>2 DEF LookupAgain, Lookup, Goto
<1>3. ASSUME NEW r \in Req, TryCached(r) PROVE Same
  BY <1>0, <1>3 DEF TryCached, Goto
<1>4. ASSUME NEW r \in Req, Miss(r) PROVE Same
  BY <1>0, <1>4 DEF Miss, Goto
<1>5. ASSUME NEW r \in Req, Take(r) PROVE PoolInv'
  <2>1. PICK c \in pool[DefRuntime[rdef[r]]] :
          /\ pool' = [pool EXCEPT ![DefRuntime[rdef[r]]] = @ \ {c}]
          /\ rcont' = [rcont EXCEPT ![r] = c]
          /\ IF Full(c, rdef[r]) \/ Reserved(r, c)
             THEN Fail(r, "other") /\ UNCHANGED <<conns, late>>
             ELSE Reserve(r, c, "setup") /\ UNCHANGED <<leader, err>>
    BY <1>5 DEF Take
  <2>2. pc[r] = "take" /\ isNew' = [isNew EXCEPT ![r] = TRUE] /\ UNCHANGED <<phase, rdef>>
    BY <1>5 DEF Take
  <2>3. /\ pc'[r] \in {"acquire", "setup", "after"}
        /\ \A q \in Req : q # r => pc'[q] = pc[q] \/ (pc[q] = "wait" /\ pc'[q] = "woken")
        /\ \A q \in Req : q # r => err'[q] = err[q]
    <3>1. CASE Full(c, rdef[r]) \/ Reserved(r, c)
      BY <1>0, <2>1, <2>2, <3>1, LeaveType DEF Fail
    <3>2. CASE ~(Full(c, rdef[r]) \/ Reserved(r, c))
      BY <1>0, <2>1, <2>2, <3>2 DEF Reserve, Goto
    <3> QED
      BY <3>1, <3>2
  <2>4. PoolInv
    OBVIOUS
  <2>5. Borrows(r, c)
    BY <2>1, <2>2, <2>3 DEF Borrows
  <2> HIDE DEF PoolInv, TypeInv
  <2> QED
    BY <1>0, <2>4, <2>5, DebtIncurred
<1>6. ASSUME NEW r \in Req, ReserveCached(r) PROVE Same
  <2>1. pc[r] = "reserve" /\ UNCHANGED <<phase, pool, rdef, rcont, isNew>>
    BY <1>6 DEF ReserveCached
  <2>2. CASE \E label \in {"try", "acquire", "conn"} : Goto(r, label) /\ UNCHANGED <<leader, err>>
    BY <1>0, <2>1, <2>2 DEF Goto
  <2>3. CASE Fail(r, "other")
    BY <1>0, <2>1, <2>3, LeaveType DEF Fail
  <2> QED
    BY <1>6, <2>2, <2>3 DEF ReserveCached, Reserve, ReserveError
<1>7. ASSUME NEW r \in Req, Acquire(r) PROVE Same
  <2>1. pc[r] = "acquire" /\ UNCHANGED <<phase, pool, rdef, rcont, isNew>>
    BY <1>7 DEF Acquire
  <2>2. CASE Goto(r, IF isNew[r] THEN "setup" ELSE "conn") /\ UNCHANGED <<leader, err>>
    BY <1>0, <2>1, <2>2 DEF Goto
  <2>3. ASSUME NEW e \in {"other", "semaphore"}, Fail(r, e) PROVE Same
    BY <1>0, <2>1, <2>3, LeaveType DEF Fail
  <2>4. CASE ~isNew[r] /\ Goto(r, "try") /\ UNCHANGED <<leader, err>>
    BY <1>0, <2>1, <2>4 DEF Goto
  <2> QED
    BY <1>7, <2>2, <2>3, <2>4 DEF Acquire, ReserveError
<1>8. ASSUME NEW r \in Req, SetUp(r) PROVE Same
  <2>1. pc[r] = "setup" /\ isNew[r] /\ UNCHANGED <<phase, pool, rdef, rcont, isNew>>
    BY <1>0, <1>8 DEF SetUp
  <2>2. CASE Goto(r, "add") /\ UNCHANGED <<leader, err>>
    BY <1>0, <2>1, <2>2 DEF Goto
  <2>3. ASSUME NEW e \in {"other", "missing"}, Fail(r, e) PROVE Same
    BY <1>0, <2>1, <2>3, LeaveType DEF Fail
  <2> QED
    BY <1>8, <2>2, <2>3 DEF SetUp
<1>9. ASSUME NEW r \in Req, AddToCache(r) PROVE Same
  BY <1>0, <1>9 DEF AddToCache, Goto
<1>10. ASSUME NEW r \in Req, AddToIndex(r) PROVE Same
  BY <1>0, <1>10, LeaveType DEF AddToIndex
<1>11. ASSUME NEW r \in Req, Conn(r) PROVE Same
  BY <1>0, <1>11 DEF Conn, Crash, Goto
<1>12. ASSUME NEW r \in Req, RunScript(r) PROVE Same
  BY <1>0, <1>12 DEF RunScript, Goto
<1>p. ASSUME NEW r \in Req, pc[r] = "after", isNew[r], PutBack(r), Goto(r, "finish"),
             UNCHANGED <<phase, isNew, rcont, rdef, err>>
      PROVE  PoolInv'
  <2>1. /\ Debtor(r) /\ rcont[r] \in Cont
        /\ \A t \in Runtime : rcont[r] \notin pool[t]
        /\ \A q \in Req : Debtor(q) /\ q # r => rcont[r] # rcont[q]
    BY <1>p DEF Placed, WithContainer
  <2>2. PoolInv /\ UNCHANGED <<phase, isNew, rcont, rdef, err>>
    BY <1>p
  <2> HIDE DEF PoolInv, Debts, TypeInv, TypeOK, Debtor, OwesAt
  <2> QED
    BY <1>0, <1>p, <2>1, <2>2, DebtRepaid DEF PutBack, Goto
<1>13. ASSUME NEW r \in Req, ReturnMissing(r) PROVE PoolInv'
  <2>1. CASE PutBack(r) /\ Goto(r, "finish") /\ UNCHANGED err
    BY <1>0, <1>p, <1>13, <2>1 DEF ReturnMissing
  <2>2. CASE err' = [err EXCEPT ![r] = "other"] /\ UNCHANGED <<pool, pc>>
    BY <1>0, <1>s, <1>13, <2>2 DEF ReturnMissing
  <2> QED
    BY <1>13, <2>1, <2>2 DEF ReturnMissing
<1>14. ASSUME NEW r \in Req, ReturnUnacquired(r) PROVE PoolInv'
  BY <1>p, <1>14 DEF ReturnUnacquired
<1>15. ASSUME NEW r \in Req, Release(r) PROVE Same
  BY <1>0, <1>15 DEF Release, AfterRelease, Crash, Goto
<1>16. ASSUME NEW r \in Req, Delete(r) PROVE Same
  BY <1>0, <1>16 DEF Delete, Goto
<1>17. ASSUME NEW r \in Req, StopAccepting(r) PROVE Same
  BY <1>0, <1>17 DEF StopAccepting, AfterRelease, Goto
<1>18. ASSUME NEW r \in Req, Recreate(r) PROVE PoolInv'
  <2>1. CASE CreateFresh(DefRuntime[rdef[r]]) /\ Goto(r, "finish") /\ UNCHANGED phase
    <3>1. PICK c \in Cont :
            /\ Unused(c)
            /\ pool' = [pool EXCEPT ![DefRuntime[rdef[r]]] = @ \cup {c}]
      BY <2>1 DEF CreateFresh
    <3>2. Debtor(r) /\ UNCHANGED <<phase, isNew, rcont, rdef, err>>
      BY <1>0, <1>18, <2>1 DEF Recreate
    <3>3. PoolInv
      OBVIOUS
    <3>4. \A t \in Runtime : c \notin pool[t]
      BY <3>1 DEF Unused
    <3>5. \A q \in Req : c # rcont[q]
      BY <3>1 DEF Unused
    <3> HIDE DEF PoolInv, Debts, TypeInv, TypeOK, Debtor, OwesAt
    <3> QED
      BY <1>0, <2>1, <3>1, <3>2, <3>3, <3>4, <3>5, DebtRepaid DEF Goto
  <2>2. CASE Crash /\ UNCHANGED <<pool, st, cdef, conns, pc>>
    BY <1>0, <1>s, <1>18, <2>2 DEF Recreate, Crash
  <2> QED
    BY <1>18, <2>1, <2>2 DEF Recreate
<1>c. ASSUME NEW r \in Req, pc[r] \in {"finish", "cleanup", "memory"}, CheckMemory(r), pool' = pool
      PROVE  Same
  <2>1. CASE Done(r)
    BY <1>0, <1>c, <2>1 DEF Done, Goto
  <2>2. CASE Crash /\ UNCHANGED <<cache, evict, reqVars, late>>
    BY <1>0, <1>c, <2>2 DEF Crash
  <2>3. CASE Goto(r, "memory") /\ UNCHANGED <<phase, rdef, rcont, cand, isNew, err, late>>
    BY <1>0, <1>c, <2>3 DEF Goto
  <2> QED
    BY <1>c, <2>1, <2>2, <2>3 DEF CheckMemory
<1>19. ASSUME NEW r \in Req, Finish(r) PROVE Same
  <2>1. CASE Disposable(rcont[r])
    BY <1>0, <1>19, <2>1 DEF Finish, Goto
  <2>2. CASE ~Disposable(rcont[r])
    BY <1>c, <1>19, <2>2 DEF Finish
  <2> QED
    BY <2>1, <2>2
<1>20. ASSUME NEW r \in Req, CleanUpAfterRun(r) PROVE Same
  BY <1>c, <1>20 DEF CleanUpAfterRun
<1>21. ASSUME NEW r \in Req, CheckMemoryAgain(r) PROVE Same
  BY <1>c, <1>21 DEF CheckMemoryAgain
<1>22. ASSUME NEW c \in Cont, EvictStep(c) \/ Expire(c) \/ StreamError(c) \/ DeleteDoomed(c) PROVE Same
  BY <1>0, <1>22
  DEF EvictStep, EvictStopAccepting, EvictCountConns, EvictCleanUp, EvictDropIndex, Expire, StreamError, DeleteDoomed
<1>23. ASSUME NEW i \in Index, DeleteIndex(i) PROVE Same
  BY <1>0, <1>23 DEF DeleteIndex
<1>24. ASSUME NEW t \in Runtime, FillPool(t) PROVE PoolInv'
  BY <1>0, <1>24, PoolFills
<1>25. ASSUME CreatePool PROVE PoolInv'
  BY <1>0, <1>25, PoolCreated
<1>26. ASSUME DrainPool PROVE PoolInv'
  BY <1>0, <1>26 DEF DrainPool, PoolConserved
<1>27. ASSUME StopPool PROVE Same
  BY <1>0, <1>27 DEF StopPool
<1>28. ASSUME Restart PROVE PoolInv'
  BY <1>0, <1>28 DEF Restart, PoolConserved
<1>29. ASSUME UNCHANGED vars PROVE Same
  BY <1>0, <1>29 DEF vars
<1> HIDE DEF Same
<1> QED
  BY <1>s, <1>1, <1>2, <1>3, <1>4, <1>5, <1>6, <1>7, <1>8, <1>9, <1>10, <1>11, <1>12, <1>13,
     <1>14, <1>15, <1>16, <1>17, <1>18, <1>19, <1>20, <1>21, <1>22, <1>23, <1>24, <1>25, <1>26,
     <1>27, <1>28, <1>29
  DEF Next, RunStep, AfterRunStep, PoolStep

\* The pools never shrink nor grow: whatever fails, is cancelled or evicted,
\* each container that was taken from a pool is put back or replaced.
THEOREM PoolNeverShrinks == Spec => []PoolConserved
<1>1. PoolInv => PoolConserved
  BY DEF PoolInv
<1> QED
  BY <1>1, PoolInit, PoolStepInv, PTL DEF Spec

-----------------------------------------------------------------------------
(* Waiting for the creator *)

\* The registered creator of a definition's container is on its way to create
\* it, and who waits has a creator to wait for.
Creating(q) ==
  \/ pc[q] = "take"
  \/ isNew[q] /\ pc[q] \in {"acquire", "setup", "add", "index"}

Creators ==
  /\ \A d \in Def : leader[d] # None => rdef[leader[d]] = d /\ Creating(leader[d])
  /\ \A r \in Req : pc[r] = "wait" => leader[rdef[r]] # None

\* When the creator leaves getContainer nobody waits for it any more; when
\* another run leaves, the creators stay as they are.
LEMMA LeaveCreators ==
  ASSUME TypeInv, Creators, NEW r \in Req, pc[r] \notin {"idle", "wait"},
         NEW label \in InRun \cup InAfterRun, label # "wait", Leave(r, label),
         rdef' = rdef, \A q \in Req : q # r => isNew'[q] = isNew[q]
  PROVE  Creators'
<1>1. \A d \in Def : leader'[d] # None => leader'[d] = leader[d] /\ leader[d] # r
  BY DEF TypeInv, TypeOK, Placed, Creators, Leave
<1>2. \A q \in Req : q # r => pc'[q] = pc[q] \/ (pc[q] = "wait" /\ pc'[q] = "woken")
  BY LeaveType
<1>3. \A d \in Def : leader'[d] # None => rdef'[leader'[d]] = d /\ Creating(leader[d])'
  <2> SUFFICES ASSUME NEW d \in Def, leader'[d] # None
               PROVE  rdef'[leader'[d]] = d /\ Creating(leader[d])'
    OBVIOUS
  <2>1. PICK q \in Req : q = leader[d]
    BY <1>1 DEF TypeInv, TypeOK
  <2>2. leader'[d] = q /\ q # r /\ rdef[q] = d /\ Creating(q)
    BY <1>1, <2>1 DEF Creators
  <2>3. pc'[q] = pc[q]
    BY <1>2, <2>2 DEF Creating
  <2> QED
    BY <2>2, <2>3 DEF Creating
<1>4. \A q \in Req : pc'[q] = "wait" => leader'[rdef'[q]] # None
  BY DEF TypeInv, TypeOK, Placed, Creators, Leave, Goto
<1> QED
  BY <1>3, <1>4 DEF Creators

\* A step that moves one run, which is not or stays a creator.
LEMMA MoveCreators ==
  ASSUME TypeInv, Creators, NEW r \in Req, NEW label, label # "wait",
         pc' = [pc EXCEPT ![r] = label], leader' = leader,
         \A q \in Req : q # r => isNew'[q] = isNew[q] /\ rdef'[q] = rdef[q],
         Creating(r) => Creating(r)' /\ rdef'[r] = rdef[r]
  PROVE  Creators'
<1>1. \A d \in Def : leader[d] # None => leader[d] \in Req
  BY DEF TypeInv, TypeOK
<1>2. \A q \in Req : q # r => pc'[q] = pc[q]
  BY DEF TypeInv, TypeOK
<1>3. pc'[r] # "wait"
  BY DEF TypeInv, TypeOK
<1> QED
  BY <1>1, <1>2, <1>3 DEF Creators, Creating

LEMMA CreatorsStep == PoolInv /\ Creators /\ [Next]_vars => Creators'
<1> SUFFICES ASSUME PoolInv, Creators, [Next]_vars PROVE Creators'
  OBVIOUS
<1>0. TypeInv /\ Debts
  BY DEF PoolInv
<1>1. ASSUME NEW r \in Req, NEW d \in Def, Start(r, d) PROVE Creators'
  BY <1>0, <1>1, MoveCreators DEF Start, Lookup, Goto, Creating, TypeInv, TypeOK
<1>2. ASSUME NEW r \in Req, LookupAgain(r) PROVE Creators'
  BY <1>0, <1>2, MoveCreators DEF LookupAgain, Lookup, Goto, Creating
<1>3. ASSUME NEW r \in Req, TryCached(r) PROVE Creators'
  BY <1>0, <1>3, MoveCreators DEF TryCached, Goto, Creating
<1>4. ASSUME NEW r \in Req, Miss(r) PROVE Creators'
  <2> DEFINE d == rdef[r]
  <2>1. pc[r] = "try" /\ d \in Def /\ UNCHANGED <<rdef, isNew>>
    BY <1>0, <1>4 DEF Miss, TypeInv, Placed
  <2>2. CASE Goto(r, "take") /\ UNCHANGED leader
    BY <1>0, <2>1, <2>2, MoveCreators DEF Goto, Creating
  <2>3. CASE leader[d] = None /\ leader' = [leader EXCEPT ![d] = r] /\ Goto(r, "take")
    BY <1>0, <2>1, <2>3 DEF Goto, Creators, Creating, TypeInv, TypeOK
  <2>4. CASE leader[d] # None /\ Goto(r, "wait") /\ UNCHANGED leader
    BY <1>0, <2>1, <2>4 DEF Goto, Creators, Creating, TypeInv, TypeOK
  <2> QED
    BY <1>4, <2>2, <2>3, <2>4 DEF Miss
<1>5. ASSUME NEW r \in Req, Take(r) PROVE Creators'
  <2>1. /\ pc[r] = "take" /\ isNew' = [isNew EXCEPT ![r] = TRUE] /\ UNCHANGED rdef
        /\ \A q \in Req : q # r => isNew'[q] = isNew[q]
        /\ isNew'[r]
    BY <1>0, <1>5 DEF Take, TypeInv, TypeOK
  <2>2. PICK c : IF Full(c, rdef[r]) \/ Reserved(r, c)
                 THEN Fail(r, "other") /\ UNCHANGED <<conns, late>>
                 ELSE Reserve(r, c, "setup") /\ UNCHANGED <<leader, err>>
    BY <1>5 DEF Take
  <2>3. CASE Fail(r, "other")
    BY <1>0, <2>1, <2>3, LeaveCreators DEF Fail, InAfterRun
  <2>4. CASE Reserve(r, c, "setup") /\ UNCHANGED <<leader, err>>
    <3>1. PICK label \in {"acquire", "setup"} : pc' = [pc EXCEPT ![r] = label]
      BY <2>4 DEF Reserve, Goto
    <3>2. Creating(r)'
      BY <1>0, <2>1, <3>1 DEF Creating, TypeInv, TypeOK
    <3> QED
      BY <1>0, <2>1, <2>4, <3>1, <3>2, MoveCreators
  <2> QED
    BY <2>2, <2>3, <2>4
<1>6. ASSUME NEW r \in Req, ReserveCached(r) PROVE Creators'
  <2>1. pc[r] = "reserve" /\ ~Creating(r) /\ UNCHANGED <<rdef, isNew>>
    BY <1>6 DEF ReserveCached, Creating
  <2>2. CASE \E label \in {"try", "acquire", "conn"} : Goto(r, label) /\ UNCHANGED leader
    BY <1>0, <2>1, <2>2, MoveCreators DEF Goto
  <2>3. CASE Fail(r, "other")
    BY <1>0, <2>1, <2>3, LeaveCreators DEF Fail, InAfterRun
  <2> QED
    BY <1>6, <2>2, <2>3 DEF ReserveCached, Reserve, ReserveError
<1>7. ASSUME NEW r \in Req, Acquire(r) PROVE Creators'
  <2>1. pc[r] = "acquire" /\ UNCHANGED <<rdef, isNew>>
    BY <1>7 DEF Acquire
  <2>2. CASE Goto(r, IF isNew[r] THEN "setup" ELSE "conn") /\ UNCHANGED <<leader, err>>
    BY <1>0, <2>1, <2>2, MoveCreators DEF Goto, Creating, TypeInv, TypeOK
  <2>3. ASSUME NEW e \in Errors, Fail(r, e) PROVE Creators'
    BY <1>0, <2>1, <2>3, LeaveCreators DEF Fail, InAfterRun
  <2>4. CASE ~isNew[r] /\ Goto(r, "try") /\ UNCHANGED <<leader, err>>
    BY <1>0, <2>1, <2>4, MoveCreators DEF Goto, Creating
  <2> QED
    BY <1>7, <2>2, <2>3, <2>4 DEF Acquire, ReserveError, Errors
<1>8. ASSUME NEW r \in Req, SetUp(r) PROVE Creators'
  <2>1. pc[r] = "setup" /\ isNew[r] /\ UNCHANGED <<rdef, isNew>>
    BY <1>0, <1>8 DEF SetUp, Debts
  <2>2. CASE Goto(r, "add") /\ UNCHANGED <<leader, err>>
    BY <1>0, <2>1, <2>2, MoveCreators DEF Goto, Creating, TypeInv, TypeOK
  <2>3. ASSUME NEW e \in Errors, Fail(r, e) PROVE Creators'
    BY <1>0, <2>1, <2>3, LeaveCreators DEF Fail, InAfterRun
  <2> QED
    BY <1>8, <2>2, <2>3 DEF SetUp, Errors
<1>9. ASSUME NEW r \in Req, AddToCache(r) PROVE Creators'
  <2>1. pc[r] = "add" /\ isNew[r] /\ UNCHANGED <<leader, rdef, isNew>> /\ Goto(r, "index")
    BY <1>0, <1>9 DEF AddToCache, Debts
  <2> QED
    BY <1>0, <2>1, MoveCreators DEF Goto, Creating, TypeInv, TypeOK
<1>10. ASSUME NEW r \in Req, AddToIndex(r) PROVE Creators'
  <2>1. pc[r] = "index" /\ UNCHANGED <<rdef, isNew>> /\ Leave(r, "run")
    BY <1>10 DEF AddToIndex
  <2> QED
    BY <1>0, <2>1, LeaveCreators DEF InRun
<1>11. ASSUME NEW r \in Req, Conn(r) \/ RunScript(r) \/ AfterRunStep(r) PROVE Creators'
  <2>1. ~Creating(r) /\ leader' = leader
    BY <1>0, <1>11 DEF Conn, RunScript, AfterRunStep, ReturnMissing, ReturnUnacquired, Release,
        Delete, StopAccepting, Recreate, Finish, CleanUpAfterRun, CheckMemoryAgain, Creating
  <2>2. \A q \in Req : q # r => isNew'[q] = isNew[q] /\ rdef'[q] = rdef[q]
    BY <1>0, <1>11 DEF Conn, RunScript, AfterRunStep, ReturnMissing, ReturnUnacquired, Release,
        Delete, StopAccepting, Recreate, Finish, CleanUpAfterRun, CheckMemoryAgain, CheckMemory,
        Done, reqVars, TypeInv, TypeOK
  <2>3. PICK label : label # "wait" /\ pc' = [pc EXCEPT ![r] = label]
    <3>1. pc[r] # "wait" /\ pc = [pc EXCEPT ![r] = pc[r]]
      BY <1>0, <1>11 DEF Conn, RunScript, AfterRunStep, ReturnMissing, ReturnUnacquired, Release,
        Delete, StopAccepting, Recreate, Finish, CleanUpAfterRun, CheckMemoryAgain, TypeInv, TypeOK
    <3> QED
      BY <1>11, <3>1 DEF Conn, RunScript, AfterRunStep, ReturnMissing, ReturnUnacquired, Release,
        Delete, StopAccepting, Recreate, Finish, CleanUpAfterRun, CheckMemoryAgain, CheckMemory,
        Done, Goto, reqVars, AfterRelease
  <2> QED
    BY <1>0, <2>1, <2>2, <2>3, MoveCreators
<1>12. ASSUME UNCHANGED <<leader, reqVars>> PROVE Creators'
  BY <1>12 DEF Creators, Creating, reqVars
<1>13. ASSUME NEW c \in Cont, EvictStep(c) \/ Expire(c) \/ StreamError(c) \/ DeleteDoomed(c)
       PROVE  Creators'
  BY <1>12, <1>13
  DEF EvictStep, EvictStopAccepting, EvictCountConns, EvictCleanUp, EvictDropIndex, Expire, StreamError, DeleteDoomed
<1>14. ASSUME NEW i \in Index, DeleteIndex(i) PROVE Creators'
  BY <1>12, <1>14 DEF DeleteIndex
<1>15. ASSUME PoolStep \/ StopPool PROVE Creators'
  BY <1>12, <1>15 DEF PoolStep, FillPool, CreatePool, DrainPool, StopPool
<1>16. ASSUME Restart PROVE Creators'
  BY <1>16 DEF Restart, Creators
<1>17. ASSUME UNCHANGED vars PROVE Creators'
  BY <1>12, <1>17 DEF vars
<1> QED
  BY <1>1, <1>2, <1>3, <1>4, <1>5, <1>6, <1>7, <1>8, <1>9, <1>10, <1>11, <1>13, <1>14, <1>15,
     <1>16, <1>17 DEF Next, RunStep

\* No wake-up is lost: who waits for a container waits for a run that is
\* about to create it, and that wakes everyone when it leaves getContainer.
THEOREM NoLostWakeUp == Spec => []WaitersHaveCreator
<1>1. Init => Creators
  BY DEF Init, Creators
<1>2. PoolInv /\ Creators => WaitersHaveCreator
  BY DEF PoolInv, TypeInv, TypeOK, Placed, Creators, Creating, WaitersHaveCreator
<1> QED
  BY <1>1, <1>2, PoolInit, PoolStepInv, CreatorsStep, PTL DEF Spec

-----------------------------------------------------------------------------
(* Containers and the definitions they were set up for *)

\* From choosing a container until its run is over.
Active == {"reserve", "acquire", "setup", "add", "index", "conn", "run"}

\* The container of r is one from the pool that was never in the cache, and
\* that r caches or puts back.
Unshared(r) ==
  /\ isNew[r]
  /\ \/ pc[r] \in {"acquire", "setup", "add"}
     \/ pc[r] = "after" /\ err[r] \in {"missing", "semaphore"}

\* Runs work with, and are about to try, containers of their own definition
\* only.  To keep it so, a container that gets a new definition (it is in a
\* pool) or that others will find (it is unshared) is in nobody else's hands.
Possession ==
  /\ \A r \in Req : \A c \in cand[r] : cdef[c] = rdef[r]
  /\ \A r \in Req : pc[r] \in Active => cdef[rcont[r]] = rdef[r]
  /\ \A t \in Runtime : \A c \in pool[t] :
       /\ c \notin cache
       /\ \A r \in Req : c \notin cand[r] /\ (pc[r] \in Active => c # rcont[r])
  /\ \A r \in Req : Unshared(r) =>
       /\ rcont[r] \notin cache
       /\ \A q \in Req : rcont[r] \notin cand[q]
       /\ \A q \in Req : q # r /\ pc[q] \in Active => rcont[r] # rcont[q]
  /\ \A r \in Req : pc[r] \in InRun \cup {"idle"} => err[r] = "none"

\* A step that brings no container into a pool or into the cache, and in which
\* runs choose among what they looked up, if anything.
Keeps ==
  /\ cdef' = cdef /\ cache' \subseteq cache
  /\ \A t \in Runtime : pool'[t] \subseteq pool[t]
  /\ \A r \in Req : \/ cand'[r] \subseteq cand[r] /\ rdef'[r] = rdef[r]
                    \/ \A c \in cand'[r] : c \in cache /\ cdef[c] = rdef'[r]
  /\ \A r \in Req : pc'[r] \in Active =>
       /\ rdef'[r] = rdef[r]
       /\ rcont'[r] \in cand[r] \/ (pc[r] \in Active /\ rcont'[r] = rcont[r])
  /\ \A r \in Req : Unshared(r)' => Unshared(r) /\ rcont'[r] = rcont[r]
  /\ \A r \in Req : pc'[r] \in InRun \cup {"idle"} => err'[r] = "none"

LEMMA KeepsPossession == Possession /\ Keeps => Possession'
<1> SUFFICES ASSUME Possession, Keeps PROVE Possession'
  OBVIOUS
<1>1. \A r \in Req : \A c \in cand'[r] : cdef'[c] = rdef'[r]
  BY DEF Possession, Keeps
<1>2. \A r \in Req : pc'[r] \in Active => cdef'[rcont'[r]] = rdef'[r]
  BY DEF Possession, Keeps
<1>3. \A t \in Runtime : \A c \in pool'[t] :
        /\ c \notin cache'
        /\ \A r \in Req : c \notin cand'[r] /\ (pc'[r] \in Active => c # rcont'[r])
  BY DEF Possession, Keeps
<1>4. \A r \in Req : Unshared(r)' =>
        /\ rcont'[r] \notin cache'
        /\ \A q \in Req : rcont'[r] \notin cand'[q]
        /\ \A q \in Req : q # r /\ pc'[q] \in Active => rcont'[r] # rcont'[q]
  BY DEF Possession, Keeps
<1>5. \A r \in Req : pc'[r] \in InRun \cup {"idle"} => err'[r] = "none"
  BY DEF Keeps
<1> QED
  BY <1>1, <1>2, <1>3, <1>4, <1>5 DEF Possession

\* A container that nothing refers to comes into a pool.
LEMMA CreatePossession ==
  ASSUME TypeInv, Possession, NEW t \in Runtime, CreateFresh(t),
         UNCHANGED <<cache, rdef, rcont, cand, isNew, err>>,
         \A r \in Req : pc'[r] = pc[r] \/ (pc[r] = "recreate" /\ pc'[r] = "finish")
  PROVE  Possession'
<1>1. PICK c \in Cont : /\ Unused(c)
                        /\ cdef' = [cdef EXCEPT ![c] = None]
                        /\ pool' = [pool EXCEPT ![t] = @ \cup {c}]
  BY DEF CreateFresh
<1>2. c \notin cache /\ \A r \in Req : c # rcont[r] /\ c \notin cand[r]
  BY <1>1 DEF Unused
<1>3. \A b \in Cont : b # c => cdef'[b] = cdef[b]
  BY <1>1 DEF TypeInv, TypeOK
<1>4. \A r \in Req : Unshared(r)' => Unshared(r)
  BY DEF Unshared
<1>5. \A r \in Req : cand[r] \subseteq Cont /\ (pc[r] \in Active => rcont[r] \in Cont)
  BY DEF TypeInv, TypeOK, Placed, Active, WithContainer
<1>6. \A r \in Req : pc'[r] \in Active => pc[r] \in Active
  BY DEF Active
<1>7. \A u \in Runtime : \A b \in pool'[u] : b = c \/ b \in pool[u]
  BY <1>1 DEF TypeInv, TypeOK
<1>8. \A r \in Req : \A b \in cand'[r] : cdef'[b] = rdef'[r]
  BY <1>2, <1>3, <1>5 DEF Possession
<1>9. \A r \in Req : pc'[r] \in Active => cdef'[rcont'[r]] = rdef'[r]
  BY <1>2, <1>3, <1>5, <1>6 DEF Possession
<1>10. \A u \in Runtime : \A b \in pool'[u] :
         /\ b \notin cache'
         /\ \A r \in Req : b \notin cand'[r] /\ (pc'[r] \in Active => b # rcont'[r])
  BY <1>2, <1>6, <1>7 DEF Possession
<1>11. \A r \in Req : Unshared(r)' =>
         /\ rcont'[r] \notin cache'
         /\ \A q \in Req : rcont'[r] \notin cand'[q]
         /\ \A q \in Req : q # r /\ pc'[q] \in Active => rcont'[r] # rcont'[q]
  BY <1>4, <1>6 DEF Possession
<1>12. \A r \in Req : pc'[r] \in InRun \cup {"idle"} => err'[r] = "none"
  BY DEF Possession, InRun
<1> QED
  BY <1>8, <1>9, <1>10, <1>11, <1>12 DEF Possession

\* An unshared container goes back to the pool.
LEMMA PutBackPossession ==
  ASSUME TypeInv, Possession, NEW r \in Req, Unshared(r), pc[r] = "after",
         PutBack(r), Goto(r, "finish"),
         UNCHANGED <<cache, cdef, rdef, rcont, cand, isNew, err>>
  PROVE  Possession'
<1>1. \A t \in Runtime : \A c \in pool'[t] : c \in pool[t] \/ c = rcont[r]
  BY DEF PutBack, TypeInv, TypeOK
<1>2. pc' = [pc EXCEPT ![r] = "finish"]
  BY DEF Goto
<1>3. \A q \in Req : /\ pc'[q] \in Active => pc[q] \in Active /\ q # r
                     /\ Unshared(q)' => Unshared(q)
                     /\ pc'[q] \in InRun \cup {"idle"} => pc'[q] = pc[q]
  BY <1>2 DEF TypeInv, TypeOK, Unshared, Active, InRun
<1>4. \A t \in Runtime : \A c \in pool'[t] :
        /\ c \notin cache'
        /\ \A q \in Req : c \notin cand'[q] /\ (pc'[q] \in Active => c # rcont'[q])
  BY <1>1, <1>3 DEF Possession
<1> QED
  BY <1>3, <1>4 DEF Possession

LEMMA TakePossession ==
  ASSUME PoolInv, Possession, NEW r \in Req, Take(r)
  PROVE  Possession'
<1>0. TypeInv /\ Debts
  BY DEF PoolInv
<1>1. PICK c \in pool[DefRuntime[rdef[r]]] :
        /\ pool' = [pool EXCEPT ![DefRuntime[rdef[r]]] = @ \ {c}]
        /\ cdef' = [cdef EXCEPT ![c] = rdef[r]]
        /\ rcont' = [rcont EXCEPT ![r] = c]
        /\ IF Full(c, rdef[r]) \/ Reserved(r, c)
           THEN Fail(r, "other") /\ UNCHANGED <<conns, late>>
           ELSE Reserve(r, c, "setup") /\ UNCHANGED <<leader, err>>
  BY DEF Take
<1>2. /\ pc[r] = "take" /\ isNew' = [isNew EXCEPT ![r] = TRUE]
      /\ UNCHANGED <<cache, rdef, cand>>
  BY DEF Take
<1>3. PICK t \in Runtime : t = DefRuntime[rdef[r]] /\ c \in pool[t] /\ c \in Cont
  BY <1>0, <1>1, <1>2, RunnerAssumption DEF TypeInv, TypeOK, Placed
<1>4. /\ c \notin cache
      /\ \A q \in Req : c \notin cand[q] /\ (pc[q] \in Active => c # rcont[q])
  BY <1>3 DEF Possession
<1>5. /\ pc'[r] \in {"acquire", "setup", "after"}
      /\ \A q \in Req : q # r => /\ pc'[q] = pc[q] \/ (pc[q] = "wait" /\ pc'[q] = "woken")
                                 /\ err'[q] = err[q]
      /\ pc'[r] # "after" => err'[r] = err[r]
      /\ pc'[r] = "after" => err'[r] = "other"
  <2>1. CASE Full(c, rdef[r]) \/ Reserved(r, c)
    BY <1>0, <1>1, <1>2, <2>1, LeaveType DEF Fail, TypeInv, TypeOK, InAfterRun
  <2>2. CASE ~(Full(c, rdef[r]) \/ Reserved(r, c))
    BY <1>0, <1>1, <1>2, <2>2 DEF Reserve, Goto, TypeInv, TypeOK
  <2> QED
    BY <2>1, <2>2
<1>6. \A q \in Req : q # r => /\ rcont'[q] = rcont[q]
                              /\ pc'[q] \in Active <=> pc[q] \in Active
                              /\ Unshared(q)' <=> Unshared(q)
  BY <1>0, <1>1, <1>2, <1>5 DEF TypeInv, TypeOK, Unshared, Active
<1>7. cdef'[c] = rdef[r] /\ rcont'[r] = c /\ \A b \in Cont : b # c => cdef'[b] = cdef[b]
  BY <1>0, <1>1, <1>3 DEF TypeInv, TypeOK
<1>8. \A q \in Req : cand[q] \subseteq Cont /\ (pc[q] \in Active => rcont[q] \in Cont)
  BY <1>0 DEF TypeInv, TypeOK, Placed, Active, WithContainer
<1>9. \A u \in Runtime : c \notin pool'[u] /\ pool'[u] \subseteq pool[u]
  BY <1>0, <1>1, <1>3 DEF Debts, TypeInv, TypeOK
<1>10. \A q \in Req : \A b \in cand'[q] : cdef'[b] = rdef'[q]
  BY <1>2, <1>4, <1>7, <1>8 DEF Possession
<1>11. \A q \in Req : pc'[q] \in Active => cdef'[rcont'[q]] = rdef'[q]
  BY <1>2, <1>4, <1>6, <1>7, <1>8 DEF Possession
<1>12. \A u \in Runtime : \A b \in pool'[u] :
         /\ b \notin cache'
         /\ \A q \in Req : b \notin cand'[q] /\ (pc'[q] \in Active => b # rcont'[q])
  BY <1>2, <1>6, <1>7, <1>9 DEF Possession
<1>13. \A p \in Req : Unshared(p)' =>
         /\ rcont'[p] \notin cache'
         /\ \A q \in Req : rcont'[p] \notin cand'[q]
         /\ \A q \in Req : q # p /\ pc'[q] \in Active => rcont'[p] # rcont'[q]
  <2>1. ASSUME NEW p \in Req, p # r, Unshared(p) PROVE rcont[p] # c
    BY <1>0, <1>3, <2>1 DEF Debts, Unshared, Debtor, OwesAt, InRun
  <2> QED
    BY <1>2, <1>4, <1>6, <1>7, <2>1 DEF Possession
<1>14. \A q \in Req : pc'[q] \in InRun \cup {"idle"} => err'[q] = "none"
  BY <1>0, <1>2, <1>5 DEF Possession, InRun
<1> QED
  BY <1>10, <1>11, <1>12, <1>13, <1>14 DEF Possession

LEMMA AddPossession ==
  ASSUME PoolInv, Possession, NEW r \in Req, AddToCache(r)
  PROVE  Possession'
<1>0. TypeInv /\ Debts
  BY DEF PoolInv
<1>1. /\ pc[r] = "add" /\ isNew[r] /\ pc' = [pc EXCEPT ![r] = "index"]
      /\ \A c \in cache' : c \in cache \/ c = rcont[r]
      /\ UNCHANGED <<pool, cdef, rdef, rcont, cand, isNew, err>>
  BY <1>0 DEF AddToCache, Goto, Debts
<1>2. Unshared(r) /\ Debtor(r)
  BY <1>1 DEF Unshared, Debtor, OwesAt, InRun
<1>3. \A q \in Req : /\ pc'[q] \in Active => pc[q] \in Active
                     /\ Unshared(q)' => Unshared(q) /\ q # r
                     /\ pc'[q] \in InRun \cup {"idle"} => pc[q] \in InRun \cup {"idle"}
  BY <1>0, <1>1 DEF TypeInv, TypeOK, Unshared, Active, InRun
<1>4. \A t \in Runtime : rcont[r] \notin pool[t]
  BY <1>0, <1>2 DEF Debts
<1>5. \A q \in Req : Unshared(q)' => rcont[q] # rcont[r]
  BY <1>1, <1>3 DEF Possession, Active
<1> QED
  BY <1>1, <1>3, <1>4, <1>5 DEF Possession

\* A step of r alone that takes no container.
LEMMA RunKeeps ==
  ASSUME TypeInv, Possession, NEW r \in Req, cdef' = cdef, cache' \subseteq cache, pool' = pool,
         \A q \in Req : q # r => /\ pc'[q] = pc[q] \/ (pc[q] = "wait" /\ pc'[q] = "woken")
                                 /\ rdef'[q] = rdef[q] /\ rcont'[q] = rcont[q]
                                 /\ cand'[q] = cand[q] /\ err'[q] = err[q]
                                 /\ isNew'[q] = isNew[q],
         \/ cand'[r] \subseteq cand[r] /\ rdef'[r] = rdef[r]
         \/ \A c \in cand'[r] : c \in cache /\ cdef[c] = rdef'[r],
         pc'[r] \in Active =>
           /\ rdef'[r] = rdef[r]
           /\ rcont'[r] \in cand[r] \/ (pc[r] \in Active /\ rcont'[r] = rcont[r]),
         Unshared(r)' => Unshared(r) /\ rcont'[r] = rcont[r],
         pc'[r] \in InRun \cup {"idle"} => err'[r] = "none"
  PROVE  Possession'
<1>1. \A q \in Req : q # r => /\ pc'[q] \in Active <=> pc[q] \in Active
                              /\ Unshared(q)' <=> Unshared(q)
                              /\ pc'[q] \in InRun \cup {"idle"} => pc[q] \in InRun \cup {"idle"}
  BY DEF Active, Unshared, InRun
<1>2. \A q \in Req : pc'[q] \in InRun \cup {"idle"} => err'[q] = "none"
  BY <1>1 DEF Possession
<1>3. Keeps
  BY <1>1, <1>2 DEF Keeps
<1> QED
  BY <1>3, KeepsPossession

LEMMA PossessionStep == PoolInv /\ Possession /\ [Next]_vars => Possession'
<1> SUFFICES ASSUME PoolInv, Possession, [Next]_vars PROVE Possession'
  OBVIOUS
<1>0. TypeInv /\ Debts
  BY DEF PoolInv
<1>a. \A r \in Req : pc[r] \in InRun \cup {"idle"} => err[r] = "none"
  BY DEF Possession
<1> USE DEF TypeInv, TypeOK, contVars, reqVars
<1>1. ASSUME NEW r \in Req, NEW d \in Def, Start(r, d) PROVE Possession'
  BY <1>0, <1>1, <1>a, RunKeeps DEF Start, Lookup, Goto, Active, Unshared, InRun
<1>2. ASSUME NEW r \in Req, LookupAgain(r) PROVE Possession'
  BY <1>0, <1>2, <1>a, RunKeeps DEF LookupAgain, Lookup, Goto, Active, Unshared, InRun
<1>3. ASSUME NEW r \in Req, TryCached(r) PROVE Possession'
  BY <1>0, <1>3, <1>a, RunKeeps DEF TryCached, Goto, Active, Unshared, InRun
<1>4. ASSUME NEW r \in Req, Miss(r) PROVE Possession'
  BY <1>0, <1>4, <1>a, RunKeeps DEF Miss, Goto, Active, Unshared, InRun
<1>5. ASSUME NEW r \in Req, Take(r) PROVE Possession'
  BY <1>5, TakePossession
<1>6. ASSUME NEW r \in Req, ReserveCached(r) PROVE Possession'
  <2>1. /\ pc[r] = "reserve" /\ ~isNew[r]
        /\ UNCHANGED <<pool, cache, cdef, rdef, rcont, cand, isNew>>
    BY <1>0, <1>6 DEF ReserveCached, Debts
  <2>2. ASSUME NEW label \in {"try", "acquire", "conn"}, Goto(r, label), UNCHANGED err
        PROVE  Possession'
    BY <1>0, <1>a, <2>1, <2>2, RunKeeps DEF Goto, Active, Unshared, InRun
  <2>3. CASE Fail(r, "other")
    BY <1>0, <1>a, <2>1, <2>3, RunKeeps, LeaveType
    DEF Fail, Active, Unshared, InRun, InAfterRun
  <2> QED
    BY <1>6, <2>2, <2>3 DEF ReserveCached, Reserve, ReserveError
<1>f. ASSUME NEW r \in Req, NEW e \in Errors, pc[r] \in {"acquire", "setup"}, Fail(r, e),
             e \in {"missing", "semaphore"} => Unshared(r),
             UNCHANGED <<pool, cache, cdef, rdef, rcont, cand, isNew>>
      PROVE  Possession'
  BY <1>0, <1>a, <1>f, RunKeeps, LeaveType DEF Fail, Active, Unshared, InRun, InAfterRun
<1>g. ASSUME NEW r \in Req, NEW label, pc[r] \in Active \cup InAfterRun,
             pc' = [pc EXCEPT ![r] = label],
             label \in InRun \cup {"idle"} => err'[r] = "none",
             label \in Active => pc[r] \in Active,
             Unshared(r)' => Unshared(r),
             \A q \in Req : q # r => err'[q] = err[q],
             UNCHANGED <<pool, cdef, rdef, rcont, cand, isNew>>, cache' \subseteq cache
      PROVE  Possession'
  BY <1>0, <1>a, <1>g, RunKeeps
<1>7. ASSUME NEW r \in Req, Acquire(r) PROVE Possession'
  <2>1. pc[r] = "acquire" /\ UNCHANGED <<pool, cache, cdef, rdef, rcont, cand, isNew>>
    BY <1>7 DEF Acquire
  <2>2. CASE Goto(r, IF isNew[r] THEN "setup" ELSE "conn") /\ UNCHANGED <<leader, err>>
    BY <1>0, <1>a, <1>g, <2>1, <2>2 DEF Goto, Active, Unshared, InRun
  <2>3. CASE ~isNew[r] /\ Goto(r, "try") /\ UNCHANGED <<leader, err>>
    BY <1>0, <1>a, <1>g, <2>1, <2>3 DEF Goto, Active, Unshared, InRun
  <2>4. ASSUME NEW e \in {"semaphore", "other"}, Fail(r, e) PROVE Possession'
    <3>1. CASE isNew[r]
      BY <1>f, <2>1, <2>4, <3>1 DEF Unshared, Errors
    <3>2. CASE ~isNew[r]
      BY <1>0, <1>a, <2>1, <2>4, <3>2, RunKeeps, LeaveType
      DEF Fail, Active, Unshared, InRun, InAfterRun
    <3> QED
      BY <3>1, <3>2
  <2> QED
    BY <1>7, <2>2, <2>3, <2>4 DEF Acquire, ReserveError
<1>8. ASSUME NEW r \in Req, SetUp(r) PROVE Possession'
  <2>1. /\ pc[r] = "setup" /\ isNew[r] /\ Unshared(r)
        /\ UNCHANGED <<pool, cache, cdef, rdef, rcont, cand, isNew>>
    BY <1>0, <1>8 DEF SetUp, Debts, Unshared
  <2>2. CASE Goto(r, "add") /\ UNCHANGED <<leader, err>>
    BY <1>0, <1>a, <1>g, <2>1, <2>2 DEF Goto, Active, Unshared, InRun
  <2>3. ASSUME NEW e \in {"missing", "other"}, Fail(r, e) PROVE Possession'
    BY <1>f, <2>1, <2>3 DEF Errors
  <2> QED
    BY <1>8, <2>2, <2>3 DEF SetUp
<1>9. ASSUME NEW r \in Req, AddToCache(r) PROVE Possession'
  BY <1>9, AddPossession
<1>10. ASSUME NEW r \in Req, AddToIndex(r) PROVE Possession'
  BY <1>0, <1>10, <1>a, RunKeeps, LeaveType DEF AddToIndex, Active, Unshared, InRun, InAfterRun
<1>11. ASSUME NEW r \in Req, Conn(r) PROVE Possession'
  BY <1>0, <1>11, <1>a, RunKeeps DEF Conn, Crash, Goto, Active, Unshared, InRun
<1>12. ASSUME NEW r \in Req, RunScript(r) PROVE Possession'
  BY <1>0, <1>12, <1>a, RunKeeps DEF RunScript, Goto, Active, Unshared, InRun, Errors
<1>13. ASSUME NEW r \in Req, ReturnMissing(r) PROVE Possession'
  <2>1. Unshared(r) /\ pc[r] = "after" /\ UNCHANGED <<cache, cdef, rdef, rcont, cand, isNew>>
    BY <1>0, <1>13 DEF ReturnMissing, Debts, Unshared
  <2>2. CASE PutBack(r) /\ Goto(r, "finish") /\ UNCHANGED err
    BY <1>0, <2>1, <2>2, PutBackPossession
  <2>3. CASE err' = [err EXCEPT ![r] = "other"] /\ UNCHANGED <<pool, pc>>
    BY <1>0, <1>a, <2>1, <2>3, RunKeeps DEF Active, Unshared, InRun
  <2> QED
    BY <1>13, <2>2, <2>3 DEF ReturnMissing
<1>14. ASSUME NEW r \in Req, ReturnUnacquired(r) PROVE Possession'
  BY <1>0, <1>14, PutBackPossession DEF ReturnUnacquired, Unshared
<1>15. ASSUME NEW r \in Req, Release(r) PROVE Possession'
  <2>1. /\ pc[r] = "after" /\ ~Unshared(r) /\ err' \in {err, [err EXCEPT ![r] = "other"]}
        /\ UNCHANGED <<pool, cache, cdef, rdef, rcont, cand, isNew>>
    BY <1>0, <1>15 DEF Release, Unshared, Crash, Debts
  <2>2. \/ pc' = pc /\ err' = err
        \/ \E label \in {"delete", "recreate", "finish"} : pc' = [pc EXCEPT ![r] = label]
    BY <1>15 DEF Release, Crash, Goto, AfterRelease
  <2> QED
    BY <1>0, <1>a, <2>1, <2>2, RunKeeps DEF Active, Unshared, InRun
<1>16. ASSUME NEW r \in Req, Delete(r) PROVE Possession'
  BY <1>0, <1>16, <1>a, RunKeeps DEF Delete, CacheDelete, Goto, Active, Unshared, InRun
<1>17. ASSUME NEW r \in Req, StopAccepting(r) PROVE Possession'
  BY <1>0, <1>17, <1>a, RunKeeps DEF StopAccepting, AfterRelease, Goto, Active, Unshared, InRun
<1>18. ASSUME NEW r \in Req, Recreate(r) PROVE Possession'
  <2>1. pc[r] = "recreate" /\ UNCHANGED <<cache, rdef, rcont, cand, isNew, err>>
    BY <1>18 DEF Recreate
  <2>2. CASE CreateFresh(DefRuntime[rdef[r]]) /\ Goto(r, "finish")
    BY <1>0, <2>1, <2>2, CreatePossession, RunnerAssumption DEF Goto, Placed
  <2>3. CASE UNCHANGED <<pool, st, cdef, conns, pc>>
    BY <1>0, <1>a, <2>1, <2>3, RunKeeps DEF Active, Unshared
  <2> QED
    BY <1>18, <2>2, <2>3 DEF Recreate
<1>c. ASSUME NEW r \in Req, pc[r] \in {"finish", "cleanup", "memory"}, CheckMemory(r),
             UNCHANGED <<pool, cdef>>
      PROVE  Possession'
  <2>1. CASE Done(r)
    BY <1>0, <1>a, <1>c, <2>1, RunKeeps DEF Done, Goto, Active, Unshared, InRun
  <2>2. CASE UNCHANGED <<cache, reqVars>>
    BY <1>0, <1>a, <1>c, <2>2, RunKeeps DEF Active, Unshared
  <2>3. ASSUME NEW c \in cache, CacheDelete(c), Goto(r, "memory"),
               UNCHANGED <<phase, rdef, rcont, cand, isNew, err, late>>
        PROVE  Possession'
    BY <1>0, <1>a, <1>c, <2>3, RunKeeps DEF CacheDelete, Goto, Active, Unshared, InRun
  <2> QED
    BY <1>c, <2>1, <2>2, <2>3 DEF CheckMemory
<1>19. ASSUME NEW r \in Req, Finish(r) PROVE Possession'
  <2>1. CASE Disposable(rcont[r])
    BY <1>0, <1>19, <1>a, <2>1, RunKeeps DEF Finish, Goto, Active, Unshared, InRun
  <2>2. CASE ~Disposable(rcont[r])
    BY <1>c, <1>19, <2>2 DEF Finish
  <2> QED
    BY <2>1, <2>2
<1>20. ASSUME NEW r \in Req, CleanUpAfterRun(r) PROVE Possession'
  BY <1>c, <1>20 DEF CleanUpAfterRun
<1>21. ASSUME NEW r \in Req, CheckMemoryAgain(r) PROVE Possession'
  BY <1>c, <1>21 DEF CheckMemoryAgain
<1>s. ASSUME cdef' = cdef, cache' \subseteq cache, \A t \in Runtime : pool'[t] \subseteq pool[t],
             UNCHANGED reqVars
      PROVE  Possession'
  <2>1. Keeps
    BY <1>a, <1>s DEF Keeps, Unshared
  <2> QED
    BY <2>1, KeepsPossession
<1>22. ASSUME NEW c \in Cont, EvictStep(c) \/ Expire(c) \/ StreamError(c) \/ DeleteDoomed(c)
       PROVE  Possession'
  BY <1>s, <1>22
  DEF EvictStep, EvictStopAccepting, EvictCountConns, EvictCleanUp, EvictDropIndex, Expire, StreamError,
      DeleteDoomed, DeleteContainer, CacheDelete
<1>23. ASSUME NEW i \in Index, DeleteIndex(i) PROVE Possession'
  BY <1>s, <1>23 DEF DeleteIndex
<1>24. ASSUME NEW t \in Runtime, FillPool(t) PROVE Possession'
  <2>1. CASE CreateFresh(t)
    BY <1>0, <1>24, <2>1, CreatePossession DEF FillPool
  <2>2. CASE UNCHANGED <<pool, st, cdef, conns>>
    BY <1>s, <1>24, <2>2 DEF FillPool
  <2> QED
    BY <1>24, <2>1, <2>2 DEF FillPool
<1>25. ASSUME CreatePool \/ StopPool PROVE Possession'
  BY <1>s, <1>25 DEF CreatePool, StopPool
<1>26. ASSUME DrainPool PROVE Possession'
  BY <1>s, <1>26 DEF DrainPool, Flush
<1>27. ASSUME Restart PROVE Possession'
  BY <1>27 DEF Restart, Possession, Unshared, Active
<1>28. ASSUME UNCHANGED vars PROVE Possession'
  BY <1>s, <1>28 DEF vars
<1> QED
  BY <1>1, <1>2, <1>3, <1>4, <1>5, <1>6, <1>7, <1>8, <1>9, <1>10, <1>11, <1>12, <1>13, <1>14,
     <1>15, <1>16, <1>17, <1>18, <1>19, <1>20, <1>21, <1>22, <1>23, <1>24, <1>25, <1>26, <1>27,
     <1>28 DEF Next, RunStep, AfterRunStep, PoolStep

\* No run works in a container that was set up for another definition,
\* however containers are cached, evicted, put back and taken again.
THEOREM RunsIsolated == Spec => []Isolated
<1>1. Init => Possession
  BY DEF Init, Possession, Active, Unshared
<1>2. Possession => Isolated
  BY DEF Possession, Isolated, Users, Active
<1> QED
  BY <1>1, <1>2, PoolInit, PoolStepInv, PossessionStep, PTL DEF Spec

-----------------------------------------------------------------------------
(* Connections *)

\* From reserving a connection until the run is over.
Linked == {"acquire", "setup", "add", "index", "conn", "run"}

\* A run keeps its connection, and its container has no more of them than
\* Configure allowed.
WithinLimit ==
  \A r \in Req : pc[r] \in Linked =>
    /\ r \in conns[rcont[r]]
    /\ Cardinality(conns[rcont[r]]) <= ConnLimit(rdef[r])

LEMMA ConnsFinite ==
  ASSUME TypeInv, NEW c \in Cont
  PROVE  IsFiniteSet(conns[c]) /\ Cardinality(conns[c]) \in Nat
<1>1. conns[c] \subseteq Req
  BY DEF TypeInv, TypeOK
<1> QED
  BY <1>1, FS_Subset, FS_CardinalityType, RunnerAssumption

LEMMA LimitType == ASSUME NEW d \in Def PROVE ConnLimit(d) \in Nat \ {0}
  BY RunnerAssumption DEF ConnLimit

\* A step in which no one reserves a connection, and those who have one and go
\* on working keep theirs.
LEMMA SameLinks ==
  ASSUME WithinLimit, conns' = conns,
         \A r \in Req : pc'[r] \in Linked =>
           pc[r] \in Linked /\ rcont'[r] = rcont[r] /\ rdef'[r] = rdef[r]
  PROVE  WithinLimit'
  BY DEF WithinLimit, ConnLimit

\* Reserve: there was room for one more connection, and the other users of the
\* container work under the same limit.
LEMMA ReserveWithinLimit ==
  ASSUME TypeInv, TypeInv', Possession, WithinLimit, NEW r \in Req, NEW c \in Cont,
         NEW next \in {"setup", "conn"}, Reserve(r, c, next), ~Full(c, rdef[r]),
         rdef[r] \in Def, rcont'[r] = c, rdef' = rdef,
         \A q \in Req : q # r => rcont'[q] = rcont[q],
         \A q \in Req : q # r /\ pc[q] \in Active /\ rcont[q] = c => rdef[q] = rdef[r]
  PROVE  WithinLimit'
<1>1. /\ conns'[c] = conns[c] \cup {r}
      /\ \A b \in Cont : b # c => conns'[b] = conns[b]
  BY DEF Reserve, TypeInv, TypeOK
<1>2. Cardinality(conns'[c]) <= ConnLimit(rdef[r])
  <2>1. Cardinality(conns[c]) < ConnLimit(rdef[r])
    BY ConnsFinite, LimitType DEF Full
  <2>2. CASE r \in conns[c]
    <3>1. conns'[c] = conns[c]
      BY <1>1, <2>2
    <3> QED
      BY <2>1, <3>1, ConnsFinite, LimitType
  <2>3. CASE r \notin conns[c]
    <3>1. IsFiniteSet(conns[c])
      BY ConnsFinite
    <3>2. Cardinality(conns[c] \cup {r}) = Cardinality(conns[c]) + 1
      BY <2>3, <3>1, FS_AddElement
    <3> QED
      BY <1>1, <2>1, <3>2, ConnsFinite, LimitType
  <2> QED
    BY <2>2, <2>3
<1>3. \A q \in Req : q # r => pc'[q] = pc[q]
  BY DEF Reserve, Goto, TypeInv, TypeOK
<1>4. ASSUME NEW q \in Req, pc'[q] \in Linked
      PROVE  q \in conns'[rcont'[q]] /\ Cardinality(conns'[rcont'[q]]) <= ConnLimit(rdef[q])
  <2>1. CASE q = r
    BY <1>1, <1>2, <2>1
  <2>2. CASE q # r
    <3>1. pc[q] \in Linked /\ rcont'[q] = rcont[q] /\ rcont[q] \in Cont
      BY <1>3, <1>4, <2>2 DEF TypeInv, Placed, Linked, WithContainer
    <3>2. CASE rcont[q] = c
      BY <1>1, <1>2, <2>2, <3>1, <3>2 DEF WithinLimit, Linked, Active
    <3>3. CASE rcont[q] # c
      BY <1>1, <3>1, <3>3 DEF WithinLimit
    <3> QED
      BY <3>2, <3>3
  <2> QED
    BY <2>1, <2>2
<1> QED
  BY <1>4 DEF WithinLimit, ConnLimit

\* Release: the others keep their connections.
LEMMA DisconnectWithinLimit ==
  ASSUME TypeInv, WithinLimit, NEW r \in Req, pc[r] = "after", Disconnect(r),
         UNCHANGED <<rcont, rdef>>,
         \A q \in Req : pc'[q] \in Linked => pc[q] \in Linked
  PROVE  WithinLimit'
<1>1. rcont[r] \in Cont
  BY DEF TypeInv, Placed, WithContainer, InAfterRun
<1>2. ASSUME NEW q \in Req, pc'[q] \in Linked
      PROVE  q \in conns'[rcont'[q]] /\ Cardinality(conns'[rcont'[q]]) <= ConnLimit(rdef[q])
  <2>1. pc[q] \in Linked /\ q # r
    BY <1>2 DEF Linked
  <2>2. q \in conns[rcont[q]] /\ Cardinality(conns[rcont[q]]) <= ConnLimit(rdef[q])
    BY <2>1 DEF WithinLimit
  <2>3. rcont[q] \in Cont /\ rdef[q] \in Def
    BY <2>1 DEF TypeInv, Placed, Linked, WithContainer
  <2>4. /\ conns'[rcont[q]] \subseteq conns[rcont[q]]
        /\ q \in conns'[rcont[q]]
    BY <2>1, <2>2, <2>3 DEF Disconnect, TypeInv, TypeOK
  <2>5. Cardinality(conns'[rcont[q]]) <= Cardinality(conns[rcont[q]])
        /\ Cardinality(conns'[rcont[q]]) \in Nat
    BY <2>3, <2>4, FS_Subset, FS_CardinalityType, ConnsFinite
  <2> QED
    BY <2>2, <2>3, <2>4, <2>5, ConnsFinite, LimitType
<1> QED
  BY <1>2 DEF WithinLimit, ConnLimit

LEMMA CreateWithinLimit ==
  ASSUME TypeInv, WithinLimit, NEW t \in Runtime, CreateFresh(t), UNCHANGED <<rcont, rdef>>,
         \A q \in Req : pc'[q] \in Linked => pc[q] \in Linked
  PROVE  WithinLimit'
<1>1. PICK c \in Cont : Unused(c) /\ conns' = [conns EXCEPT ![c] = {}]
  BY DEF CreateFresh
<1>2. \A q \in Req : rcont[q] # c
  BY <1>1 DEF Unused
<1>3. \A q \in Req : pc'[q] \in Linked => conns'[rcont[q]] = conns[rcont[q]]
  BY <1>1, <1>2 DEF TypeInv, TypeOK, Placed, Linked, WithContainer
<1> QED
  BY <1>3 DEF WithinLimit, ConnLimit

LEMMA WithinLimitStep == PoolInv /\ Possession /\ WithinLimit /\ [Next]_vars => WithinLimit'
<1> SUFFICES ASSUME PoolInv, Possession, WithinLimit, [Next]_vars PROVE WithinLimit'
  OBVIOUS
<1>0. TypeInv /\ TypeInv' /\ Debts
  BY TypeStep DEF PoolInv
<1> USE DEF contVars, reqVars
<1>g. ASSUME NEW r \in Req, NEW label, pc' = [pc EXCEPT ![r] = label],
             label \in Linked => pc[r] \in Linked /\ rcont'[r] = rcont[r] /\ rdef'[r] = rdef[r],
             \A q \in Req : q # r => rcont'[q] = rcont[q] /\ rdef'[q] = rdef[q],
             conns' = conns
      PROVE  WithinLimit'
  BY <1>0, <1>g, SameLinks DEF TypeInv, TypeOK
<1>l. ASSUME NEW r \in Req, NEW label \in InRun \cup InAfterRun, pc[r] \in Linked, Leave(r, label),
             UNCHANGED <<rcont, rdef, conns>>
      PROVE  WithinLimit'
  BY <1>0, <1>l, SameLinks, LeaveType DEF Linked
<1>1. ASSUME NEW r \in Req, NEW d \in Def, Start(r, d) PROVE WithinLimit'
  BY <1>0, <1>1, <1>g DEF Start, Lookup, Goto, Linked, TypeInv, TypeOK
<1>2. ASSUME NEW r \in Req, LookupAgain(r) PROVE WithinLimit'
  BY <1>2, <1>g DEF LookupAgain, Lookup, Goto, Linked
<1>3. ASSUME NEW r \in Req, TryCached(r) PROVE WithinLimit'
  BY <1>0, <1>3, <1>g DEF TryCached, Goto, Linked, TypeInv, TypeOK
<1>4. ASSUME NEW r \in Req, Miss(r) PROVE WithinLimit'
  <2>1. PICK label \in {"take", "wait"} : pc' = [pc EXCEPT ![r] = label]
    BY <1>4 DEF Miss, Goto
  <2> QED
    BY <1>0, <1>4, <1>g, <2>1 DEF Miss, Linked, TypeInv, TypeOK
<1>5. ASSUME NEW r \in Req, Take(r) PROVE WithinLimit'
  <2>1. PICK c \in pool[DefRuntime[rdef[r]]] :
          /\ rcont' = [rcont EXCEPT ![r] = c]
          /\ IF Full(c, rdef[r]) \/ Reserved(r, c)
             THEN Fail(r, "other") /\ UNCHANGED <<conns, late>>
             ELSE Reserve(r, c, "setup") /\ UNCHANGED <<leader, err>>
    BY <1>5 DEF Take
  <2>2. pc[r] = "take" /\ UNCHANGED rdef
    BY <1>5 DEF Take
  <2>3. rdef[r] \in Def /\ DefRuntime[rdef[r]] \in Runtime /\ c \in Cont
    BY <1>0, <2>1, <2>2, RunnerAssumption DEF TypeInv, TypeOK, Placed
  <2>4. rcont'[r] = c /\ \A q \in Req : q # r => rcont'[q] = rcont[q]
    BY <1>0, <2>1 DEF TypeInv, TypeOK
  <2>5. CASE Full(c, rdef[r]) \/ Reserved(r, c)
    <3>1. /\ pc'[r] = "after"
          /\ \A q \in Req : q # r => pc'[q] = pc[q] \/ (pc[q] = "wait" /\ pc'[q] = "woken")
      BY <1>0, <2>1, <2>2, <2>5, LeaveType DEF Fail, InAfterRun
    <3> QED
      BY <2>1, <2>2, <2>4, <2>5, <3>1, SameLinks DEF Linked
  <2>6. CASE ~(Full(c, rdef[r]) \/ Reserved(r, c))
    <3>1. \A q \in Req : pc[q] \in Active => rcont[q] # c
      BY <2>1, <2>3 DEF Possession
    <3> QED
      BY <1>0, <2>1, <2>2, <2>3, <2>4, <2>6, <3>1, ReserveWithinLimit
  <2> QED
    BY <2>5, <2>6
<1>6. ASSUME NEW r \in Req, ReserveCached(r) PROVE WithinLimit'
  <2>1. pc[r] = "reserve" /\ UNCHANGED <<rdef, rcont>>
    BY <1>6 DEF ReserveCached
  <2>2. PICK c \in Cont : c = rcont[r] /\ cdef[c] = rdef[r] /\ rdef[r] \in Def
    BY <1>0, <2>1 DEF TypeInv, Placed, WithContainer, Possession, Active
  <2>3. CASE Goto(r, "try") /\ UNCHANGED conns
    BY <1>g, <2>1, <2>3 DEF Goto, Linked
  <2>4. CASE Fail(r, "other") /\ UNCHANGED conns
    <3>1. /\ pc'[r] = "after"
          /\ \A q \in Req : q # r => pc'[q] = pc[q] \/ (pc[q] = "wait" /\ pc'[q] = "woken")
      BY <1>0, <2>1, <2>4, LeaveType DEF Fail, InAfterRun
    <3> QED
      BY <2>1, <2>4, <3>1, SameLinks DEF Linked
  <2>5. CASE ~Full(c, rdef[r]) /\ Reserve(r, c, "conn")
    <3>1. \A q \in Req : q # r /\ pc[q] \in Active /\ rcont[q] = c => rdef[q] = rdef[r]
      BY <2>2 DEF Possession
    <3> QED
      BY <1>0, <2>1, <2>2, <2>5, <3>1, ReserveWithinLimit
  <2> QED
    BY <1>6, <2>2, <2>3, <2>4, <2>5 DEF ReserveCached, ReserveError
<1>7. ASSUME NEW r \in Req, Acquire(r) PROVE WithinLimit'
  <2>1. pc[r] = "acquire" /\ UNCHANGED <<conns, rdef, rcont>>
    BY <1>7 DEF Acquire
  <2>2. CASE \E label \in {"setup", "conn", "try"} : Goto(r, label)
    BY <1>g, <2>1, <2>2 DEF Goto, Linked
  <2>3. CASE Leave(r, "after")
    BY <1>l, <2>1, <2>3 DEF Linked, InAfterRun
  <2> QED
    BY <1>7, <2>2, <2>3 DEF Acquire, ReserveError, Fail
<1>8. ASSUME NEW r \in Req, SetUp(r) PROVE WithinLimit'
  <2>1. pc[r] = "setup" /\ UNCHANGED <<conns, rdef, rcont>>
    BY <1>8 DEF SetUp
  <2>2. CASE Goto(r, "add")
    BY <1>g, <2>1, <2>2 DEF Goto, Linked
  <2>3. CASE Leave(r, "after")
    BY <1>l, <2>1, <2>3 DEF Linked, InAfterRun
  <2> QED
    BY <1>8, <2>2, <2>3 DEF SetUp, Fail
<1>9. ASSUME NEW r \in Req, AddToCache(r) PROVE WithinLimit'
  BY <1>9, <1>g DEF AddToCache, Goto, Linked
<1>10. ASSUME NEW r \in Req, AddToIndex(r) PROVE WithinLimit'
  BY <1>10, <1>l DEF AddToIndex, Linked, InRun
<1>11. ASSUME NEW r \in Req, Conn(r) PROVE WithinLimit'
  <2>1. pc[r] = "conn" /\ UNCHANGED <<conns, rcont, rdef>> /\ (Goto(r, "run") \/ UNCHANGED pc)
    BY <1>11 DEF Conn
  <2> QED
    BY <1>g, <2>1, SameLinks DEF Goto, Linked
<1>12. ASSUME NEW r \in Req, RunScript(r) PROVE WithinLimit'
  BY <1>12, <1>g DEF RunScript, Goto, Linked
<1>13. ASSUME NEW r \in Req, ReturnMissing(r) PROVE WithinLimit'
  <2>1. UNCHANGED <<conns, rcont, rdef>> /\ (Goto(r, "finish") \/ UNCHANGED pc)
    BY <1>13 DEF ReturnMissing
  <2> QED
    BY <1>g, <2>1, SameLinks DEF Goto, Linked
<1>d. ASSUME NEW r \in Req, NEW label \in InAfterRun, pc[r] = "after", Disconnect(r),
             pc' = pc \/ pc' = [pc EXCEPT ![r] = label], UNCHANGED <<rcont, rdef>>
      PROVE  WithinLimit'
  <2>1. \A q \in Req : pc'[q] \in Linked => pc[q] \in Linked
    BY <1>0, <1>d DEF TypeInv, TypeOK, Linked, InAfterRun
  <2> QED
    BY <1>0, <1>d, <2>1, DisconnectWithinLimit
<1>14. ASSUME NEW r \in Req, ReturnUnacquired(r) PROVE WithinLimit'
  BY <1>14, <1>d DEF ReturnUnacquired, Goto, InAfterRun
<1>15. ASSUME NEW r \in Req, Release(r) PROVE WithinLimit'
  <2>1. /\ pc[r] = "after" /\ Disconnect(r) /\ UNCHANGED <<rcont, rdef>>
        /\ pc' = pc \/ \E label \in InAfterRun : pc' = [pc EXCEPT ![r] = label]
    BY <1>15 DEF Release, Goto, AfterRelease, InAfterRun
  <2> QED
    BY <1>d, <2>1 DEF InAfterRun
<1>16. ASSUME NEW r \in Req, Delete(r) PROVE WithinLimit'
  BY <1>16, <1>g DEF Delete, Goto, Linked
<1>17. ASSUME NEW r \in Req, StopAccepting(r) PROVE WithinLimit'
  BY <1>17, <1>g DEF StopAccepting, AfterRelease, Goto, Linked
<1>18. ASSUME NEW r \in Req, Recreate(r) PROVE WithinLimit'
  <2>1. pc[r] = "recreate" /\ UNCHANGED <<rdef, rcont>>
    BY <1>18 DEF Recreate
  <2>2. CASE CreateFresh(DefRuntime[rdef[r]]) /\ Goto(r, "finish")
    <3>1. \A q \in Req : pc'[q] \in Linked => pc[q] \in Linked
      BY <1>0, <2>1, <2>2 DEF Goto, TypeInv, TypeOK, Linked
    <3> QED
      BY <1>0, <2>1, <2>2, <3>1, CreateWithinLimit, RunnerAssumption DEF TypeInv, Placed
  <2>3. CASE UNCHANGED <<pool, st, cdef, conns, pc>>
    BY <2>1, <2>3, SameLinks
  <2> QED
    BY <1>18, <2>2, <2>3 DEF Recreate
<1>c. ASSUME NEW r \in Req, pc[r] \in {"finish", "cleanup", "memory"}, CheckMemory(r), UNCHANGED conns
      PROVE  WithinLimit'
  <2>1. CASE Done(r)
    BY <1>0, <1>c, <1>g, <2>1 DEF Done, Goto, Linked, TypeInv, TypeOK
  <2>2. CASE UNCHANGED reqVars
    BY <1>c, <2>2, SameLinks
  <2>3. CASE Goto(r, "memory") /\ UNCHANGED <<rdef, rcont>>
    BY <1>c, <1>g, <2>3 DEF Goto, Linked
  <2> QED
    BY <1>c, <2>1, <2>2, <2>3 DEF CheckMemory
<1>19. ASSUME NEW r \in Req, Finish(r) PROVE WithinLimit'
  <2>1. CASE Disposable(rcont[r])
    BY <1>19, <1>g, <2>1 DEF Finish, Goto, Linked
  <2>2. CASE ~Disposable(rcont[r])
    BY <1>c, <1>19, <2>2 DEF Finish
  <2> QED
    BY <2>1, <2>2
<1>20. ASSUME NEW r \in Req, CleanUpAfterRun(r) PROVE WithinLimit'
  BY <1>c, <1>20 DEF CleanUpAfterRun
<1>21. ASSUME NEW r \in Req, CheckMemoryAgain(r) PROVE WithinLimit'
  BY <1>c, <1>21 DEF CheckMemoryAgain
<1>s. ASSUME UNCHANGED <<conns, reqVars>> PROVE WithinLimit'
  BY <1>s, SameLinks
<1>22. ASSUME NEW c \in Cont, EvictStep(c) \/ Expire(c) \/ StreamError(c) \/ DeleteDoomed(c)
       PROVE  WithinLimit'
  BY <1>s, <1>22
  DEF EvictStep, EvictStopAccepting, EvictCountConns, EvictCleanUp, EvictDropIndex, Expire, StreamError, DeleteDoomed
<1>23. ASSUME NEW i \in Index, DeleteIndex(i) PROVE WithinLimit'
  BY <1>s, <1>23 DEF DeleteIndex
<1>24. ASSUME NEW t \in Runtime, FillPool(t) PROVE WithinLimit'
  <2>1. CASE CreateFresh(t)
    BY <1>0, <1>24, <2>1, CreateWithinLimit DEF FillPool
  <2>2. CASE UNCHANGED <<pool, st, cdef, conns>>
    BY <1>s, <1>24, <2>2 DEF FillPool
  <2> QED
    BY <1>24, <2>1, <2>2 DEF FillPool
<1>25. ASSUME CreatePool \/ DrainPool \/ StopPool PROVE WithinLimit'
  BY <1>s, <1>25 DEF CreatePool, DrainPool, StopPool
<1>26. ASSUME Restart PROVE WithinLimit'
  BY <1>26 DEF Restart, WithinLimit, Linked
<1>27. ASSUME UNCHANGED vars PROVE WithinLimit'
  BY <1>s, <1>27 DEF vars
<1> QED
  BY <1>1, <1>2, <1>3, <1>4, <1>5, <1>6, <1>7, <1>8, <1>9, <1>10, <1>11, <1>12, <1>13, <1>14,
     <1>15, <1>16, <1>17, <1>18, <1>19, <1>20, <1>21, <1>22, <1>23, <1>24, <1>25, <1>26, <1>27
  DEF Next, RunStep, AfterRunStep, PoolStep

\* A container serves one run at a time, an async one at most as many as its
\* definition says, although runs look for it and reserve it independently.
THEOREM ConnectionsLimited == Spec => []ConnLimited
<1>1. Init => WithinLimit /\ Possession
  BY DEF Init, WithinLimit, Linked, Possession, Active, Unshared
<1>2. TypeInv /\ Possession /\ WithinLimit => ConnLimited
  <2> SUFFICES ASSUME TypeInv, Possession, WithinLimit,
                      NEW c \in Cont, Cardinality(Users(c)) > 1
               PROVE  Cardinality(Users(c)) <= Async[cdef[c]]
    BY DEF ConnLimited
  <2>1. PICK r \in Users(c) : TRUE
    BY FS_EmptySet
  <2>2. /\ pc[r] \in Linked /\ rcont[r] = c /\ rdef[r] \in Def /\ cdef[c] = rdef[r]
        /\ Users(c) \subseteq conns[c]
    BY <2>1 DEF Users, Linked, WithinLimit, Possession, Active, TypeInv, Placed
  <2>3. Cardinality(conns[c]) <= ConnLimit(rdef[r])
    BY <2>1, <2>2 DEF WithinLimit, Users
  <2>4. Cardinality(Users(c)) <= Cardinality(conns[c]) /\ Cardinality(Users(c)) \in Nat
    BY <2>2, ConnsFinite, FS_Subset, FS_CardinalityType
  <2>5. Cardinality(conns[c]) \in Nat /\ Async[rdef[r]] \in Nat
    BY <2>2, ConnsFinite, RunnerAssumption
  <2> QED
    BY <2>2, <2>3, <2>4, <2>5 DEF ConnLimit
<1> QED
  BY <1>1, <1>2, PoolInit, PoolStepInv, PossessionStep, WithinLimitStep, PTL DEF Spec, PoolInv

=============================================================================
