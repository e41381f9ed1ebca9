-------------------------- MODULE RunnerLeakProofs --------------------------
(* What the runner keeps of its containers, connections and semaphore      *)
(* units as long as nothing fails on the three paths that lose track of    *)
(* them.                                                                   *)
EXTENDS RunnerProofs, UnitSets

\* Resources are never missing, no context ends while its run waits for the
\* semaphore, and docker does not fail to update a container.  Each of the
\* three leaves a connection behind, or units, that nobody gives back; scripts,
\* set-ups, volumes, streams and containers may still fail, and containers be
\* evicted and deleted, at any time.
NoLeak == Events \cap {"missing", "cancel", "update"} = {}

\* Without the three events: what Acquire and SetUp do, and the runs' errors.
LEMMA AcquireOk ==
  ASSUME NoLeak, NEW r \in Req, Acquire(r)
  PROVE  /\ pc[r] = "acquire" /\ HasRoom(rdef[r])
         /\ sem' = sem + Weight[rdef[r]]
         /\ pc' = [pc EXCEPT ![r] = IF isNew[r] THEN "setup" ELSE "conn"]
         /\ UNCHANGED <<phase, pool, cache, index, leader, doomed, contVars,
                        rdef, rcont, cand, isNew, err, victim>>
  BY DEF NoLeak, Acquire, Goto

LEMMA SetUpOk ==
  ASSUME NoLeak, NEW r \in Req, SetUp(r)
  PROVE  \/ /\ pc' = [pc EXCEPT ![r] = "add"] /\ UNCHANGED <<leader, err>>
            /\ st' = [st EXCEPT ![rcont[r]] = IF @ = "fresh" THEN "running" ELSE @]
            /\ st[rcont[r]] # "stopped"
         \/ /\ err' = [err EXCEPT ![r] = "other"] /\ Leave(r, "after") /\ UNCHANGED st
  BY DEF NoLeak, SetUp, Goto, Fail

-----------------------------------------------------------------------------
(* Connections *)

\* From reserving a connection until releasing it.
Held(r) == pc[r] \in Linked \cup {"after"}

\* The connections of a container are exactly those of the runs that work with
\* it, all of them for the definition it was set up for.  While the first one
\* waits for the semaphore there is no other.
Links ==
  /\ \A r \in Req : err[r] \in {"none", "other"}
  /\ \A r \in Req, c \in Cont : r \in conns[c] <=> Held(r) /\ rcont[r] = c
  /\ \A r \in Req : Held(r) => cdef[rcont[r]] = rdef[r]
  /\ \A r \in Req : pc[r] = "acquire" => conns[rcont[r]] = {r}

\* A container in the pool is as createFreshContainer left it, and nobody
\* else knows it.
PoolClean ==
  \A t \in Runtime : \A c \in pool[t] :
    /\ st[c] = "fresh" /\ evict[c] = "no" /\ c \notin doomed
    /\ \A r \in Req : rcont[r] # c

\* Without a run that works with it, a container has no connections.
LEMMA NoUsersNoConns ==
  ASSUME TypeInv, Links, NEW c \in Cont, \A r \in Req : Held(r) => rcont[r] # c
  PROVE  conns[c] = {}
  BY DEF Links, TypeInv, TypeOK

\* A run that works with no container has no connection left to one: Reserve
\* does not refuse it as reserved already.
LEMMA ReserveCachedOk ==
  ASSUME TypeInv, Links, NEW r \in Req, ReserveCached(r)
  PROVE  /\ UNCHANGED <<leader, err>>
         /\ \/ Goto(r, "try") /\ UNCHANGED <<conns, late>>
            \/ Reserve(r, rcont[r], "conn")
<1>1. pc[r] = "reserve" /\ rcont[r] \in Cont
  BY DEF ReserveCached, TypeInv, Placed, WithContainer
<1>2. ~Reserved(r, rcont[r])
  BY <1>1 DEF Links, Held, Linked, Reserved
<1> QED
  BY <1>2 DEF ReserveCached

\* A step in which no run begins or ends to work with a container.
LEMMA SameHeld ==
  ASSUME Links, UNCHANGED <<conns, cdef>>,
         \A r \in Req : err'[r] \in {"none", "other"},
         \A r \in Req : Held(r)' <=> Held(r),
         \A r \in Req : Held(r) => rcont'[r] = rcont[r] /\ rdef'[r] = rdef[r],
         \A r \in Req : pc'[r] = "acquire" => pc[r] = "acquire"
  PROVE  Links'
<1>1. \A r \in Req, c \in Cont : r \in conns'[c] <=> Held(r)' /\ rcont'[r] = c
  BY DEF Links
<1>2. \A r \in Req : Held(r)' => cdef'[rcont'[r]] = rdef'[r]
  BY DEF Links
<1>3. \A r \in Req : pc'[r] = "acquire" => conns'[rcont'[r]] = {r}
  BY DEF Links, Held, Linked
<1> QED
  BY <1>1, <1>2, <1>3 DEF Links

\* One run reserves a connection to a container that nobody is reserving a
\* first connection to.
LEMMA ReserveLinks ==
  ASSUME TypeInv, Links, NEW r \in Req, NEW c \in Cont, NEW next \in {"setup", "conn"},
         Reserve(r, c, next), ~Held(r), ~Locked(c), rcont'[r] = c,
         cdef'[c] = rdef[r], rdef' = rdef, err' = err,
         \A q \in Req : q # r => rcont'[q] = rcont[q],
         \A b \in Cont : b # c => cdef'[b] = cdef[b],
         cdef[c] # cdef'[c] => conns[c] = {}
  PROVE  Links'
<1>1. /\ conns'[c] = conns[c] \cup {r}
      /\ \A b \in Cont : b # c => conns'[b] = conns[b]
      /\ pc'[r] = IF conns[c] = {} THEN "acquire" ELSE next
      /\ \A q \in Req : q # r => pc'[q] = pc[q]
  BY DEF Reserve, Goto, TypeInv, TypeOK
<1>2. Held(r)' /\ \A q \in Req : q # r => (Held(q)' <=> Held(q))
  BY <1>1 DEF Held, Linked
<1>3. \A q \in Req : Held(q) => rcont[q] \in Cont
  BY DEF Held, Linked, TypeInv, Placed, WithContainer, InAfterRun
<1>4. \A q \in Req, b \in Cont : q \in conns'[b] <=> Held(q)' /\ rcont'[q] = b
  BY <1>1, <1>2 DEF Links
<1>5. \A q \in Req : Held(q)' => cdef'[rcont'[q]] = rdef'[q]
  <2>1. ASSUME NEW q \in Req, q # r, Held(q) PROVE cdef'[rcont[q]] = rdef[q]
    <3>1. CASE rcont[q] = c
      BY <2>1, <3>1 DEF Links
    <3>2. CASE rcont[q] # c
      BY <1>3, <2>1, <3>2 DEF Links
    <3> QED
      BY <3>1, <3>2
  <2> QED
    BY <1>2, <2>1
<1>6. \A q \in Req : pc'[q] = "acquire" => conns'[rcont'[q]] = {q}
  <2>1. ASSUME NEW q \in Req, q # r, pc[q] = "acquire" PROVE conns'[rcont[q]] = {q}
    <3>1. rcont[q] # c /\ Held(q)
      BY <2>1 DEF Locked, Held, Linked
    <3> QED
      BY <1>1, <1>3, <2>1, <3>1 DEF Links
  <2>2. pc'[r] = "acquire" => conns'[c] = {r}
    BY <1>1
  <2> QED
    BY <1>1, <2>1, <2>2
<1> QED
  BY <1>4, <1>5, <1>6 DEF Links

\* A run releases its connection, while nobody reserves a first one.
LEMMA DisconnectLinks ==
  ASSUME TypeInv, Links, NEW r \in Req, pc[r] = "after", ~Locked(rcont[r]), Disconnect(r),
         NEW label, label \notin Linked \cup {"after"}, pc' = [pc EXCEPT ![r] = label],
         \A q \in Req : err'[q] \in {"none", "other"},
         UNCHANGED <<cdef, rcont, rdef>>
  PROVE  Links'
<1>1. PICK c \in Cont : c = rcont[r]
  BY DEF TypeInv, Placed, WithContainer, InAfterRun
<1>2. /\ conns'[c] = conns[c] \ {r}
      /\ \A b \in Cont : b # c => conns'[b] = conns[b]
      /\ pc'[r] = label /\ \A q \in Req : q # r => pc'[q] = pc[q]
  BY <1>1 DEF Disconnect, TypeInv, TypeOK
<1>3. ~Held(r)' /\ \A q \in Req : q # r => (Held(q)' <=> Held(q))
  BY <1>2 DEF Held
<1>4. \A q \in Req, b \in Cont : q \in conns'[b] <=> Held(q)' /\ rcont'[q] = b
  BY <1>1, <1>2, <1>3 DEF Links
<1>5. \A q \in Req : Held(q)' => cdef'[rcont'[q]] = rdef'[q]
  BY <1>3 DEF Links
<1>6. \A q \in Req : pc'[q] = "acquire" => conns'[rcont'[q]] = {q}
  <2>1. ASSUME NEW q \in Req, q # r, pc[q] = "acquire" PROVE conns'[rcont[q]] = {q}
    <3>1. rcont[q] # c /\ rcont[q] \in Cont
      BY <1>1, <2>1 DEF Locked, TypeInv, Placed, WithContainer
    <3> QED
      BY <1>2, <2>1, <3>1 DEF Links
  <2> QED
    BY <1>2, <2>1 DEF Linked
<1> QED
  BY <1>4, <1>5, <1>6 DEF Links

\* A new container had no connections.
LEMMA CreateLinks ==
  ASSUME TypeInv, Links, NEW t \in Runtime, CreateFresh(t), UNCHANGED <<rcont, rdef, err>>,
         \A q \in Req : /\ Held(q)' <=> Held(q)
                        /\ pc'[q] = "acquire" => pc[q] = "acquire"
  PROVE  Links' /\ conns' = conns
<1>1. PICK c \in Cont : /\ Unused(c)
                        /\ conns' = [conns EXCEPT ![c] = {}]
                        /\ cdef' = [cdef EXCEPT ![c] = None]
  BY DEF CreateFresh
<1>2. \A q \in Req : rcont[q] # c
  BY <1>1 DEF Unused
<1>3. conns' = conns
  BY <1>1, <1>2, NoUsersNoConns DEF TypeInv, TypeOK
<1>4. \A b \in Cont : b # c => cdef'[b] = cdef[b]
  BY <1>1 DEF TypeInv, TypeOK
<1>5. \A q \in Req : Held(q) => rcont[q] \in Cont
  BY DEF Held, Linked, TypeInv, Placed, WithContainer, InAfterRun
<1>6. \A q \in Req : Held(q) => cdef'[rcont[q]] = rdef[q]
  BY <1>2, <1>4, <1>5 DEF Links
<1>7. \A q \in Req : pc'[q] = "acquire" => conns'[rcont'[q]] = {q}
  BY <1>3 DEF Links
<1> QED
  BY <1>3, <1>6, <1>7 DEF Links

-----------------------------------------------------------------------------
(* Semaphore units *)

\* The semaphore's count is the weight of the containers with connections, and
\* none of them weighs more than the semaphore can give.
Accounted ==
  phase \in {"serving", "stopping"} =>
    /\ sem = Cardinality(Units)
    /\ \A c \in Cont : Holding(c) => Weight[cdef[c]] <= Concurrency

LEMMA UnitsFinite == IsFiniteSet(Units) /\ Cardinality(Units) \in Nat
<1>1. IsFiniteSet(Cont \X (1..Concurrency))
  <2> DEFINE T == 1..Concurrency
  <2>1. IsFiniteSet(T)
    BY FS_Interval, RunnerAssumption
  <2> HIDE DEF T
  <2>2. IsFiniteSet(Cont \X T)
    BY <2>1, FS_Product, RunnerAssumption
  <2> QED
    BY <2>2 DEF T
<1>2. Units \subseteq Cont \X (1..Concurrency)
  BY DEF Units
<1> QED
  BY <1>1, <1>2, FS_Subset, FS_CardinalityType

\* A container that begins to hold its units adds its weight to the count, one
\* that lets go of them takes it away.
LEMMA MemberOfUnits ==
  ASSUME NEW c \in Cont, NEW i \in 1..Concurrency
  PROVE  <<c, i>> \in Units <=> Holding(c) /\ i <= Weight[cdef[c]]
  BY DEF Units

\* A container that holds units holds as many as it weighs.
LEMMA HoldsItsWeight ==
  ASSUME NEW c \in Cont, NEW w \in Nat, w = Weight[cdef[c]], w <= Concurrency, Holding(c)
  PROVE  UnitsOf(c, w) \subseteq Units
<1> SUFFICES ASSUME NEW i \in 1..w PROVE <<c, i>> \in Units
  BY DEF UnitsOf
<1>1. i \in 1..Concurrency
  BY RunnerAssumption
<1> QED
  BY <1>1, MemberOfUnits

\* Release neither panics nor fails: the units are there.
LEMMA ReleaseOk ==
  ASSUME NoLeak, TypeInv, Links, Accounted, phase \in {"serving", "stopping"},
         NEW r \in Req, Release(r)
  PROVE  /\ pc[r] = "after" /\ ~Locked(rcont[r]) /\ Disconnect(r)
         /\ pc' = [pc EXCEPT ![r] = IF err[r] # "none" THEN "delete" ELSE AfterRelease(r)]
         /\ sem' = IF LastConn(r) THEN sem - Weight[rdef[r]] ELSE sem
         /\ UNCHANGED <<err, phase, pool, cache, index, leader, doomed, st, cdef, evict, late,
                        rdef, rcont, cand, isNew, victim>>
         /\ UnitsOf(rcont[r], Weight[rdef[r]]) \subseteq Units
<1>1. pc[r] = "after" /\ ~Locked(rcont[r])
  BY DEF Release
<1>2. rcont[r] \in Cont /\ rdef[r] \in Def /\ Held(r) /\ cdef[rcont[r]] = rdef[r]
  BY <1>1 DEF TypeInv, Placed, WithContainer, InAfterRun, Held, Links
<1>3. Weight[rdef[r]] \in Nat
  BY <1>2, RunnerAssumption
<1>4. Holding(rcont[r])
  BY <1>1, <1>2 DEF Holding, Links
<1>5. UnitsOf(rcont[r], Weight[rdef[r]]) \subseteq Units
  BY <1>2, <1>3, <1>4, HoldsItsWeight DEF Accounted
<1>6. Weight[rdef[r]] <= sem
  BY <1>3, <1>5, LoseUnits, UnitsFinite DEF Accounted
<1>7. ~(sem < Weight[rdef[r]])
  BY <1>3, <1>6 DEF TypeInv, TypeOK
<1> QED
  BY <1>1, <1>5, <1>7 DEF Release, NoLeak, Goto

-----------------------------------------------------------------------------
(* Every step keeps the links *)

LEMMA LinksStep ==
  ASSUME NoLeak, PoolInv, Possession, Links, PoolClean, Accounted, [Next]_vars
  PROVE  Links'
<1>0. TypeInv /\ Debts
  BY DEF PoolInv
<1>p. \A r \in Req : pc[r] # "idle" /\ phase # "crashed" => phase \in {"serving", "stopping"}
  BY <1>0 DEF Debts, TypeInv, TypeOK, Phases
<1>e. \A r \in Req : err[r] \in {"none", "other"}
  BY DEF Links
<1> USE DEF contVars, reqVars
\* A run moves on without reserving or releasing a connection.
<1>g. ASSUME NEW r \in Req, NEW label, pc' = [pc EXCEPT ![r] = label], label # "acquire",
             Held(r) => label \in Linked \cup {"after"} /\ rcont'[r] = rcont[r] /\ rdef'[r] = rdef[r],
             ~Held(r) => label \notin Linked \cup {"after"},
             \A q \in Req : q # r => rcont'[q] = rcont[q] /\ rdef'[q] = rdef[q],
             UNCHANGED <<conns, cdef>>, \A q \in Req : err'[q] \in {"none", "other"}
      PROVE  Links'
  <2>1. pc'[r] = label /\ \A q \in Req : q # r => pc'[q] = pc[q]
    BY <1>0, <1>g DEF TypeInv, TypeOK
  <2>2. \A q \in Req : Held(q)' <=> Held(q)
    BY <1>g, <2>1 DEF Held
  <2> QED
    BY <1>g, <2>1, <2>2, SameHeld
<1>l. ASSUME NEW r \in Req, NEW label \in {"after", "run"}, Held(r), Leave(r, label),
             UNCHANGED <<conns, cdef, rcont, rdef>>, \A q \in Req : err'[q] \in {"none", "other"}
      PROVE  Links'
  <2>1. /\ pc'[r] = label
        /\ \A q \in Req : q # r => pc'[q] = pc[q] \/ (pc[q] = "wait" /\ pc'[q] = "woken")
    BY <1>0, <1>l, LeaveType DEF Held, Linked, InRun, InAfterRun
  <2>2. \A q \in Req : Held(q)' <=> Held(q)
    BY <1>l, <2>1 DEF Held, Linked
  <2> QED
    BY <1>l, <2>1, <2>2, SameHeld
<1>1. ASSUME NEW r \in Req, NEW d \in Def, Start(r, d) PROVE Links'
  BY <1>0, <1>1, <1>e, <1>g DEF Start, Lookup, Goto, Held, Linked, TypeInv, TypeOK
<1>2. ASSUME NEW r \in Req, LookupAgain(r) PROVE Links'
  BY <1>2, <1>e, <1>g DEF LookupAgain, Lookup, Goto, Held, Linked
<1>3. ASSUME NEW r \in Req, TryCached(r) PROVE Links'
  BY <1>0, <1>3, <1>e, <1>g DEF TryCached, Goto, Held, Linked, TypeInv, TypeOK
<1>4. ASSUME NEW r \in Req, Miss(r) PROVE Links'
  <2>1. PICK label \in {"take", "wait"} : pc' = [pc EXCEPT ![r] = label]
    BY <1>4 DEF Miss, Goto
  <2> QED
    BY <1>0, <1>4, <1>e, <1>g, <2>1 DEF Miss, Held, Linked, TypeInv, TypeOK
<1>5. ASSUME NEW r \in Req, Take(r) PROVE Links'
  <2>1. PICK c \in pool[DefRuntime[rdef[r]]] :
          /\ ~Locked(c)
          /\ cdef' = [cdef EXCEPT ![c] = rdef[r]]
          /\ rcont' = [rcont EXCEPT ![r] = c]
          /\ IF Full(c, rdef[r]) \/ Reserved(r, c)
             THEN Fail(r, "other") /\ UNCHANGED <<conns, late>>
             ELSE Reserve(r, c, "setup") /\ UNCHANGED <<leader, err>>
    BY <1>5 DEF Take
  <2>2. pc[r] = "take" /\ UNCHANGED rdef
    BY <1>5 DEF Take
  <2>3. rdef[r] \in Def /\ DefRuntime[rdef[r]] \in Runtime /\ c \in Cont
    BY <1>0, <2>1, <2>2, RunnerAssumption DEF TypeInv, TypeOK, Placed
  <2>4. \A q \in Req : rcont[q] # c
    BY <2>3, <2>1 DEF PoolClean
  <2>5. conns[c] = {}
    BY <1>0, <2>3, <2>4, NoUsersNoConns
  <2>6. ~Full(c, rdef[r]) /\ ~Reserved(r, c)
    BY <2>3, <2>5, LimitType, FS_EmptySet DEF Full, Reserved
  <2>7. Reserve(r, c, "setup") /\ UNCHANGED err
    BY <2>1, <2>6
  <2>8. /\ rcont'[r] = c /\ cdef'[c] = rdef[r]
        /\ \A q \in Req : q # r => rcont'[q] = rcont[q]
        /\ \A b \in Cont : b # c => cdef'[b] = cdef[b]
    BY <1>0, <2>1, <2>3 DEF TypeInv, TypeOK
  <2> QED
    BY <1>0, <2>1, <2>2, <2>3, <2>5, <2>7, <2>8, ReserveLinks DEF Held, Linked
<1>6. ASSUME NEW r \in Req, ReserveCached(r) PROVE Links'
  <2>1. pc[r] = "reserve" /\ ~Locked(rcont[r]) /\ UNCHANGED <<cdef, rdef, rcont, err>>
    BY <1>0, <1>6, ReserveCachedOk DEF ReserveCached
  <2>2. PICK c \in Cont : c = rcont[r] /\ cdef[c] = rdef[r]
    BY <1>0, <2>1 DEF TypeInv, Placed, WithContainer, Possession, Active
  <2>3. CASE Goto(r, "try") /\ UNCHANGED conns
    BY <1>e, <1>g, <2>1, <2>3 DEF Goto, Held, Linked
  <2>4. CASE Reserve(r, c, "conn")
    BY <1>0, <2>1, <2>2, <2>4, ReserveLinks DEF Held, Linked
  <2> QED
    BY <1>0, <1>6, <2>2, <2>3, <2>4, ReserveCachedOk
<1>7. ASSUME NEW r \in Req, Acquire(r) PROVE Links'
  BY <1>7, <1>e, <1>g, AcquireOk DEF Held, Linked
<1>8. ASSUME NEW r \in Req, SetUp(r) PROVE Links'
  <2>1. pc[r] = "setup" /\ Held(r) /\ UNCHANGED <<conns, cdef, rdef, rcont>>
    BY <1>8 DEF SetUp, Held, Linked
  <2>2. CASE pc' = [pc EXCEPT ![r] = "add"] /\ UNCHANGED <<leader, err>>
    BY <1>e, <1>g, <2>1, <2>2 DEF Linked
  <2>3. CASE err' = [err EXCEPT ![r] = "other"] /\ Leave(r, "after")
    <3>1. \A q \in Req : err'[q] \in {"none", "other"}
      BY <1>0, <1>e, <2>3 DEF TypeInv, TypeOK
    <3> QED
      BY <1>l, <2>1, <2>3, <3>1
  <2> QED
    BY <1>8, <2>2, <2>3, SetUpOk
<1>9. ASSUME NEW r \in Req, AddToCache(r) PROVE Links'
  BY <1>9, <1>e, <1>g DEF AddToCache, Goto, Held, Linked
<1>10. ASSUME NEW r \in Req, AddToIndex(r) PROVE Links'
  BY <1>10, <1>e, <1>l DEF AddToIndex, Held, Linked
<1>11. ASSUME NEW r \in Req, Conn(r) PROVE Links'
  <2>1. pc[r] = "conn" /\ UNCHANGED <<conns, cdef, rcont, rdef, err>> /\ (Goto(r, "run") \/ UNCHANGED pc)
    BY <1>11 DEF Conn
  <2>2. CASE UNCHANGED pc
    BY <2>1, <2>2, <1>e, SameHeld DEF Held
  <2>3. CASE Goto(r, "run")
    BY <2>1, <2>3, <1>e, <1>g DEF Goto, Held, Linked
  <2> QED
    BY <2>1, <2>2, <2>3
<1>12. ASSUME NEW r \in Req, RunScript(r) PROVE Links'
  <2>1. /\ pc[r] = "run" /\ pc' = [pc EXCEPT ![r] = "after"]
        /\ UNCHANGED <<conns, cdef, rcont, rdef>>
        /\ err' \in {err, [err EXCEPT ![r] = "other"]}
    BY <1>12 DEF RunScript, Goto
  <2>2. \A q \in Req : err'[q] \in {"none", "other"}
    BY <1>0, <1>e, <2>1 DEF TypeInv, TypeOK
  <2> QED
    BY <1>g, <2>1, <2>2 DEF Held, Linked
<1>13. ASSUME NEW r \in Req, ReturnMissing(r) \/ ReturnUnacquired(r) PROVE Links'
  BY <1>13, <1>e DEF ReturnMissing, ReturnUnacquired
<1>15. ASSUME NEW r \in Req, phase # "crashed", Release(r) PROVE Links'
  <2>1. phase \in {"serving", "stopping"}
    BY <1>15, <1>p DEF Release
  <2>2. PICK label \in {"delete", "recreate", "finish"} : pc' = [pc EXCEPT ![r] = label]
    BY <1>0, <1>15, <2>1, ReleaseOk DEF AfterRelease
  <2>3. label \notin Linked \cup {"after"}
    BY DEF Linked
  <2>4. /\ pc[r] = "after" /\ ~Locked(rcont[r]) /\ Disconnect(r)
        /\ UNCHANGED <<cdef, rcont, rdef, err>>
    BY <1>0, <1>15, <2>1, ReleaseOk
  <2> QED
    BY <1>0, <1>e, <2>2, <2>3, <2>4, DisconnectLinks
<1>16. ASSUME NEW r \in Req, Delete(r) PROVE Links'
  BY <1>16, <1>e, <1>g DEF Delete, Goto, Held, Linked
<1>17. ASSUME NEW r \in Req, StopAccepting(r) PROVE Links'
  BY <1>17, <1>e, <1>g DEF StopAccepting, AfterRelease, Goto, Held, Linked
<1>18. ASSUME NEW r \in Req, Recreate(r) PROVE Links'
  <2>1. pc[r] = "recreate" /\ UNCHANGED <<rdef, rcont, err>>
    BY <1>18 DEF Recreate
  <2>2. CASE CreateFresh(DefRuntime[rdef[r]]) /\ Goto(r, "finish")
    <3>1. \A q \in Req : /\ Held(q)' <=> Held(q)
                         /\ pc'[q] = "acquire" => pc[q] = "acquire"
      BY <1>0, <2>1, <2>2 DEF Goto, Held, Linked, TypeInv, TypeOK
    <3>2. DefRuntime[rdef[r]] \in Runtime
      BY <1>0, <2>1, RunnerAssumption DEF TypeInv, Placed
    <3> QED
      BY <1>0, <2>1, <2>2, <3>1, <3>2, CreateLinks
  <2>3. CASE UNCHANGED <<pool, st, cdef, conns, pc>>
    BY <1>e, <2>1, <2>3, SameHeld DEF Held
  <2> QED
    BY <1>18, <2>2, <2>3 DEF Recreate
<1>s. ASSUME UNCHANGED <<conns, cdef, reqVars>> PROVE Links'
  BY <1>s, <1>e, SameHeld DEF Held
<1>c. ASSUME NEW r \in Req, pc[r] \in {"finish", "cleanup", "memory"}, CheckMemory(r),
             UNCHANGED <<conns, cdef>>
      PROVE  Links'
  <2>1. CASE Done(r)
    <3>1. \A q \in Req : err'[q] \in {"none", "other"}
      BY <1>0, <1>e, <2>1 DEF Done, TypeInv, TypeOK
    <3> QED
      BY <1>0, <1>c, <1>g, <2>1, <3>1 DEF Done, Goto, Held, Linked, TypeInv, TypeOK
  <2>2. CASE UNCHANGED reqVars
    BY <1>c, <1>s, <2>2
  <2>3. CASE Goto(r, "memory") /\ UNCHANGED <<rdef, rcont, err>>
    BY <1>c, <1>e, <1>g, <2>3 DEF Goto, Held, Linked
  <2> QED
    BY <1>c, <2>1, <2>2, <2>3 DEF CheckMemory
<1>19. ASSUME NEW r \in Req, Finish(r) PROVE Links'
  <2>1. CASE Disposable(rcont[r])
    BY <1>19, <1>e, <1>g, <2>1 DEF Finish, Goto, Held, Linked
  <2>2. CASE ~Disposable(rcont[r])
    BY <1>c, <1>19, <2>2 DEF Finish
  <2> QED
    BY <2>1, <2>2
<1>20. ASSUME NEW r \in Req, CleanUpAfterRun(r) PROVE Links'
  BY <1>c, <1>20 DEF CleanUpAfterRun
<1>21. ASSUME NEW r \in Req, CheckMemoryAgain(r) PROVE Links'
  BY <1>c, <1>21 DEF CheckMemoryAgain
<1>22. ASSUME NEW c \in Cont, EvictStep(c) \/ Expire(c) \/ StreamError(c) \/ DeleteDoomed(c)
       PROVE  Links'
  BY <1>s, <1>22
  DEF EvictStep, EvictStopAccepting, EvictCountConns, EvictCleanUp, EvictDropIndex, Expire, StreamError, DeleteDoomed
<1>23. ASSUME NEW i \in Index, DeleteIndex(i) PROVE Links'
  BY <1>s, <1>23 DEF DeleteIndex
<1>24. ASSUME NEW t \in Runtime, FillPool(t) PROVE Links'
  <2>1. CASE CreateFresh(t)
    <3>1. UNCHANGED <<rcont, rdef, err, pc>>
      BY <1>24 DEF FillPool
    <3>2. \A q \in Req : Held(q)' <=> Held(q)
      BY <3>1 DEF Held
    <3> QED
      BY <1>0, <2>1, <3>1, <3>2, CreateLinks
  <2>2. CASE UNCHANGED <<pool, st, cdef, conns>>
    BY <1>s, <1>24, <2>2 DEF FillPool
  <2> QED
    BY <1>24, <2>1, <2>2 DEF FillPool
<1>25. ASSUME CreatePool \/ DrainPool \/ StopPool PROVE Links'
  BY <1>s, <1>25 DEF CreatePool, DrainPool, StopPool
<1>26. ASSUME Restart PROVE Links'
  BY <1>26 DEF Restart, Links, Held, Linked
<1>27. ASSUME UNCHANGED vars PROVE Links'
  BY <1>s, <1>27 DEF vars
<1> QED
  BY <1>1, <1>2, <1>3, <1>4, <1>5, <1>6, <1>7, <1>8, <1>9, <1>10, <1>11, <1>12, <1>13,
     <1>15, <1>16, <1>17, <1>18, <1>19, <1>20, <1>21, <1>22, <1>23, <1>24, <1>25, <1>26, <1>27
  DEF Next, RunStep, AfterRunStep, PoolStep

-----------------------------------------------------------------------------
(* Every step keeps the pool clean *)

\* A step that adds nothing to a pool, and leaves alone what is in it.
LEMMA SameClean ==
  ASSUME PoolClean, \A t \in Runtime : pool'[t] \subseteq pool[t],
         \A t \in Runtime : \A c \in pool'[t] :
           /\ st'[c] = st[c] /\ evict'[c] = evict[c] /\ c \notin doomed'
           /\ \A r \in Req : rcont'[r] = rcont[r] \/ rcont'[r] # c
  PROVE  PoolClean'
  BY DEF PoolClean

LEMMA CreateClean ==
  ASSUME TypeInv, PoolClean, NEW t \in Runtime, CreateFresh(t), UNCHANGED <<evict, doomed, rcont>>
  PROVE  PoolClean'
<1>1. PICK c \in Cont : /\ Unused(c)
                        /\ st' = [st EXCEPT ![c] = "fresh"]
                        /\ pool' = [pool EXCEPT ![t] = @ \cup {c}]
  BY DEF CreateFresh
<1>2. c \notin doomed /\ evict[c] = "no" /\ \A r \in Req : rcont[r] # c
  BY <1>1 DEF Unused
<1>3. st'[c] = "fresh" /\ \A b \in Cont : b # c => st'[b] = st[b]
  BY <1>1 DEF TypeInv, TypeOK
<1>4. \A u \in Runtime : \A b \in pool'[u] : b = c \/ b \in pool[u]
  BY <1>1 DEF TypeInv, TypeOK
<1>5. \A u \in Runtime : pool[u] \subseteq Cont
  BY DEF TypeInv, TypeOK
<1> QED
  BY <1>2, <1>3, <1>4, <1>5 DEF PoolClean

LEMMA PoolCleanStep ==
  ASSUME NoLeak, PoolInv, Possession, Links, PoolClean, Accounted, [Next]_vars
  PROVE  PoolClean'
<1>0. TypeInv /\ Debts
  BY DEF PoolInv
<1>p. \A r \in Req : pc[r] # "idle" /\ phase # "crashed" => phase \in {"serving", "stopping"}
  BY <1>0 DEF Debts, TypeInv, TypeOK, Phases
\* What is in a pool is neither cached, nor about to be tried, nor somebody's.
<1>f. \A t \in Runtime : \A c \in pool[t] :
        /\ c \in Cont /\ c \notin cache /\ c \notin doomed
        /\ st[c] = "fresh" /\ evict[c] = "no"
        /\ \A r \in Req : c \notin cand[r] /\ c # rcont[r]
  BY <1>0 DEF PoolClean, Possession, TypeInv, TypeOK
<1>s. ASSUME UNCHANGED <<pool, st, evict, doomed, rcont>> PROVE PoolClean'
  BY <1>s, <1>f, SameClean
<1>r. ASSUME NEW r \in Req, NEW x, rcont' = [rcont EXCEPT ![r] = x], x \in cand[r] \cup {None},
             UNCHANGED <<pool, st, evict, doomed>>
      PROVE  PoolClean'
  <2>1. \A q \in Req : rcont'[q] = rcont[q] \/ rcont'[q] = x
    BY <1>0, <1>r DEF TypeInv, TypeOK
  <2>2. \A t \in Runtime : \A c \in pool[t] : c # x
    BY <1>f, <1>r, RunnerAssumption
  <2> QED
    BY <1>r, <1>f, <2>1, <2>2, SameClean
<1>t. ASSUME NEW c \in Cont, \A t \in Runtime : c \notin pool[t],
             \A b \in Cont : b # c => st'[b] = st[b] /\ evict'[b] = evict[b],
             UNCHANGED <<pool, rcont>>, doomed' \subseteq doomed
      PROVE  PoolClean'
  <2>1. \A t \in Runtime : \A b \in pool[t] : st'[b] = st[b] /\ evict'[b] = evict[b]
    BY <1>f, <1>t
  <2> QED
    BY <1>f, <1>t, <2>1, SameClean
<1> USE DEF contVars, reqVars
<1>1. ASSUME NEW r \in Req, NEW d \in Def, Start(r, d) PROVE PoolClean'
  BY <1>1, <1>s DEF Start
<1>2. ASSUME NEW r \in Req, LookupAgain(r) PROVE PoolClean'
  BY <1>2, <1>s DEF LookupAgain
<1>3. ASSUME NEW r \in Req, TryCached(r) PROVE PoolClean'
  BY <1>3, <1>r DEF TryCached
<1>4. ASSUME NEW r \in Req, Miss(r) PROVE PoolClean'
  BY <1>4, <1>r DEF Miss
<1>5. ASSUME NEW r \in Req, Take(r) PROVE PoolClean'
  <2>1. PICK c \in pool[DefRuntime[rdef[r]]] :
          /\ pool' = [pool EXCEPT ![DefRuntime[rdef[r]]] = @ \ {c}]
          /\ rcont' = [rcont EXCEPT ![r] = c]
    BY <1>5 DEF Take
  <2>2. pc[r] = "take" /\ UNCHANGED <<st, evict, doomed>>
    BY <1>5 DEF Take
  <2>3. PICK t \in Runtime : t = DefRuntime[rdef[r]]
    BY <1>0, <2>2, RunnerAssumption DEF TypeInv, Placed
  <2>4. \A u \in Runtime : c \notin pool'[u] /\ pool'[u] \subseteq pool[u]
    BY <1>0, <2>1, <2>3 DEF Debts, TypeInv, TypeOK
  <2>5. \A q \in Req : rcont'[q] = rcont[q] \/ rcont'[q] = c
    BY <1>0, <2>1 DEF TypeInv, TypeOK
  <2> QED
    BY <1>f, <2>2, <2>4, <2>5, SameClean
<1>6. ASSUME NEW r \in Req, ReserveCached(r) PROVE PoolClean'
  BY <1>6, <1>s DEF ReserveCached
<1>7. ASSUME NEW r \in Req, Acquire(r) PROVE PoolClean'
  BY <1>7, <1>s DEF Acquire
<1>8. ASSUME NEW r \in Req, SetUp(r) PROVE PoolClean'
  <2>1. pc[r] = "setup" /\ UNCHANGED <<pool, evict, doomed, rcont>>
    BY <1>8 DEF SetUp
  <2>2. rcont[r] \in Cont /\ \A t \in Runtime : rcont[r] \notin pool[t]
    BY <1>0, <1>f, <2>1 DEF TypeInv, Placed, WithContainer
  <2>3. \A b \in Cont : b # rcont[r] => st'[b] = st[b]
    BY <1>0, <1>8 DEF SetUp, TypeInv, TypeOK
  <2> QED
    BY <1>t, <2>1, <2>2, <2>3
<1>9. ASSUME NEW r \in Req, AddToCache(r) PROVE PoolClean'
  <2>1. UNCHANGED <<pool, st, doomed, rcont>>
    BY <1>9 DEF AddToCache
  <2>2. CASE UNCHANGED evict
    BY <1>s, <2>1, <2>2
  <2>3. ASSUME NEW v \in cache, evict' = [evict EXCEPT ![v] = "handler"] PROVE PoolClean'
    <3>1. v \in Cont /\ \A b \in Cont : b # v => evict'[b] = evict[b]
      BY <1>0, <2>3 DEF TypeInv, TypeOK
    <3> QED
      BY <1>f, <1>t, <2>1, <2>3, <3>1
  <2> QED
    BY <1>9, <2>2, <2>3 DEF AddToCache
<1>10. ASSUME NEW r \in Req, AddToIndex(r) PROVE PoolClean'
  BY <1>10, <1>s DEF AddToIndex
<1>11. ASSUME NEW r \in Req, Conn(r) PROVE PoolClean'
  BY <1>11, <1>s DEF Conn
<1>12. ASSUME NEW r \in Req, RunScript(r) PROVE PoolClean'
  BY <1>12, <1>s DEF RunScript
<1>13. ASSUME NEW r \in Req, ReturnMissing(r) \/ ReturnUnacquired(r) PROVE PoolClean'
  BY <1>13 DEF ReturnMissing, ReturnUnacquired, Links
<1>15. ASSUME NEW r \in Req, Release(r) PROVE PoolClean'
  BY <1>15, <1>s DEF Release
<1>d. ASSUME NEW c \in cache, CacheDelete(c), UNCHANGED <<pool, st, rcont>>, doomed' \subseteq doomed
      PROVE  PoolClean'
  <2>1. c \in Cont /\ \A b \in Cont : b # c => evict'[b] = evict[b]
    BY <1>0, <1>d DEF TypeInv, TypeOK, CacheDelete
  <2> QED
    BY <1>f, <1>t, <1>d, <2>1
<1>16. ASSUME NEW r \in Req, Delete(r) PROVE PoolClean'
  BY <1>16, <1>d, <1>s DEF Delete
<1>17. ASSUME NEW r \in Req, StopAccepting(r) PROVE PoolClean'
  <2>1. pc[r] = "evicted" /\ UNCHANGED <<pool, evict, doomed, rcont>>
        /\ st' = [st EXCEPT ![rcont[r]] = StoppedAccepting(rcont[r])]
    BY <1>17 DEF StopAccepting
  <2>2. rcont[r] \in Cont /\ \A t \in Runtime : rcont[r] \notin pool[t]
    BY <1>0, <1>f, <2>1 DEF TypeInv, Placed, WithContainer, InAfterRun
  <2>3. \A b \in Cont : b # rcont[r] => st'[b] = st[b]
    BY <1>0, <2>1 DEF TypeInv, TypeOK
  <2> QED
    BY <1>t, <2>1, <2>2, <2>3
<1>18. ASSUME NEW r \in Req, Recreate(r) PROVE PoolClean'
  <2>1. pc[r] = "recreate" /\ UNCHANGED <<evict, doomed, rcont>>
    BY <1>18 DEF Recreate
  <2>2. CASE CreateFresh(DefRuntime[rdef[r]])
    BY <1>0, <2>1, <2>2, CreateClean, RunnerAssumption DEF TypeInv, Placed
  <2>3. CASE UNCHANGED <<pool, st, cdef, conns, pc>>
    BY <1>s, <2>1, <2>3
  <2> QED
    BY <1>18, <2>2, <2>3 DEF Recreate
<1>c. ASSUME NEW r \in Req, CheckMemory(r), NEW c \in Cont,
             \A t \in Runtime : c \notin pool[t], \A b \in Cont : b # c => st'[b] = st[b],
             UNCHANGED <<pool, doomed>>
      PROVE  PoolClean'
  <2>0. \A t \in Runtime : \A b \in pool[t] : st'[b] = st[b]
    BY <1>f, <1>c
  <2>1. CASE Done(r)
    <3>1. \A q \in Req : rcont'[q] = rcont[q] \/ rcont'[q] = None
      BY <1>0, <2>1 DEF Done, TypeInv, TypeOK
    <3>2. \A t \in Runtime : \A b \in pool[t] : b # None
      BY <1>f, RunnerAssumption
    <3> QED
      BY <1>c, <1>f, <2>0, <2>1, <3>1, <3>2, SameClean DEF Done
  <2>2. CASE UNCHANGED <<cache, evict, reqVars, late>>
    BY <1>c, <1>f, <2>0, <2>2, SameClean
  <2>3. ASSUME NEW v \in cache, CacheDelete(v), UNCHANGED rcont
        PROVE  PoolClean'
    <3>1. \A t \in Runtime : \A b \in pool[t] : evict'[b] = evict[b]
      BY <1>0, <1>f, <2>3 DEF CacheDelete, TypeInv, TypeOK
    <3> QED
      BY <1>c, <1>f, <2>0, <2>3, <3>1, SameClean
  <2> QED
    BY <1>c, <2>1, <2>2, <2>3 DEF CheckMemory
<1>19. ASSUME NEW r \in Req, Finish(r) PROVE PoolClean'
  <2>1. pc[r] = "finish" /\ UNCHANGED <<pool, st, doomed>>
    BY <1>19 DEF Finish
  <2>2. rcont[r] \in Cont /\ \A t \in Runtime : rcont[r] \notin pool[t]
    BY <1>0, <1>f, <2>1 DEF TypeInv, Placed, WithContainer, InAfterRun
  <2>3. CASE Disposable(rcont[r])
    BY <1>19, <1>s, <2>3 DEF Finish
  <2>4. CASE ~Disposable(rcont[r])
    BY <1>19, <1>c, <2>1, <2>2, <2>4 DEF Finish
  <2> QED
    BY <2>3, <2>4
<1>20. ASSUME NEW r \in Req, CleanUpAfterRun(r) PROVE PoolClean'
  <2>1. pc[r] = "cleanup" /\ CheckMemory(r) /\ UNCHANGED <<pool, doomed>>
        /\ st' = [st EXCEPT ![rcont[r]] = "stopped"]
    BY <1>20 DEF CleanUpAfterRun, CleanUp
  <2>2. rcont[r] \in Cont /\ \A t \in Runtime : rcont[r] \notin pool[t]
    BY <1>0, <1>f, <2>1 DEF TypeInv, Placed, WithContainer, InAfterRun
  <2>3. \A b \in Cont : b # rcont[r] => st'[b] = st[b]
    BY <1>0, <2>1 DEF TypeInv, TypeOK
  <2> QED
    BY <1>c, <2>1, <2>2, <2>3
<1>21. ASSUME NEW r \in Req, CheckMemoryAgain(r) PROVE PoolClean'
  <2>1. pc[r] = "memory" /\ CheckMemory(r) /\ UNCHANGED <<pool, doomed, st>>
    BY <1>21 DEF CheckMemoryAgain
  <2>2. rcont[r] \in Cont /\ \A t \in Runtime : rcont[r] \notin pool[t]
    BY <1>0, <1>f, <2>1 DEF TypeInv, Placed, WithContainer, InAfterRun
  <2> QED
    BY <1>c, <2>1, <2>2
<1>22. ASSUME NEW c \in Cont, EvictStep(c) PROVE PoolClean'
  <2>1. evict[c] # "no" /\ UNCHANGED <<pool, doomed, rcont>>
    BY <1>22 DEF EvictStep, EvictStopAccepting, EvictCountConns, EvictCleanUp, EvictDropIndex
  <2>2. \A t \in Runtime : c \notin pool[t]
    BY <1>f, <2>1
  <2>3. \A b \in Cont : b # c => st'[b] = st[b] /\ evict'[b] = evict[b]
    BY <1>0, <1>22
    DEF EvictStep, EvictStopAccepting, EvictCountConns, EvictCleanUp, CleanUp, EvictDropIndex, TypeInv, TypeOK
  <2> QED
    BY <1>t, <2>1, <2>2, <2>3
<1>23. ASSUME NEW c \in Cont, Expire(c) PROVE PoolClean'
  BY <1>23, <1>d DEF Expire
<1>24. ASSUME NEW c \in Cont, DeleteContainer(c), st[c] = "running" \/ c \in doomed,
              UNCHANGED <<pool, rcont>>, doomed' \subseteq doomed
       PROVE  PoolClean'
  <2>1. CASE c \in cache
    BY <1>24, <1>d, <2>1 DEF DeleteContainer
  <2>2. CASE c \notin cache
    <3>1. \A t \in Runtime : c \notin pool[t]
      BY <1>24, <1>f
    <3>2. \A b \in Cont : b # c => st'[b] = st[b] /\ evict'[b] = evict[b]
      BY <1>0, <1>24, <2>2 DEF DeleteContainer, TypeInv, TypeOK
    <3> QED
      BY <1>24, <1>t, <3>1, <3>2
  <2> QED
    BY <2>1, <2>2
<1>25. ASSUME NEW c \in Cont, StreamError(c) \/ DeleteDoomed(c) PROVE PoolClean'
  BY <1>24, <1>25 DEF StreamError, DeleteDoomed, Accepting
<1>26. ASSUME NEW i \in Index, DeleteIndex(i) PROVE PoolClean'
  <2>1. doomed' \subseteq doomed \cup cache /\ UNCHANGED <<pool, st, evict, rcont>>
    BY <1>26 DEF DeleteIndex
  <2> QED
    BY <1>f, <2>1, SameClean
<1>27. ASSUME NEW t \in Runtime, FillPool(t) PROVE PoolClean'
  <2>1. UNCHANGED <<evict, doomed, rcont>>
    BY <1>27 DEF FillPool
  <2>2. CASE CreateFresh(t)
    BY <1>0, <2>1, <2>2, CreateClean
  <2>3. CASE UNCHANGED <<pool, st, cdef, conns>>
    BY <1>s, <2>1, <2>3
  <2> QED
    BY <1>27, <2>2, <2>3 DEF FillPool
<1>28. ASSUME CreatePool \/ StopPool PROVE PoolClean'
  BY <1>s, <1>28 DEF CreatePool, StopPool
<1>29. ASSUME DrainPool \/ Restart PROVE PoolClean'
  BY <1>29 DEF DrainPool, Restart, PoolClean
<1>30. ASSUME UNCHANGED vars PROVE PoolClean'
  BY <1>s, <1>30 DEF vars
<1> QED
  BY <1>1, <1>2, <1>3, <1>4, <1>5, <1>6, <1>7, <1>8, <1>9, <1>10, <1>11, <1>12, <1>13,
     <1>15, <1>16, <1>17, <1>18, <1>19, <1>20, <1>21, <1>22, <1>23, <1>25, <1>26, <1>27,
     <1>28, <1>29, <1>30
  DEF Next, RunStep, AfterRunStep, PoolStep

-----------------------------------------------------------------------------
(* Every step keeps the account of the semaphore *)

Serves == phase \in {"serving", "stopping"}

LEMMA SameHolding ==
  ASSUME Accounted, sem' = sem, Serves' => Serves,
         \A c \in Cont : Holding(c)' <=> Holding(c),
         \A c \in Cont : Holding(c) => cdef'[c] = cdef[c]
  PROVE  Accounted'
<1>1. Units' = Units
  BY DEF Units
<1> QED
  BY <1>1 DEF Accounted, Serves

\* A step in which nobody begins or ends to wait for the semaphore.
LEMMA SameWaiting ==
  ASSUME Accounted, UNCHANGED <<sem, conns>>, Serves' => Serves,
         \A r \in Req : pc'[r] = "acquire" <=> pc[r] = "acquire",
         \A r \in Req : pc[r] = "acquire" => rcont'[r] = rcont[r],
         \A c \in Cont : conns[c] # {} => cdef'[c] = cdef[c]
  PROVE  Accounted'
<1>1. \A c \in Cont : Locked(c)' <=> Locked(c)
  BY DEF Locked
<1> QED
  BY <1>1, SameHolding DEF Holding

\* A reserved connection is accounted for when it has been through the
\* semaphore, if it is the first one.
LEMMA ReserveAccounted ==
  ASSUME TypeInv, Accounted, NEW r \in Req, NEW c \in Cont, NEW next \in {"setup", "conn"},
         Reserve(r, c, next), ~Locked(c), pc[r] # "acquire", rcont'[r] = c,
         UNCHANGED <<sem, phase>>,
         \A q \in Req : q # r => rcont'[q] = rcont[q],
         \A b \in Cont : b # c \/ conns[b] # {} => cdef'[b] = cdef[b]
  PROVE  Accounted'
<1>1. /\ conns'[c] = conns[c] \cup {r}
      /\ \A b \in Cont : b # c => conns'[b] = conns[b]
      /\ pc'[r] = IF conns[c] = {} THEN "acquire" ELSE next
      /\ \A q \in Req : q # r => pc'[q] = pc[q]
  BY DEF Reserve, Goto, TypeInv, TypeOK
<1>2. \A b \in Cont : b # c => (Locked(b)' <=> Locked(b))
  BY <1>1 DEF Locked
<1>3. Locked(c)' <=> conns[c] = {}
  BY <1>1 DEF Locked
<1>4. \A b \in Cont : Holding(b)' <=> Holding(b)
  BY <1>1, <1>2, <1>3 DEF Holding
<1>5. \A b \in Cont : Holding(b) => cdef'[b] = cdef[b]
  BY DEF Holding
<1> QED
  BY <1>4, <1>5, SameHolding DEF Serves

LEMMA AcquireAccounted ==
  ASSUME NoLeak, TypeInv, Links, Accounted, NEW r \in Req, Acquire(r)
  PROVE  Accounted'
<1> USE DEF contVars
<1>1. PICK c \in Cont : c = rcont[r] /\ pc[r] = "acquire"
  BY AcquireOk DEF TypeInv, Placed, WithContainer
<1>2. conns[c] = {r} /\ cdef[c] = rdef[r] /\ rdef[r] \in Def
  BY <1>1 DEF Links, Held, Linked, TypeInv, Placed
<1>3. PICK w \in Nat : w = Weight[cdef[c]] /\ w <= Concurrency /\ sem' = sem + w
  BY <1>2, AcquireOk, RunnerAssumption DEF HasRoom, TypeInv, TypeOK
<1>4. /\ pc'[r] # "acquire" /\ \A q \in Req : q # r => pc'[q] = pc[q]
      /\ UNCHANGED <<conns, cdef, rcont, phase>>
  BY AcquireOk DEF TypeInv, TypeOK
<1>5. ASSUME NEW b \in Cont, b # c PROVE Holding(b)' <=> Holding(b)
  BY <1>1, <1>4, <1>5 DEF Holding, Locked
<1>6. ~Holding(c)
  BY <1>1 DEF Holding, Locked
<1>7. Holding(c)'
  <2>1. \A q \in Req : q # r => ~(pc[q] = "acquire" /\ rcont[q] = c)
    BY <1>2 DEF Links
  <2> QED
    BY <1>2, <1>4, <2>1 DEF Holding, Locked
<1>8. UnitsOf(c, w) \subseteq Cont \X (1..Concurrency)
  BY <1>3, RunnerAssumption DEF UnitsOf
<1>9. Units' = Units \cup UnitsOf(c, w)
  BY <1>3, <1>4, <1>5, <1>6, <1>7, <1>8 DEF Units, UnitsOf
<1>10. Units \cap UnitsOf(c, w) = {}
  BY <1>6 DEF Units, UnitsOf
<1>11. Cardinality(Units') = Cardinality(Units) + w
  BY <1>9, <1>10, GainUnits, UnitsFinite
<1>12. \A b \in Cont : Holding(b)' => Weight[cdef'[b]] <= Concurrency \/ ~Serves
  BY <1>3, <1>4, <1>5 DEF Accounted, Serves
<1> QED
  BY <1>3, <1>4, <1>11, <1>12 DEF Accounted, Serves

LEMMA ReleaseAccounted ==
  ASSUME NoLeak, TypeInv, Links, Accounted, Serves, NEW r \in Req, Release(r)
  PROVE  Accounted'
<1>1. PICK c \in Cont : c = rcont[r] /\ pc[r] = "after" /\ ~Locked(c) /\ Disconnect(r)
  BY ReleaseOk DEF Serves, TypeInv, Placed, WithContainer, InAfterRun
<1>2. PICK w \in Nat : w = Weight[rdef[r]] /\ w = Weight[cdef[c]] /\ UnitsOf(c, w) \subseteq Units
  BY <1>1, ReleaseOk, RunnerAssumption
  DEF Serves, Links, Held, TypeInv, TypeOK, Placed
<1>3. /\ pc'[r] # "acquire" /\ \A q \in Req : q # r => pc'[q] = pc[q]
      /\ UNCHANGED <<cdef, rcont, phase>>
      /\ sem' = IF LastConn(r) THEN sem - w ELSE sem
  <2>1. /\ pc' = [pc EXCEPT ![r] = IF err[r] # "none" THEN "delete" ELSE AfterRelease(r)]
        /\ UNCHANGED <<cdef, rcont, phase>>
        /\ sem' = IF LastConn(r) THEN sem - w ELSE sem
    BY <1>2, ReleaseOk DEF Serves
  <2>2. PICK label \in {"delete", "recreate", "finish"} : pc' = [pc EXCEPT ![r] = label]
    BY <2>1 DEF AfterRelease
  <2> QED
    BY <2>1, <2>2 DEF TypeInv, TypeOK
<1>4. /\ conns'[c] = conns[c] \ {r}
      /\ \A b \in Cont : b # c => conns'[b] = conns[b]
  BY <1>1 DEF Disconnect, TypeInv, TypeOK
<1>5. \A b \in Cont : Locked(b)' <=> Locked(b)
  BY <1>1, <1>3 DEF Locked
<1>6. ASSUME NEW b \in Cont, b # c PROVE Holding(b)' <=> Holding(b)
  BY <1>4, <1>5, <1>6 DEF Holding
<1>7. CASE LastConn(r)
  <2>1. ~Holding(c)'
    BY <1>1, <1>4, <1>7 DEF Holding, LastConn
  <2>2. Units' = Units \ UnitsOf(c, w)
    BY <1>2, <1>3, <1>6, <2>1 DEF Units, UnitsOf
  <2>3. Cardinality(Units') = Cardinality(Units) - w
    BY <1>2, <2>2, LoseUnits, UnitsFinite
  <2>4. \A b \in Cont : Holding(b)' => Weight[cdef'[b]] <= Concurrency
    BY <1>3, <1>6, <2>1 DEF Accounted, Serves
  <2> QED
    BY <1>3, <1>7, <2>3, <2>4 DEF Accounted, Serves
<1>8. CASE ~LastConn(r)
  <2>1. Holding(c)' <=> Holding(c)
    BY <1>1, <1>4, <1>5, <1>8 DEF Holding, LastConn
  <2> QED
    BY <1>3, <1>6, <1>8, <2>1, SameHolding DEF Serves
<1> QED
  BY <1>7, <1>8

LEMMA AccountedStep ==
  ASSUME NoLeak, PoolInv, Possession, Links, PoolClean, Accounted, [Next]_vars
  PROVE  Accounted'
<1>0. TypeInv /\ Debts
  BY DEF PoolInv
<1>p. \A r \in Req : pc[r] # "idle" /\ phase # "crashed" => Serves
  BY <1>0 DEF Debts, TypeInv, TypeOK, Phases, Serves
<1> USE DEF contVars, reqVars
<1>g. ASSUME NEW r \in Req, NEW label, pc' = [pc EXCEPT ![r] = label], label # "acquire",
             pc[r] # "acquire", \A q \in Req : q # r => rcont'[q] = rcont[q],
             UNCHANGED <<sem, conns, cdef>>, phase' \in {phase, "crashed"}
      PROVE  Accounted'
  <2>1. \A q \in Req : pc'[q] = "acquire" <=> pc[q] = "acquire"
    BY <1>0, <1>g DEF TypeInv, TypeOK
  <2> QED
    BY <1>g, <2>1, SameWaiting DEF Serves
<1>l. ASSUME NEW r \in Req, NEW label \in {"after", "run"}, pc[r] \in {"setup", "index"}, Leave(r, label),
             UNCHANGED <<sem, conns, cdef, rcont, phase>>
      PROVE  Accounted'
  <2>1. \A q \in Req : pc'[q] = "acquire" <=> pc[q] = "acquire"
    BY <1>0, <1>l, LeaveType DEF InRun, InAfterRun
  <2> QED
    BY <1>l, <2>1, SameWaiting DEF Serves
<1>s. ASSUME UNCHANGED <<sem, conns, cdef, pc, rcont>>, Serves' => Serves PROVE Accounted'
  BY <1>s, SameWaiting
<1>1. ASSUME NEW r \in Req, NEW d \in Def, Start(r, d) PROVE Accounted'
  BY <1>1, <1>g DEF Start, Lookup, Goto
<1>2. ASSUME NEW r \in Req, LookupAgain(r) PROVE Accounted'
  BY <1>2, <1>g DEF LookupAgain, Lookup, Goto
<1>3. ASSUME NEW r \in Req, TryCached(r) PROVE Accounted'
  BY <1>0, <1>3, <1>g DEF TryCached, Goto, TypeInv, TypeOK
<1>4. ASSUME NEW r \in Req, Miss(r) PROVE Accounted'
  <2>1. PICK label \in {"take", "wait"} : pc' = [pc EXCEPT ![r] = label]
    BY <1>4 DEF Miss, Goto
  <2> QED
    BY <1>0, <1>4, <1>g, <2>1 DEF Miss, TypeInv, TypeOK
<1>5. ASSUME NEW r \in Req, Take(r) PROVE Accounted'
  <2>1. PICK c \in pool[DefRuntime[rdef[r]]] :
          /\ ~Locked(c)
          /\ cdef' = [cdef EXCEPT ![c] = rdef[r]]
          /\ rcont' = [rcont EXCEPT ![r] = c]
          /\ IF Full(c, rdef[r]) \/ Reserved(r, c)
             THEN Fail(r, "other") /\ UNCHANGED <<conns, late>>
             ELSE Reserve(r, c, "setup") /\ UNCHANGED <<leader, err>>
    BY <1>5 DEF Take
  <2>2. pc[r] = "take" /\ UNCHANGED <<sem, phase>>
    BY <1>5 DEF Take
  <2>3. rdef[r] \in Def /\ DefRuntime[rdef[r]] \in Runtime /\ c \in Cont
    BY <1>0, <2>1, <2>2, RunnerAssumption DEF TypeInv, TypeOK, Placed
  <2>4. \A q \in Req : rcont[q] # c
    BY <2>3, <2>1 DEF PoolClean
  <2>5. conns[c] = {}
    BY <1>0, <2>3, <2>4, NoUsersNoConns
  <2>6. ~Full(c, rdef[r]) /\ ~Reserved(r, c)
    BY <2>3, <2>5, LimitType, FS_EmptySet DEF Full, Reserved
  <2>7. Reserve(r, c, "setup")
    BY <2>1, <2>6
  <2>8. /\ rcont'[r] = c
        /\ \A q \in Req : q # r => rcont'[q] = rcont[q]
        /\ \A b \in Cont : b # c => cdef'[b] = cdef[b]
    BY <1>0, <2>1, <2>3 DEF TypeInv, TypeOK
  <2> QED
    BY <1>0, <2>1, <2>2, <2>3, <2>5, <2>7, <2>8, ReserveAccounted
<1>6. ASSUME NEW r \in Req, ReserveCached(r) PROVE Accounted'
  <2>1. pc[r] = "reserve" /\ ~Locked(rcont[r]) /\ UNCHANGED <<cdef, rcont, sem, phase>>
    BY <1>6 DEF ReserveCached
  <2>2. PICK c \in Cont : c = rcont[r]
    BY <1>0, <2>1 DEF TypeInv, Placed, WithContainer
  <2>3. CASE Goto(r, "try") /\ UNCHANGED conns
    BY <1>g, <2>1, <2>3 DEF Goto
  <2>4. CASE Reserve(r, c, "conn")
    BY <1>0, <2>1, <2>2, <2>4, ReserveAccounted
  <2> QED
    BY <1>0, <1>6, <2>2, <2>3, <2>4, ReserveCachedOk
<1>7. ASSUME NEW r \in Req, Acquire(r) PROVE Accounted'
  BY <1>0, <1>7, AcquireAccounted
<1>8. ASSUME NEW r \in Req, SetUp(r) PROVE Accounted'
  <2>1. pc[r] = "setup" /\ UNCHANGED <<sem, conns, cdef, rcont, phase>>
    BY <1>8 DEF SetUp
  <2>2. CASE pc' = [pc EXCEPT ![r] = "add"]
    BY <1>g, <2>1, <2>2
  <2>3. CASE Leave(r, "after")
    BY <1>l, <2>1, <2>3
  <2> QED
    BY <1>8, <2>2, <2>3, SetUpOk
<1>9. ASSUME NEW r \in Req, AddToCache(r) PROVE Accounted'
  BY <1>9, <1>g DEF AddToCache, Goto
<1>10. ASSUME NEW r \in Req, AddToIndex(r) PROVE Accounted'
  BY <1>10, <1>l DEF AddToIndex
<1>11. ASSUME NEW r \in Req, Conn(r) PROVE Accounted'
  <2>1. /\ pc[r] = "conn" /\ UNCHANGED <<sem, conns, cdef, rcont>>
        /\ \/ phase' = "crashed" /\ UNCHANGED pc
           \/ Goto(r, "run") /\ UNCHANGED phase
    BY <1>11 DEF Conn, Crash
  <2>2. CASE phase' = "crashed" /\ UNCHANGED pc
    BY <1>s, <2>1, <2>2 DEF Serves
  <2>3. CASE Goto(r, "run") /\ UNCHANGED phase
    BY <1>g, <2>1, <2>3 DEF Goto
  <2> QED
    BY <2>1, <2>2, <2>3
<1>12. ASSUME NEW r \in Req, RunScript(r) PROVE Accounted'
  BY <1>12, <1>g DEF RunScript, Goto
<1>13. ASSUME NEW r \in Req, ReturnMissing(r) \/ ReturnUnacquired(r) PROVE Accounted'
  BY <1>13 DEF ReturnMissing, ReturnUnacquired, Links
<1>15. ASSUME NEW r \in Req, phase # "crashed", Release(r) PROVE Accounted'
  BY <1>0, <1>15, <1>p, ReleaseAccounted DEF Release
<1>16. ASSUME NEW r \in Req, Delete(r) PROVE Accounted'
  BY <1>16, <1>g DEF Delete, Goto
<1>17. ASSUME NEW r \in Req, StopAccepting(r) PROVE Accounted'
  BY <1>17, <1>g DEF StopAccepting, AfterRelease, Goto
<1>k. ASSUME NEW t \in Runtime, CreateFresh(t), UNCHANGED <<rcont, rdef, err, sem, phase>>,
             \A q \in Req : pc'[q] = pc[q] \/ (pc[q] = "recreate" /\ pc'[q] = "finish")
      PROVE  Accounted'
  <2>1. conns' = conns
    BY <1>0, <1>k, CreateLinks DEF Held, Linked
  <2>2. PICK c \in Cont : Unused(c) /\ cdef' = [cdef EXCEPT ![c] = None]
    BY <1>k DEF CreateFresh
  <2>3. conns[c] = {} /\ \A b \in Cont : b # c => cdef'[b] = cdef[b]
    BY <1>0, <2>2, NoUsersNoConns DEF Unused, TypeInv, TypeOK
  <2> QED
    BY <1>k, <2>1, <2>3, SameWaiting DEF Serves
<1>18. ASSUME NEW r \in Req, Recreate(r) PROVE Accounted'
  <2>1. pc[r] = "recreate" /\ UNCHANGED <<rdef, rcont, err, sem>>
    BY <1>18 DEF Recreate
  <2>2. CASE CreateFresh(DefRuntime[rdef[r]]) /\ Goto(r, "finish") /\ UNCHANGED phase
    <3>1. \A q \in Req : pc'[q] = pc[q] \/ (pc[q] = "recreate" /\ pc'[q] = "finish")
      BY <1>0, <2>1, <2>2 DEF Goto, TypeInv, TypeOK
    <3>2. DefRuntime[rdef[r]] \in Runtime
      BY <1>0, <2>1, RunnerAssumption DEF TypeInv, Placed
    <3> QED
      BY <1>k, <2>1, <2>2, <3>1, <3>2
  <2>3. CASE Crash /\ UNCHANGED <<pool, st, cdef, conns, pc>>
    BY <1>s, <2>1, <2>3 DEF Crash, Serves
  <2> QED
    BY <1>18, <2>2, <2>3 DEF Recreate
<1>c. ASSUME NEW r \in Req, pc[r] \in {"finish", "cleanup", "memory"}, CheckMemory(r),
             UNCHANGED <<conns, cdef, sem>>
      PROVE  Accounted'
  <2>1. CASE Done(r)
    BY <1>0, <1>c, <1>g, <2>1 DEF Done, Goto, TypeInv, TypeOK
  <2>2. CASE Crash /\ UNCHANGED reqVars
    BY <1>c, <1>s, <2>2 DEF Crash, Serves
  <2>3. CASE Goto(r, "memory") /\ UNCHANGED <<rcont, phase>>
    BY <1>c, <1>g, <2>3 DEF Goto
  <2> QED
    BY <1>c, <2>1, <2>2, <2>3 DEF CheckMemory
<1>19. ASSUME NEW r \in Req, Finish(r) PROVE Accounted'
  <2>1. CASE Disposable(rcont[r])
    BY <1>19, <1>g, <2>1 DEF Finish, Goto
  <2>2. CASE ~Disposable(rcont[r])
    BY <1>c, <1>19, <2>2 DEF Finish
  <2> QED
    BY <2>1, <2>2
<1>20. ASSUME NEW r \in Req, CleanUpAfterRun(r) PROVE Accounted'
  BY <1>c, <1>20 DEF CleanUpAfterRun
<1>21. ASSUME NEW r \in Req, CheckMemoryAgain(r) PROVE Accounted'
  BY <1>c, <1>21 DEF CheckMemoryAgain
<1>22. ASSUME NEW c \in Cont, EvictStep(c) \/ Expire(c) \/ StreamError(c) \/ DeleteDoomed(c)
       PROVE  Accounted'
  BY <1>s, <1>22
  DEF EvictStep, EvictStopAccepting, EvictCountConns, EvictCleanUp, EvictDropIndex, Expire, StreamError,
      DeleteDoomed, Serves
<1>23. ASSUME NEW i \in Index, DeleteIndex(i) PROVE Accounted'
  BY <1>s, <1>23 DEF DeleteIndex, Serves
<1>24. ASSUME NEW t \in Runtime, FillPool(t) PROVE Accounted'
  BY <1>24 DEF FillPool, Accounted, CreateFresh, Crash
<1>25. ASSUME CreatePool PROVE Accounted'
  <2>1. \A c \in Cont : conns'[c] = {}
    BY <1>0, <1>25, NoUsersNoConns DEF CreatePool, Debts, Held, Linked
  <2>2. \A c \in Cont : ~Holding(c)'
    BY <2>1 DEF Holding
  <2>3. Units' = {}
    BY <2>2 DEF Units
  <2> QED
    BY <1>25, <2>2, <2>3, FS_EmptySet DEF CreatePool, Accounted
<1>26. ASSUME DrainPool \/ Restart PROVE Accounted'
  BY <1>26 DEF DrainPool, Restart, Accounted
<1>27. ASSUME StopPool PROVE Accounted'
  BY <1>s, <1>27 DEF StopPool, Serves
<1>28. ASSUME UNCHANGED vars PROVE Accounted'
  BY <1>s, <1>28 DEF vars, Serves
<1> QED
  BY <1>1, <1>2, <1>3, <1>4, <1>5, <1>6, <1>7, <1>8, <1>9, <1>10, <1>11, <1>12, <1>13,
     <1>15, <1>16, <1>17, <1>18, <1>19, <1>20, <1>21, <1>22, <1>23, <1>24, <1>25, <1>26, <1>27,
     <1>28 DEF Next, RunStep, AfterRunStep, PoolStep

-----------------------------------------------------------------------------
(* Nothing leaks *)

LeakInv == PoolInv /\ Possession /\ Links /\ PoolClean /\ Accounted

LEMMA LeakInit == Init => LeakInv
<1> SUFFICES ASSUME Init PROVE LeakInv
  OBVIOUS
<1>1. PoolInv
  BY PoolInit
<1>2. Possession
  BY DEF Init, Possession, Active, Unshared
<1>3. Links /\ PoolClean /\ Accounted
  BY DEF Init, Links, Held, Linked, PoolClean, Accounted
<1> QED
  BY <1>1, <1>2, <1>3 DEF LeakInv

LEMMA LeakStep == ASSUME NoLeak PROVE LeakInv /\ [Next]_vars => LeakInv'
  BY PoolStepInv, PossessionStep, LinksStep, PoolCleanStep, AccountedStep DEF LeakInv

LEMMA NothingLeaks == ASSUME NoLeak PROVE Spec => []LeakInv
  BY LeakInit, LeakStep, PTL DEF Spec

\* The semaphore's count is exactly the weight of the containers that have
\* connections: no interleaving of first and last connections with failures
\* and evictions takes units twice or forgets to give them back.
THEOREM UnitsAccounted == ASSUME NoLeak PROVE Spec => []SemaphoreAccounted
<1>1. LeakInv => SemaphoreAccounted
  BY DEF LeakInv, Accounted, SemaphoreAccounted
<1> QED
  BY <1>1, NothingLeaks, PTL

\* Once all runs have ended every unit and every connection has been returned.
THEOREM QuietLeavesNothing == ASSUME NoLeak PROVE Spec => []QuietIsFree
<1>1. ASSUME LeakInv, phase = "serving", \A r \in Req : pc[r] = "idle"
      PROVE  sem = 0 /\ \A c \in Cont : conns[c] = {}
  <2>1. \A c \in Cont : conns[c] = {}
    BY <1>1, NoUsersNoConns DEF LeakInv, PoolInv, Held, Linked
  <2>2. Units = {}
    BY <2>1 DEF Units, Holding
  <2> QED
    BY <1>1, <2>1, <2>2, FS_EmptySet DEF LeakInv, Accounted
<1>2. LeakInv => QuietIsFree
  BY <1>1 DEF QuietIsFree
<1> QED
  BY <1>2, NothingLeaks, PTL

-----------------------------------------------------------------------------
(* Who cleans up a container *)

\* From when it was set up, the container of a run is not fresh any more.
PastSetUp(r) ==
  \/ pc[r] \in {"reserve", "add", "index", "conn", "run", "recreate", "finish", "cleanup", "memory"}
  \/ pc[r] = "acquire" /\ ~isNew[r]
  \/ pc[r] = "after" /\ err[r] = "none"

\* Somebody has decided to clean up c, or has done so.
Condemned(c) ==
  \/ evict[c] = "cleanup"
  \/ st[c] = "stopped"
  \/ \E r \in Req : pc[r] = "cleanup" /\ rcont[r] = c

\* A cached or evicted container was set up, and so was that of a run which got
\* past it.
SetUps ==
  /\ \A c \in Cont : c \in cache \/ evict[c] # "no" => st[c] # "fresh"
  /\ \A r \in Req : PastSetUp(r) => st[rcont[r]] # "fresh"
  /\ \A r \in Req : pc[r] \in {"delete", "evicted"} => err[r] # "none"

\* An eviction handler counts the connections of a container that does not
\* accept any more.
Closing == \A c \in Cont : evict[c] = "count" => ~Accepting(c)

\* A container that is to be cleaned up stopped accepting before, and whoever
\* decided it saw no connections: those it has now were reserved later.
CleanUps ==
  \A c \in Cont : Condemned(c) => st[c] \notin {"fresh", "running"} /\ conns[c] \subseteq late

\* A step that creates no container.
LEMMA SameSetUps ==
  ASSUME TypeInv, SetUps,
         \A c \in Cont : st'[c] = "fresh" => st[c] = "fresh",
         \A c \in Cont : c \in cache' \/ evict'[c] # "no" =>
           c \in cache \/ evict[c] # "no" \/ st'[c] # "fresh",
         \A r \in Req : PastSetUp(r)' => \/ PastSetUp(r) /\ rcont'[r] = rcont[r]
                                         \/ st'[rcont'[r]] # "fresh",
         \A r \in Req : pc'[r] \in {"delete", "evicted"} => err'[r] # "none"
  PROVE  SetUps'
<1>1. \A r \in Req : PastSetUp(r) => rcont[r] \in Cont
  BY DEF PastSetUp, TypeInv, Placed, WithContainer, InAfterRun
<1> QED
  BY <1>1 DEF SetUps

LEMMA CreateSetUps ==
  ASSUME TypeInv, SetUps, NEW t \in Runtime, CreateFresh(t),
         UNCHANGED <<cache, evict, rcont, err, isNew>>,
         \A r \in Req : pc'[r] = pc[r] \/ (pc[r] = "recreate" /\ pc'[r] = "finish")
  PROVE  SetUps'
<1>1. PICK c \in Cont : Unused(c) /\ st' = [st EXCEPT ![c] = "fresh"]
  BY DEF CreateFresh
<1>2. c \notin cache /\ evict[c] = "no" /\ \A r \in Req : rcont[r] # c
  BY <1>1 DEF Unused
<1>3. \A b \in Cont : b # c => st'[b] = st[b]
  BY <1>1 DEF TypeInv, TypeOK
<1>4. \A r \in Req : PastSetUp(r)' => PastSetUp(r) /\ rcont[r] \in Cont
  BY DEF PastSetUp, TypeInv, Placed, WithContainer, InAfterRun
<1> QED
  BY <1>2, <1>3, <1>4 DEF SetUps

LEMMA SetUpsStep ==
  ASSUME NoLeak, LeakInv, SetUps, [Next]_vars
  PROVE  SetUps'
<1>0. TypeInv /\ Debts /\ Links
  BY DEF LeakInv, PoolInv
<1>p. \A r \in Req : pc[r] # "idle" /\ phase # "crashed" => phase \in {"serving", "stopping"}
  BY <1>0 DEF Debts, TypeInv, TypeOK, Phases
<1> USE DEF contVars, reqVars
\* One run moves on, and nothing happens to the containers.
<1>g. ASSUME NEW r \in Req, NEW label, pc' = [pc EXCEPT ![r] = label],
             PastSetUp(r)' => PastSetUp(r) /\ rcont'[r] = rcont[r],
             label \in {"delete", "evicted"} => err'[r] # "none",
             \A q \in Req : q # r => rcont'[q] = rcont[q] /\ isNew'[q] = isNew[q] /\ err'[q] = err[q],
             \A c \in Cont : st'[c] = "fresh" => st[c] = "fresh",
             \A c \in Cont : c \in cache' \/ evict'[c] # "no" => c \in cache \/ evict[c] # "no"
      PROVE  SetUps'
  <2>1. pc'[r] = label /\ \A q \in Req : q # r => pc'[q] = pc[q]
    BY <1>0, <1>g DEF TypeInv, TypeOK
  <2>2. \A q \in Req : PastSetUp(q)' => PastSetUp(q) /\ rcont'[q] = rcont[q]
    BY <1>g, <2>1 DEF PastSetUp
  <2>3. \A q \in Req : pc'[q] \in {"delete", "evicted"} => err'[q] # "none"
    BY <1>g, <2>1 DEF SetUps
  <2> QED
    BY <1>0, <1>g, <2>2, <2>3, SameSetUps
<1>l. ASSUME NEW r \in Req, NEW label \in {"after", "run"}, pc[r] # "idle", Leave(r, label),
             PastSetUp(r)' => PastSetUp(r),
             \A q \in Req : q # r => err'[q] = err[q],
             UNCHANGED <<st, cache, evict, rcont, isNew>>
      PROVE  SetUps'
  <2>1. /\ pc'[r] = label
        /\ \A q \in Req : q # r => pc'[q] = pc[q] \/ (pc[q] = "wait" /\ pc'[q] = "woken")
    BY <1>0, <1>l, LeaveType DEF InRun, InAfterRun
  <2>2. \A q \in Req : PastSetUp(q)' => PastSetUp(q)
    BY <1>l, <2>1 DEF PastSetUp
  <2>3. \A q \in Req : pc'[q] \in {"delete", "evicted"} => err'[q] # "none"
    BY <1>l, <2>1 DEF SetUps
  <2> QED
    BY <1>0, <1>l, <2>2, <2>3, SameSetUps
<1>s. ASSUME UNCHANGED reqVars,
             \A c \in Cont : st'[c] = "fresh" => st[c] = "fresh",
             \A c \in Cont : c \in cache' \/ evict'[c] # "no" => c \in cache \/ evict[c] # "no"
      PROVE  SetUps'
  <2>1. \A q \in Req : PastSetUp(q)' => PastSetUp(q) /\ rcont'[q] = rcont[q]
    BY <1>s DEF PastSetUp
  <2>2. \A q \in Req : pc'[q] \in {"delete", "evicted"} => err'[q] # "none"
    BY <1>s DEF SetUps
  <2> QED
    BY <1>0, <1>s, <2>1, <2>2, SameSetUps
<1>1. ASSUME NEW r \in Req, NEW d \in Def, Start(r, d) PROVE SetUps'
  BY <1>0, <1>1, <1>g DEF Start, Lookup, Goto, PastSetUp, TypeInv, TypeOK
<1>2. ASSUME NEW r \in Req, LookupAgain(r) PROVE SetUps'
  BY <1>0, <1>2, <1>g DEF LookupAgain, Lookup, Goto, PastSetUp, TypeInv, TypeOK
<1>3. ASSUME NEW r \in Req, TryCached(r) PROVE SetUps'
  <2>1. PICK c \in cand[r] : GoodStanding(c) /\ rcont' = [rcont EXCEPT ![r] = c]
    BY <1>3 DEF TryCached
  <2>2. pc' = [pc EXCEPT ![r] = "reserve"] /\ UNCHANGED <<st, cache, evict, isNew, err>>
    BY <1>3 DEF TryCached, Goto
  <2>3. st'[rcont'[r]] # "fresh"
    BY <1>0, <2>1, <2>2 DEF GoodStanding, Accepting, TypeInv, TypeOK
  <2>4. \A q \in Req : q # r => (PastSetUp(q)' <=> PastSetUp(q)) /\ rcont'[q] = rcont[q]
    BY <1>0, <2>1, <2>2 DEF PastSetUp, TypeInv, TypeOK
  <2>5. \A q \in Req : pc'[q] \in {"delete", "evicted"} => err'[q] # "none"
    BY <1>0, <2>2 DEF SetUps, TypeInv, TypeOK
  <2> QED
    BY <1>0, <2>2, <2>3, <2>4, <2>5, SameSetUps
<1>4. ASSUME NEW r \in Req, Miss(r) PROVE SetUps'
  <2>1. PICK label \in {"take", "wait"} : pc' = [pc EXCEPT ![r] = label]
    BY <1>4 DEF Miss, Goto
  <2>2. ~PastSetUp(r)'
    BY <1>0, <2>1 DEF PastSetUp, TypeInv, TypeOK
  <2> QED
    BY <1>0, <1>4, <1>g, <2>1, <2>2 DEF Miss, TypeInv, TypeOK
<1>5. ASSUME NEW r \in Req, Take(r) PROVE SetUps'
  <2>1. PICK c \in pool[DefRuntime[rdef[r]]] :
          /\ rcont' = [rcont EXCEPT ![r] = c]
          /\ IF Full(c, rdef[r]) \/ Reserved(r, c)
             THEN Fail(r, "other") /\ UNCHANGED <<conns, late>>
             ELSE Reserve(r, c, "setup") /\ UNCHANGED <<leader, err>>
    BY <1>5 DEF Take
  <2>2. pc[r] = "take" /\ isNew' = [isNew EXCEPT ![r] = TRUE] /\ UNCHANGED <<st, cache, evict>>
    BY <1>5 DEF Take
  <2>3. /\ pc'[r] \in {"acquire", "setup", "after"}
        /\ pc'[r] = "after" => err'[r] = "other"
        /\ \A q \in Req : q # r => /\ pc'[q] = pc[q] \/ (pc[q] = "wait" /\ pc'[q] = "woken")
                                   /\ err'[q] = err[q]
    <3>1. CASE Full(c, rdef[r]) \/ Reserved(r, c)
      BY <1>0, <2>1, <2>2, <3>1, LeaveType DEF Fail, InAfterRun, TypeInv, TypeOK
    <3>2. CASE ~(Full(c, rdef[r]) \/ Reserved(r, c))
      BY <1>0, <2>1, <2>2, <3>2 DEF Reserve, Goto, TypeInv, TypeOK
    <3> QED
      BY <3>1, <3>2
  <2>4. isNew'[r] /\ \A q \in Req : q # r => isNew'[q] = isNew[q] /\ rcont'[q] = rcont[q]
    BY <1>0, <2>1, <2>2 DEF TypeInv, TypeOK
  <2>5. ~PastSetUp(r)' /\ \A q \in Req : q # r => (PastSetUp(q)' => PastSetUp(q))
    BY <2>3, <2>4 DEF PastSetUp
  <2>6. \A q \in Req : pc'[q] \in {"delete", "evicted"} => err'[q] # "none"
    BY <2>3 DEF SetUps
  <2> QED
    BY <1>0, <2>2, <2>4, <2>5, <2>6, SameSetUps
<1>6. ASSUME NEW r \in Req, ReserveCached(r) PROVE SetUps'
  <2>1. pc[r] = "reserve" /\ UNCHANGED <<st, cache, evict, rcont, isNew, err>>
    BY <1>0, <1>6, ReserveCachedOk DEF ReserveCached
  <2>2. PICK label \in {"try", "acquire", "conn"} : pc' = [pc EXCEPT ![r] = label]
    BY <1>0, <1>6, ReserveCachedOk DEF Reserve, Goto
  <2> QED
    BY <1>g, <2>1, <2>2 DEF PastSetUp
<1>7. ASSUME NEW r \in Req, Acquire(r) PROVE SetUps'
  <2>1. /\ pc[r] = "acquire" /\ UNCHANGED <<st, cache, evict, rcont, isNew, err>>
        /\ pc' = [pc EXCEPT ![r] = IF isNew[r] THEN "setup" ELSE "conn"]
    BY <1>7, AcquireOk
  <2>2. PastSetUp(r)' => PastSetUp(r)
    BY <1>0, <2>1 DEF PastSetUp, TypeInv, TypeOK
  <2> QED
    BY <1>g, <2>1, <2>2
<1>8. ASSUME NEW r \in Req, SetUp(r) PROVE SetUps'
  <2>1. pc[r] = "setup" /\ rcont[r] \in Cont /\ UNCHANGED <<cache, evict, rcont, isNew>>
    BY <1>0, <1>8 DEF SetUp, TypeInv, Placed, WithContainer
  <2>2. CASE /\ pc' = [pc EXCEPT ![r] = "add"] /\ UNCHANGED err
             /\ st' = [st EXCEPT ![rcont[r]] = IF @ = "fresh" THEN "running" ELSE @]
    <3>1. /\ st'[rcont[r]] # "fresh"
          /\ \A c \in Cont : st'[c] = "fresh" => st[c] = "fresh"
      BY <1>0, <2>1, <2>2 DEF TypeInv, TypeOK
    <3>2. \A q \in Req : q # r => (PastSetUp(q)' <=> PastSetUp(q))
      BY <1>0, <2>1, <2>2 DEF PastSetUp, TypeInv, TypeOK
    <3>3. \A q \in Req : pc'[q] \in {"delete", "evicted"} => err'[q] # "none"
      BY <1>0, <2>2 DEF SetUps, TypeInv, TypeOK
    <3> QED
      BY <1>0, <2>1, <3>1, <3>2, <3>3, SameSetUps
  <2>3. CASE err' = [err EXCEPT ![r] = "other"] /\ Leave(r, "after") /\ UNCHANGED st
    <3>1. err'[r] = "other" /\ \A q \in Req : q # r => err'[q] = err[q]
      BY <1>0, <2>3 DEF TypeInv, TypeOK
    <3>2. pc'[r] = "after"
      BY <1>0, <2>1, <2>3, LeaveType DEF InAfterRun
    <3>3. ~PastSetUp(r)'
      BY <3>1, <3>2 DEF PastSetUp
    <3> QED
      BY <1>l, <2>1, <2>3, <3>1, <3>3
  <2> QED
    BY <1>8, <2>2, <2>3, SetUpOk
<1>9. ASSUME NEW r \in Req, AddToCache(r) PROVE SetUps'
  <2>1. /\ pc[r] = "add" /\ rcont[r] \in Cont /\ pc' = [pc EXCEPT ![r] = "index"]
        /\ UNCHANGED <<st, rcont, isNew, err>>
    BY <1>0, <1>9 DEF AddToCache, Goto, TypeInv, Placed, WithContainer
  <2>2. st[rcont[r]] # "fresh"
    BY <2>1 DEF SetUps, PastSetUp
  <2>3. \A c \in Cont : c \in cache' \/ evict'[c] # "no" => c \in cache \/ evict[c] # "no" \/ c = rcont[r]
    BY <1>0, <1>9 DEF AddToCache, TypeInv, TypeOK
  <2>4. \A q \in Req : PastSetUp(q)' => PastSetUp(q) /\ rcont'[q] = rcont[q]
    BY <1>0, <2>1 DEF PastSetUp, TypeInv, TypeOK
  <2>5. \A q \in Req : pc'[q] \in {"delete", "evicted"} => err'[q] # "none"
    BY <1>0, <2>1 DEF SetUps, TypeInv, TypeOK
  <2> QED
    BY <1>0, <2>1, <2>2, <2>3, <2>4, <2>5, SameSetUps
<1>10. ASSUME NEW r \in Req, AddToIndex(r) PROVE SetUps'
  BY <1>10, <1>l DEF AddToIndex, PastSetUp
<1>11. ASSUME NEW r \in Req, Conn(r) PROVE SetUps'
  <2>1. pc[r] = "conn" /\ UNCHANGED <<st, cache, evict, rcont, isNew, err>>
        /\ (UNCHANGED pc \/ Goto(r, "run"))
    BY <1>11 DEF Conn
  <2>2. CASE UNCHANGED pc
    BY <1>0, <2>1, <2>2, SameSetUps DEF PastSetUp, SetUps
  <2>3. CASE Goto(r, "run")
    BY <1>g, <2>1, <2>3 DEF Goto, PastSetUp
  <2> QED
    BY <2>1, <2>2, <2>3
<1>12. ASSUME NEW r \in Req, RunScript(r) PROVE SetUps'
  <2>1. pc[r] = "run" /\ pc' = [pc EXCEPT ![r] = "after"]
        /\ UNCHANGED <<st, cache, evict, rcont, isNew>>
        /\ \A q \in Req : q # r => err'[q] = err[q]
    BY <1>0, <1>12 DEF RunScript, Goto, TypeInv, TypeOK
  <2> QED
    BY <1>g, <2>1 DEF PastSetUp
<1>13. ASSUME NEW r \in Req, ReturnMissing(r) \/ ReturnUnacquired(r) PROVE SetUps'
  BY <1>0, <1>13 DEF ReturnMissing, ReturnUnacquired, Links
<1>15. ASSUME NEW r \in Req, phase # "crashed", Release(r) PROVE SetUps'
  <2>1. /\ pc[r] = "after"
        /\ pc' = [pc EXCEPT ![r] = IF err[r] # "none" THEN "delete" ELSE AfterRelease(r)]
        /\ UNCHANGED <<st, cache, evict, rcont, isNew, err>>
    BY <1>15, <1>p, ReleaseOk DEF Release, LeakInv, PoolInv
  <2>2. CASE err[r] # "none"
    <3>1. ~PastSetUp(r)'
      BY <1>0, <2>1, <2>2 DEF PastSetUp, TypeInv, TypeOK
    <3> QED
      BY <1>g, <2>1, <2>2, <3>1
  <2>3. CASE err[r] = "none"
    <3>1. PICK label \in {"recreate", "finish"} : pc' = [pc EXCEPT ![r] = label]
      BY <2>1, <2>3 DEF AfterRelease
    <3> QED
      BY <1>g, <2>1, <2>3, <3>1 DEF PastSetUp
  <2> QED
    BY <2>2, <2>3
<1>16. ASSUME NEW r \in Req, Delete(r) PROVE SetUps'
  <2>1. /\ pc[r] = "delete" /\ err[r] # "none" /\ pc' = [pc EXCEPT ![r] = "evicted"]
        /\ UNCHANGED <<st, rcont, isNew, err>>
    BY <1>16 DEF Delete, Goto, SetUps
  <2>2. \A c \in Cont : c \in cache' \/ evict'[c] # "no" => c \in cache \/ evict[c] # "no"
    BY <1>0, <1>16 DEF Delete, CacheDelete, TypeInv, TypeOK
  <2>3. ~PastSetUp(r)'
    BY <1>0, <2>1 DEF PastSetUp, TypeInv, TypeOK
  <2> QED
    BY <1>g, <2>1, <2>2, <2>3
<1>17. ASSUME NEW r \in Req, StopAccepting(r) PROVE SetUps'
  <2>1. /\ pc[r] = "evicted" /\ rcont[r] \in Cont
        /\ st' = [st EXCEPT ![rcont[r]] = StoppedAccepting(rcont[r])]
        /\ UNCHANGED <<cache, evict, rcont, isNew, err>>
    BY <1>0, <1>17 DEF StopAccepting, TypeInv, Placed, WithContainer, InAfterRun
  <2>2. PICK label \in {"recreate", "finish"} : pc' = [pc EXCEPT ![r] = label]
    BY <1>17 DEF StopAccepting, AfterRelease, Goto
  <2>3. /\ st'[rcont[r]] # "fresh"
        /\ \A c \in Cont : st'[c] = "fresh" => st[c] = "fresh"
    BY <1>0, <2>1 DEF StoppedAccepting, TypeInv, TypeOK
  <2>4. \A q \in Req : q # r => (PastSetUp(q)' <=> PastSetUp(q))
    BY <1>0, <2>1, <2>2 DEF PastSetUp, TypeInv, TypeOK
  <2>5. \A q \in Req : pc'[q] \in {"delete", "evicted"} => err'[q] # "none"
    BY <1>0, <2>1, <2>2 DEF SetUps, TypeInv, TypeOK
  <2> QED
    BY <1>0, <2>1, <2>3, <2>4, <2>5, SameSetUps
<1>18. ASSUME NEW r \in Req, Recreate(r) PROVE SetUps'
  <2>1. pc[r] = "recreate" /\ UNCHANGED <<cache, evict, rcont, err, isNew>>
    BY <1>18 DEF Recreate
  <2>2. CASE CreateFresh(DefRuntime[rdef[r]]) /\ Goto(r, "finish")
    <3>1. \A q \in Req : pc'[q] = pc[q] \/ (pc[q] = "recreate" /\ pc'[q] = "finish")
      BY <1>0, <2>1, <2>2 DEF Goto, TypeInv, TypeOK
    <3>2. DefRuntime[rdef[r]] \in Runtime
      BY <1>0, <2>1, RunnerAssumption DEF TypeInv, Placed
    <3> QED
      BY <1>0, <2>1, <2>2, <3>1, <3>2, CreateSetUps
  <2>3. CASE UNCHANGED <<pool, st, cdef, conns, pc>>
    BY <1>0, <2>1, <2>3, SameSetUps DEF PastSetUp, SetUps
  <2> QED
    BY <1>18, <2>2, <2>3 DEF Recreate
<1>c. ASSUME NEW r \in Req, pc[r] \in {"finish", "cleanup", "memory"}, CheckMemory(r),
             \A c \in Cont : st'[c] = "fresh" => st[c] = "fresh"
      PROVE  SetUps'
  <2>1. CASE Done(r)
    <3>1. ~PastSetUp(r)'
      BY <1>0, <2>1 DEF Done, Goto, PastSetUp, TypeInv, TypeOK
    <3> QED
      BY <1>0, <1>c, <1>g, <2>1, <3>1 DEF Done, Goto, TypeInv, TypeOK
  <2>2. CASE UNCHANGED <<cache, evict, reqVars, late>>
    BY <1>c, <1>s, <2>2
  <2>3. ASSUME NEW v \in cache, CacheDelete(v), Goto(r, "memory"),
               UNCHANGED <<phase, rdef, rcont, cand, isNew, err, late>>
        PROVE  SetUps'
    <3>1. \A c \in Cont : c \in cache' \/ evict'[c] # "no" => c \in cache \/ evict[c] # "no"
      BY <1>0, <2>3 DEF CacheDelete, TypeInv, TypeOK
    <3> QED
      BY <1>c, <1>g, <2>3, <3>1 DEF Goto, PastSetUp
  <2> QED
    BY <1>c, <2>1, <2>2, <2>3 DEF CheckMemory
<1>19. ASSUME NEW r \in Req, Finish(r) PROVE SetUps'
  <2>1. CASE Disposable(rcont[r])
    BY <1>19, <1>g, <2>1 DEF Finish, Goto, PastSetUp
  <2>2. CASE ~Disposable(rcont[r])
    BY <1>c, <1>19, <2>2 DEF Finish
  <2> QED
    BY <2>1, <2>2
<1>20. ASSUME NEW r \in Req, CleanUpAfterRun(r) PROVE SetUps'
  BY <1>0, <1>c, <1>20 DEF CleanUpAfterRun, CleanUp, TypeInv, TypeOK
<1>21. ASSUME NEW r \in Req, CheckMemoryAgain(r) PROVE SetUps'
  BY <1>c, <1>21 DEF CheckMemoryAgain
<1>22. ASSUME NEW c \in Cont, EvictStep(c) PROVE SetUps'
  <2>1. evict[c] # "no" /\ UNCHANGED <<cache, reqVars>>
    BY <1>22 DEF EvictStep, EvictStopAccepting, EvictCountConns, EvictCleanUp, EvictDropIndex
  <2>2. /\ \A b \in Cont : st'[b] = "fresh" => st[b] = "fresh"
        /\ \A b \in Cont : b # c => evict'[b] = evict[b]
    BY <1>0, <1>22
    DEF EvictStep, EvictStopAccepting, EvictCountConns, EvictCleanUp, CleanUp, EvictDropIndex, TypeInv, TypeOK
  <2> QED
    BY <1>s, <2>1, <2>2
<1>23. ASSUME NEW c \in Cont, (Expire(c) \/ StreamError(c)) \/ DeleteDoomed(c) PROVE SetUps'
  <2>1. UNCHANGED reqVars
    BY <1>23 DEF Expire, StreamError, DeleteDoomed
  <2>2. (c \in cache /\ CacheDelete(c) /\ UNCHANGED st) \/ DeleteContainer(c)
    BY <1>23 DEF Expire, StreamError, DeleteDoomed
  <2>3. /\ \A b \in Cont : st'[b] = "fresh" => st[b] = "fresh"
        /\ \A b \in Cont : b \in cache' \/ evict'[b] # "no" => b \in cache \/ evict[b] # "no"
    BY <1>0, <2>2 DEF DeleteContainer, CacheDelete, StoppedAccepting, TypeInv, TypeOK
  <2> QED
    BY <1>s, <2>1, <2>3
<1>24. ASSUME NEW i \in Index, DeleteIndex(i) PROVE SetUps'
  BY <1>s, <1>24 DEF DeleteIndex
<1>25. ASSUME NEW t \in Runtime, FillPool(t) PROVE SetUps'
  <2>1. CASE CreateFresh(t)
    BY <1>0, <1>25, <2>1, CreateSetUps DEF FillPool
  <2>2. CASE UNCHANGED <<pool, st, cdef, conns>>
    BY <1>s, <1>25, <2>2 DEF FillPool
  <2> QED
    BY <1>25, <2>1, <2>2 DEF FillPool
<1>26. ASSUME CreatePool \/ StopPool PROVE SetUps'
  BY <1>s, <1>26 DEF CreatePool, StopPool
<1>27. ASSUME DrainPool PROVE SetUps'
  BY <1>s, <1>27 DEF DrainPool, Flush
<1>28. ASSUME Restart PROVE SetUps'
  BY <1>28 DEF Restart, SetUps, PastSetUp
<1>29. ASSUME UNCHANGED vars PROVE SetUps'
  BY <1>s, <1>29 DEF vars
<1> QED
  BY <1>1, <1>2, <1>3, <1>4, <1>5, <1>6, <1>7, <1>8, <1>9, <1>10, <1>11, <1>12, <1>13,
     <1>15, <1>16, <1>17, <1>18, <1>19, <1>20, <1>21, <1>22, <1>23, <1>24, <1>25, <1>26,
     <1>27, <1>28, <1>29
  DEF Next, RunStep, AfterRunStep, PoolStep

-----------------------------------------------------------------------------
(* Only a fresh container starts to accept, and handlers handle others *)

LEMMA ClosingStep ==
  ASSUME LeakInv, SetUps, Closing, [Next]_vars
  PROVE  Closing'
<1>0. TypeInv
  BY DEF LeakInv, PoolInv
<1> USE DEF contVars, reqVars
<1>s. ASSUME \A c \in Cont : st'[c] = "running" => st[c] \in {"fresh", "running"},
             \A c \in Cont : evict'[c] = "count" => evict[c] = "count"
      PROVE  Closing'
  BY <1>s DEF Closing, SetUps, Accepting
<1>1. ASSUME NEW r \in Req,
             (\E d \in Def : Start(r, d)) \/ LookupAgain(r) \/ TryCached(r) \/ Miss(r) \/ Take(r) \/ ReserveCached(r)
             \/ Acquire(r) \/ AddToIndex(r) \/ Conn(r) \/ RunScript(r) \/ ReturnMissing(r)
             \/ ReturnUnacquired(r) \/ Release(r)
      PROVE  Closing'
  <2>1. UNCHANGED <<st, evict>>
    BY <1>1 DEF Start, LookupAgain, TryCached, Miss, Take, ReserveCached, Acquire, AddToIndex,
                Conn, RunScript, ReturnMissing, ReturnUnacquired, Release
  <2> QED
    BY <1>s, <2>1
<1>2. ASSUME NEW r \in Req, SetUp(r) PROVE Closing'
  <2>1. UNCHANGED evict /\ (UNCHANGED st \/ st' = [st EXCEPT ![rcont[r]] = IF @ = "fresh" THEN "running" ELSE @])
    BY <1>2 DEF SetUp
  <2> QED
    BY <1>0, <1>s, <2>1 DEF TypeInv, TypeOK
<1>3. ASSUME NEW r \in Req, AddToCache(r) \/ Delete(r) PROVE Closing'
  BY <1>0, <1>3, <1>s DEF AddToCache, Delete, CacheDelete, TypeInv, TypeOK
<1>4. ASSUME NEW r \in Req, StopAccepting(r) PROVE Closing'
  BY <1>0, <1>4, <1>s DEF StopAccepting, StoppedAccepting, TypeInv, TypeOK
<1>5. ASSUME (\E r \in Req : Recreate(r)) \/ (\E t \in Runtime : FillPool(t)) PROVE Closing'
  <2>1. UNCHANGED evict
    BY <1>5 DEF Recreate, FillPool
  <2>2. \A c \in Cont : st'[c] = st[c] \/ st'[c] = "fresh"
    BY <1>0, <1>5 DEF Recreate, FillPool, CreateFresh, TypeInv, TypeOK
  <2> QED
    BY <1>s, <2>1, <2>2
<1>6. ASSUME NEW r \in Req, Finish(r) \/ CleanUpAfterRun(r) \/ CheckMemoryAgain(r) PROVE Closing'
  <2>1. \A c \in Cont : st'[c] = st[c] \/ st'[c] = "stopped"
    BY <1>0, <1>6 DEF Finish, CleanUpAfterRun, CleanUp, CheckMemoryAgain, TypeInv, TypeOK
  <2>2. UNCHANGED evict \/ CheckMemory(r)
    BY <1>6 DEF Finish, CleanUpAfterRun, CheckMemoryAgain
  <2>3. \A c \in Cont : evict'[c] = "count" => evict[c] = "count"
    BY <1>0, <2>2 DEF CheckMemory, Done, CacheDelete, TypeInv, TypeOK
  <2> QED
    BY <1>s, <2>1, <2>3
<1>7. ASSUME NEW c \in Cont, EvictStopAccepting(c) PROVE Closing'
  BY <1>0, <1>7 DEF EvictStopAccepting, Closing, Accepting, TypeInv, TypeOK
<1>8. ASSUME NEW c \in Cont, EvictCountConns(c) \/ EvictCleanUp(c) \/ EvictDropIndex(c) PROVE Closing'
  BY <1>0, <1>8, <1>s
  DEF EvictCountConns, EvictCleanUp, EvictDropIndex, CleanUp, CountCached, TypeInv, TypeOK
<1>9. ASSUME NEW c \in Cont, Expire(c) \/ StreamError(c) \/ DeleteDoomed(c) PROVE Closing'
  BY <1>0, <1>9, <1>s
  DEF Expire, StreamError, DeleteDoomed, DeleteContainer, CacheDelete, StoppedAccepting, TypeInv, TypeOK
<1>10. ASSUME NEW i \in Index, DeleteIndex(i) PROVE Closing'
  BY <1>10, <1>s DEF DeleteIndex
<1>11. ASSUME CreatePool \/ StopPool PROVE Closing'
  BY <1>11, <1>s DEF CreatePool, StopPool
<1>12. ASSUME DrainPool PROVE Closing'
  BY <1>0, <1>12, <1>s DEF DrainPool, Flush, TypeInv, TypeOK
<1>13. ASSUME Restart PROVE Closing'
  BY <1>13 DEF Restart, Closing
<1>14. ASSUME UNCHANGED vars PROVE Closing'
  BY <1>14, <1>s DEF vars
<1> QED
  BY <1>1, <1>2, <1>3, <1>4, <1>5, <1>6, <1>7, <1>8, <1>9, <1>10, <1>11, <1>12, <1>13, <1>14
  DEF Next, RunStep, AfterRunStep, EvictStep, PoolStep

-----------------------------------------------------------------------------
(* Every step keeps the connections of a condemned container late *)

\* A step that reserves no connection: what is condemned stays closed, and what
\* it newly condemns is closed and has no connections.
LEMMA SameCleanUps ==
  ASSUME CleanUps,
         \A c \in Cont : Condemned(c)' =>
           /\ st'[c] \notin {"fresh", "running"}
           /\ conns'[c] = {} \/ (Condemned(c) /\ conns'[c] \subseteq conns[c]),
         \A c \in Cont : conns'[c] \cap late \subseteq late'
  PROVE  CleanUps'
  BY DEF CleanUps

\* A connection to a container that is closed already is a late one.
LEMMA ReserveCleanUps ==
  ASSUME TypeInv, Links, CleanUps, NEW r \in Req, NEW c \in Cont, NEW next \in {"setup", "conn"},
         Reserve(r, c, next), pc[r] \notin {"cleanup", "after"}, ~Held(r), UNCHANGED <<st, evict>>,
         \A q \in Req : q # r => rcont'[q] = rcont[q]
  PROVE  CleanUps'
<1>1. /\ conns'[c] = conns[c] \cup {r}
      /\ \A b \in Cont : b # c => conns'[b] = conns[b]
      /\ pc'[r] # "cleanup" /\ \A q \in Req : q # r => pc'[q] = pc[q]
      /\ late' = IF st[c] \in {"fresh", "running"} THEN late \ {r} ELSE late \cup {r}
  BY DEF Reserve, Goto, TypeInv, TypeOK
<1>2. \A b \in Cont : r \notin conns[b]
  BY DEF Links
<1>3. \A b \in Cont : Condemned(b)' => Condemned(b)
  BY <1>1 DEF Condemned
<1>4. \A b \in Cont : b # c /\ Condemned(b) => conns'[b] \subseteq late'
  BY <1>1, <1>2 DEF CleanUps
<1>5. Condemned(c) => conns'[c] \subseteq late'
  BY <1>1 DEF CleanUps
<1> QED
  BY <1>3, <1>4, <1>5 DEF CleanUps

LEMMA CleanUpsStep ==
  ASSUME NoLeak, LeakInv, SetUps, Closing, CleanUps, [Next]_vars
  PROVE  CleanUps'
<1>0. TypeInv /\ Debts /\ Links
  BY DEF LeakInv, PoolInv
<1>p. \A r \in Req : pc[r] # "idle" /\ phase # "crashed" => phase \in {"serving", "stopping"}
  BY <1>0 DEF Debts, TypeInv, TypeOK, Phases
<1>u. \A c \in Cont : Condemned(c) => st[c] \notin {"fresh", "running"}
  BY DEF CleanUps
<1> USE DEF contVars, reqVars
\* Nothing happens to the connections, and nobody decides to clean up.
<1>s. ASSUME UNCHANGED <<conns, late>>,
             \A c \in Cont : st'[c] # st[c] => st'[c] \notin {"fresh", "running", "stopped"},
             \A c \in Cont : evict'[c] = "cleanup" => evict[c] = "cleanup",
             \A r \in Req : pc'[r] = "cleanup" => pc[r] = "cleanup" /\ rcont'[r] = rcont[r]
      PROVE  CleanUps'
  <2>1. \A c \in Cont : Condemned(c)' => Condemned(c)
    BY <1>s DEF Condemned
  <2> QED
    BY <1>s, <1>u, <2>1, SameCleanUps
<1>g. ASSUME NEW r \in Req, NEW label, pc' = [pc EXCEPT ![r] = label], label # "cleanup",
             UNCHANGED <<conns, late>>,
             \A q \in Req : q # r => rcont'[q] = rcont[q],
             \A c \in Cont : st'[c] # st[c] => st'[c] \notin {"fresh", "running", "stopped"},
             \A c \in Cont : evict'[c] = "cleanup" => evict[c] = "cleanup"
      PROVE  CleanUps'
  <2>1. \A q \in Req : pc'[q] = "cleanup" => pc[q] = "cleanup" /\ rcont'[q] = rcont[q]
    BY <1>0, <1>g DEF TypeInv, TypeOK
  <2> QED
    BY <1>g, <1>s, <2>1
<1>l. ASSUME NEW r \in Req, NEW label \in {"after", "run"}, pc[r] # "idle", Leave(r, label),
             UNCHANGED <<conns, late, st, evict>>,
             \A q \in Req : q # r => rcont'[q] = rcont[q]
      PROVE  CleanUps'
  <2>1. \A q \in Req : pc'[q] = "cleanup" => pc[q] = "cleanup" /\ rcont'[q] = rcont[q]
    BY <1>0, <1>l, LeaveType DEF InRun, InAfterRun
  <2> QED
    BY <1>l, <1>s, <2>1
<1>1. ASSUME NEW r \in Req, NEW d \in Def, Start(r, d) PROVE CleanUps'
  BY <1>1, <1>g DEF Start, Lookup, Goto
<1>2. ASSUME NEW r \in Req, LookupAgain(r) PROVE CleanUps'
  BY <1>2, <1>g DEF LookupAgain, Lookup, Goto
<1>3. ASSUME NEW r \in Req, TryCached(r) PROVE CleanUps'
  BY <1>0, <1>3, <1>g DEF TryCached, Goto, TypeInv, TypeOK
<1>4. ASSUME NEW r \in Req, Miss(r) PROVE CleanUps'
  <2>1. PICK label \in {"take", "wait"} : pc' = [pc EXCEPT ![r] = label]
    BY <1>4 DEF Miss, Goto
  <2> QED
    BY <1>0, <1>4, <1>g, <2>1 DEF Miss, TypeInv, TypeOK
<1>5. ASSUME NEW r \in Req, Take(r) PROVE CleanUps'
  <2>1. PICK c \in pool[DefRuntime[rdef[r]]] :
          /\ rcont' = [rcont EXCEPT ![r] = c]
          /\ IF Full(c, rdef[r]) \/ Reserved(r, c)
             THEN Fail(r, "other") /\ UNCHANGED <<conns, late>>
             ELSE Reserve(r, c, "setup") /\ UNCHANGED <<leader, err>>
    BY <1>5 DEF Take
  <2>2. pc[r] = "take" /\ UNCHANGED <<st, evict>>
    BY <1>5 DEF Take
  <2>3. c \in Cont
    BY <1>0, <2>1, <2>2, RunnerAssumption DEF TypeInv, TypeOK, Placed
  <2>4. \A q \in Req : q # r => rcont'[q] = rcont[q]
    BY <1>0, <2>1 DEF TypeInv, TypeOK
  <2>5. CASE Full(c, rdef[r]) \/ Reserved(r, c)
    BY <1>l, <2>1, <2>2, <2>4, <2>5 DEF Fail
  <2>6. CASE ~(Full(c, rdef[r]) \/ Reserved(r, c))
    BY <1>0, <2>1, <2>2, <2>3, <2>4, <2>6, ReserveCleanUps DEF Held, Linked
  <2> QED
    BY <2>5, <2>6
<1>6. ASSUME NEW r \in Req, ReserveCached(r) PROVE CleanUps'
  <2>1. pc[r] = "reserve" /\ UNCHANGED <<st, evict, rcont>>
    BY <1>6 DEF ReserveCached
  <2>2. PICK c \in Cont : c = rcont[r]
    BY <1>0, <2>1 DEF TypeInv, Placed, WithContainer
  <2>3. CASE Goto(r, "try") /\ UNCHANGED <<conns, late>>
    BY <1>g, <2>1, <2>3 DEF Goto
  <2>4. CASE Reserve(r, c, "conn")
    BY <1>0, <2>1, <2>2, <2>4, ReserveCleanUps DEF Held, Linked
  <2> QED
    BY <1>0, <1>6, <2>2, <2>3, <2>4, ReserveCachedOk
<1>7. ASSUME NEW r \in Req, Acquire(r) PROVE CleanUps'
  BY <1>7, <1>g, AcquireOk
<1>8. ASSUME NEW r \in Req, SetUp(r) PROVE CleanUps'
  <2>1. pc[r] = "setup" /\ rcont[r] \in Cont /\ UNCHANGED <<evict, rcont, conns, late>>
    BY <1>0, <1>8 DEF SetUp, TypeInv, Placed, WithContainer
  <2>2. CASE /\ pc' = [pc EXCEPT ![r] = "add"]
             /\ st' = [st EXCEPT ![rcont[r]] = IF @ = "fresh" THEN "running" ELSE @]
    <3>1. \A c \in Cont : st'[c] = st[c] \/ (st[c] = "fresh" /\ st'[c] = "running")
      BY <1>0, <2>1, <2>2 DEF TypeInv, TypeOK
    <3>2. \A q \in Req : pc'[q] = "cleanup" => pc[q] = "cleanup"
      BY <1>0, <2>2 DEF TypeInv, TypeOK
    <3>3. \A c \in Cont : Condemned(c)' => Condemned(c)
      BY <2>1, <3>1, <3>2 DEF Condemned
    <3> QED
      BY <1>u, <2>1, <3>1, <3>3, SameCleanUps
  <2>3. CASE Leave(r, "after") /\ UNCHANGED st
    BY <1>l, <2>1, <2>3
  <2> QED
    BY <1>8, <2>2, <2>3, SetUpOk
<1>9. ASSUME NEW r \in Req, AddToCache(r) PROVE CleanUps'
  <2>1. UNCHANGED <<st, rcont, conns, late>> /\ Goto(r, "index")
    BY <1>9 DEF AddToCache
  <2>2. \A c \in Cont : evict'[c] = "cleanup" => evict[c] = "cleanup"
    BY <1>0, <1>9 DEF AddToCache, TypeInv, TypeOK
  <2> QED
    BY <1>g, <2>1, <2>2 DEF Goto
<1>10. ASSUME NEW r \in Req, AddToIndex(r) PROVE CleanUps'
  BY <1>10, <1>l DEF AddToIndex
<1>11. ASSUME NEW r \in Req, Conn(r) PROVE CleanUps'
  <2>1. UNCHANGED <<st, evict, rcont, conns, late>> /\ (UNCHANGED pc \/ Goto(r, "run"))
    BY <1>11 DEF Conn
  <2> QED
    BY <1>g, <1>s, <2>1 DEF Goto
<1>12. ASSUME NEW r \in Req, RunScript(r) PROVE CleanUps'
  BY <1>12, <1>g DEF RunScript, Goto
<1>13. ASSUME NEW r \in Req, ReturnMissing(r) \/ ReturnUnacquired(r) PROVE CleanUps'
  BY <1>0, <1>13 DEF ReturnMissing, ReturnUnacquired, Links
<1>15. ASSUME NEW r \in Req, phase # "crashed", Release(r) PROVE CleanUps'
  <2>1. /\ pc[r] = "after" /\ Disconnect(r)
        /\ pc' = [pc EXCEPT ![r] = IF err[r] # "none" THEN "delete" ELSE AfterRelease(r)]
        /\ UNCHANGED <<st, evict, rcont, late>>
    BY <1>15, <1>p, ReleaseOk DEF Release, LeakInv, PoolInv
  <2>2. \A c \in Cont : conns'[c] \subseteq conns[c]
    BY <1>0, <2>1 DEF Disconnect, TypeInv, TypeOK
  <2>3. \A q \in Req : pc'[q] = "cleanup" => pc[q] = "cleanup"
    BY <1>0, <2>1 DEF AfterRelease, TypeInv, TypeOK
  <2>4. \A c \in Cont : Condemned(c)' => Condemned(c)
    BY <2>1, <2>3 DEF Condemned
  <2> QED
    BY <1>u, <2>1, <2>2, <2>4, SameCleanUps
<1>16. ASSUME NEW r \in Req, Delete(r) PROVE CleanUps'
  <2>1. UNCHANGED <<st, rcont, conns, late>> /\ Goto(r, "evicted")
    BY <1>16 DEF Delete
  <2>2. \A c \in Cont : evict'[c] = "cleanup" => evict[c] = "cleanup"
    BY <1>0, <1>16 DEF Delete, CacheDelete, TypeInv, TypeOK
  <2> QED
    BY <1>g, <2>1, <2>2 DEF Goto
<1>17. ASSUME NEW r \in Req, StopAccepting(r) PROVE CleanUps'
  <2>1. UNCHANGED <<evict, rcont, conns, late>> /\ Goto(r, AfterRelease(r))
    BY <1>17 DEF StopAccepting
  <2>2. AfterRelease(r) # "cleanup"
    BY DEF AfterRelease
  <2>3. \A c \in Cont : st'[c] # st[c] => st'[c] = "stopping"
    BY <1>0, <1>17 DEF StopAccepting, StoppedAccepting, TypeInv, TypeOK
  <2> QED
    BY <1>g, <2>1, <2>2, <2>3 DEF Goto
<1>k. ASSUME NEW t \in Runtime, CreateFresh(t), UNCHANGED <<evict, rcont, rdef, err, late>>,
             \A q \in Req : pc'[q] = pc[q] \/ (pc[q] = "recreate" /\ pc'[q] = "finish")
      PROVE  CleanUps'
  <2>1. conns' = conns
    BY <1>0, <1>k, CreateLinks DEF Held, Linked
  <2>2. PICK c \in Cont : Unused(c) /\ st' = [st EXCEPT ![c] = "fresh"]
    BY <1>k DEF CreateFresh
  <2>3. st'[c] = "fresh" /\ \A b \in Cont : b # c => st'[b] = st[b]
    BY <1>0, <2>2 DEF TypeInv, TypeOK
  <2>4. ~Condemned(c)'
    BY <1>k, <2>2, <2>3 DEF Condemned, Unused
  <2>5. \A b \in Cont : b # c /\ Condemned(b)' => Condemned(b)
    BY <1>k, <2>3 DEF Condemned
  <2> QED
    BY <1>k, <1>u, <2>1, <2>3, <2>4, <2>5, SameCleanUps
<1>18. ASSUME NEW r \in Req, Recreate(r) PROVE CleanUps'
  <2>1. pc[r] = "recreate" /\ UNCHANGED <<evict, rcont, rdef, err, late>>
    BY <1>18 DEF Recreate
  <2>2. CASE CreateFresh(DefRuntime[rdef[r]]) /\ Goto(r, "finish")
    <3>1. \A q \in Req : pc'[q] = pc[q] \/ (pc[q] = "recreate" /\ pc'[q] = "finish")
      BY <1>0, <2>1, <2>2 DEF Goto, TypeInv, TypeOK
    <3>2. DefRuntime[rdef[r]] \in Runtime
      BY <1>0, <2>1, RunnerAssumption DEF TypeInv, Placed
    <3> QED
      BY <1>k, <2>1, <2>2, <3>1, <3>2
  <2>3. CASE UNCHANGED <<pool, st, cdef, conns, pc>>
    BY <1>s, <2>1, <2>3
  <2> QED
    BY <1>18, <2>2, <2>3 DEF Recreate
\* CheckMemory, after the container of r was cleaned up or without.
<1>c. ASSUME NEW r \in Req, pc[r] \in {"finish", "cleanup", "memory"}, CheckMemory(r),
             UNCHANGED conns,
             \A c \in Cont : st'[c] = st[c] \/ (Condemned(c) /\ st'[c] = "stopped")
      PROVE  CleanUps'
  <2>1. CASE Done(r)
    <3>1. late' = late \ {r} /\ \A c \in Cont : r \notin conns[c]
      BY <1>0, <1>c, <2>1 DEF Done, Links, Held, Linked
    <3>2. evict' = evict /\ \A q \in Req : pc'[q] = "cleanup" => pc[q] = "cleanup" /\ rcont'[q] = rcont[q]
      BY <1>0, <2>1 DEF Done, Goto, TypeInv, TypeOK
    <3>3. \A c \in Cont : Condemned(c)' => Condemned(c)
      BY <1>c, <3>2 DEF Condemned
    <3> QED
      BY <1>c, <1>u, <3>1, <3>3, SameCleanUps
  <2>2. CASE UNCHANGED <<cache, evict, reqVars, late>>
    <3>1. \A c \in Cont : Condemned(c)' => Condemned(c)
      BY <1>c, <2>2 DEF Condemned
    <3> QED
      BY <1>c, <1>u, <2>2, <3>1, SameCleanUps
  <2>3. ASSUME NEW v \in cache, CacheDelete(v), Goto(r, "memory"),
               UNCHANGED <<phase, rdef, rcont, cand, isNew, err, late>>
        PROVE  CleanUps'
    <3>1. /\ \A c \in Cont : evict'[c] = "cleanup" => evict[c] = "cleanup"
          /\ \A q \in Req : pc'[q] = "cleanup" => pc[q] = "cleanup"
      BY <1>0, <2>3 DEF CacheDelete, Goto, TypeInv, TypeOK
    <3>2. \A c \in Cont : Condemned(c)' => Condemned(c)
      BY <1>c, <2>3, <3>1 DEF Condemned
    <3> QED
      BY <1>c, <1>u, <2>3, <3>2, SameCleanUps
  <2> QED
    BY <1>c, <2>1, <2>2, <2>3 DEF CheckMemory
<1>19. ASSUME NEW r \in Req, Finish(r) PROVE CleanUps'
  <2>1. pc[r] = "finish" /\ rcont[r] \in Cont /\ UNCHANGED <<st, conns>>
    BY <1>0, <1>19 DEF Finish, TypeInv, Placed, WithContainer, InAfterRun
  <2>2. CASE Disposable(rcont[r])
    <3>1. pc' = [pc EXCEPT ![r] = "cleanup"] /\ UNCHANGED <<evict, late, rcont>>
      BY <1>19, <2>2 DEF Finish, Goto
    <3>2. st[rcont[r]] \notin {"fresh", "running"} /\ conns[rcont[r]] = {}
      BY <2>1, <2>2 DEF SetUps, PastSetUp, Disposable, Accepting, NoConns
    <3>3. \A q \in Req : q # r => pc'[q] = pc[q]
      BY <1>0, <3>1 DEF TypeInv, TypeOK
    <3>4. \A c \in Cont : Condemned(c)' => Condemned(c) \/ c = rcont[r]
      BY <2>1, <3>1, <3>3 DEF Condemned
    <3> QED
      BY <1>u, <2>1, <3>1, <3>2, <3>4, SameCleanUps
  <2>3. CASE ~Disposable(rcont[r])
    BY <1>c, <1>19, <2>1, <2>3 DEF Finish
  <2> QED
    BY <2>2, <2>3
<1>20. ASSUME NEW r \in Req, CleanUpAfterRun(r) PROVE CleanUps'
  <2>1. /\ pc[r] = "cleanup" /\ CheckMemory(r) /\ UNCHANGED conns
        /\ st' = [st EXCEPT ![rcont[r]] = "stopped"]
    BY <1>20 DEF CleanUpAfterRun, CleanUp
  <2>2. Condemned(rcont[r])
    BY <2>1 DEF Condemned
  <2>3. \A c \in Cont : st'[c] = st[c] \/ (Condemned(c) /\ st'[c] = "stopped")
    BY <1>0, <2>1, <2>2 DEF TypeInv, TypeOK
  <2> QED
    BY <1>c, <2>1, <2>3
<1>21. ASSUME NEW r \in Req, CheckMemoryAgain(r) PROVE CleanUps'
  BY <1>c, <1>21 DEF CheckMemoryAgain
<1>22. ASSUME NEW c \in Cont, EvictStopAccepting(c) PROVE CleanUps'
  BY <1>0, <1>s, <1>22 DEF EvictStopAccepting, TypeInv, TypeOK
<1>32. ASSUME NEW c \in Cont, EvictCountConns(c) PROVE CleanUps'
  <2>1. evict[c] = "count" /\ UNCHANGED <<st, conns, late, reqVars>>
    BY <1>32 DEF EvictCountConns
  <2>2. /\ evict'[c] = "cleanup" => conns[c] = {}
        /\ \A b \in Cont : b # c => evict'[b] = evict[b]
    BY <1>0, <1>32 DEF EvictCountConns, NoConns, CountCached, TypeInv, TypeOK
  <2>3. \A b \in Cont : Condemned(b)' => Condemned(b) \/ (b = c /\ conns[c] = {})
    BY <2>1, <2>2 DEF Condemned
  <2>4. st[c] \notin {"fresh", "running"}
    BY <2>1 DEF SetUps, Closing, Accepting
  <2> QED
    BY <1>u, <2>1, <2>2, <2>3, <2>4, SameCleanUps
<1>23. ASSUME NEW c \in Cont, EvictCleanUp(c) PROVE CleanUps'
  <2>1. Condemned(c) /\ UNCHANGED <<conns, late, reqVars>>
    BY <1>23 DEF EvictCleanUp, Condemned
  <2>2. /\ st'[c] = "stopped"
        /\ \A b \in Cont : b # c => st'[b] = st[b] /\ evict'[b] = evict[b]
    BY <1>0, <1>23 DEF EvictCleanUp, CleanUp, TypeInv, TypeOK
  <2>3. \A b \in Cont : Condemned(b)' => Condemned(b)
    BY <2>1, <2>2 DEF Condemned
  <2> QED
    BY <1>u, <2>1, <2>2, <2>3, SameCleanUps
<1>24. ASSUME NEW c \in Cont, EvictDropIndex(c) PROVE CleanUps'
  BY <1>0, <1>s, <1>24 DEF EvictDropIndex, TypeInv, TypeOK
<1>25. ASSUME NEW c \in Cont, (Expire(c) \/ StreamError(c)) \/ DeleteDoomed(c) PROVE CleanUps'
  <2>1. UNCHANGED <<reqVars, conns, late>>
    BY <1>25 DEF Expire, StreamError, DeleteDoomed
  <2>2. (c \in cache /\ CacheDelete(c) /\ UNCHANGED st) \/ DeleteContainer(c)
    BY <1>25 DEF Expire, StreamError, DeleteDoomed
  <2>3. /\ \A b \in Cont : st'[b] # st[b] => st'[b] = "stopping"
        /\ \A b \in Cont : evict'[b] = "cleanup" => evict[b] = "cleanup"
    BY <1>0, <2>2 DEF DeleteContainer, CacheDelete, StoppedAccepting, TypeInv, TypeOK
  <2> QED
    BY <1>s, <2>1, <2>3
<1>26. ASSUME NEW i \in Index, DeleteIndex(i) PROVE CleanUps'
  BY <1>s, <1>26 DEF DeleteIndex
<1>27. ASSUME NEW t \in Runtime, FillPool(t) PROVE CleanUps'
  <2>1. CASE CreateFresh(t)
    BY <1>27, <1>k, <2>1 DEF FillPool
  <2>2. CASE UNCHANGED <<pool, st, cdef, conns>>
    BY <1>s, <1>27, <2>2 DEF FillPool
  <2> QED
    BY <1>27, <2>1, <2>2 DEF FillPool
<1>28. ASSUME CreatePool \/ StopPool PROVE CleanUps'
  BY <1>s, <1>28 DEF CreatePool, StopPool
<1>29. ASSUME DrainPool PROVE CleanUps'
  <2>1. UNCHANGED <<conns, late, reqVars>>
    BY <1>29 DEF DrainPool
  <2>2. \A c \in Cont : st'[c] = st[c] \/ (st'[c] = "stopped" /\ \E t \in Runtime : c \in pool[t])
    BY <1>29 DEF DrainPool
  <2>3. \A t \in Runtime : \A c \in pool[t] : c \in Cont => conns[c] = {}
    BY <1>0, NoUsersNoConns DEF LeakInv, PoolClean
  <2>4. \A c \in Cont : evict'[c] = "cleanup" => evict[c] = "cleanup"
    BY <1>29 DEF DrainPool, Flush
  <2>5. \A c \in Cont : Condemned(c)' => Condemned(c) \/ (st'[c] = "stopped" /\ conns[c] = {})
    BY <2>1, <2>2, <2>3, <2>4 DEF Condemned
  <2> QED
    BY <1>u, <2>1, <2>2, <2>5, SameCleanUps
<1>30. ASSUME Restart PROVE CleanUps'
  BY <1>30 DEF Restart, CleanUps, Condemned
<1>31. ASSUME UNCHANGED vars PROVE CleanUps'
  BY <1>s, <1>31 DEF vars
<1> QED
  BY <1>1, <1>2, <1>3, <1>4, <1>5, <1>6, <1>7, <1>8, <1>9, <1>10, <1>11, <1>12, <1>13,
     <1>15, <1>16, <1>17, <1>18, <1>19, <1>20, <1>21, <1>22, <1>23, <1>24, <1>25, <1>26,
     <1>27, <1>28, <1>29, <1>30, <1>31, <1>32
  DEF Next, RunStep, AfterRunStep, EvictStep, PoolStep

CleanUpInv == LeakInv /\ SetUps /\ Closing /\ CleanUps

LEMMA CleanUpInvariant == ASSUME NoLeak PROVE Spec => []CleanUpInv
<1>1. Init => CleanUpInv
  BY LeakInit DEF Init, CleanUpInv, SetUps, PastSetUp, Closing, CleanUps, Condemned
<1>2. CleanUpInv /\ [Next]_vars => CleanUpInv'
  BY LeakStep, SetUpsStep, ClosingStep, CleanUpsStep DEF CleanUpInv
<1> QED
  BY <1>1, <1>2, PTL DEF Spec

\* Nobody stops a container under a run that reserved its connection while the
\* container was accepting: eviction handlers, afterRun and StopPool see the
\* connection, whenever they look.
THEOREM ConnectionKeepsAlive == ASSUME NoLeak PROVE Spec => []KeptAlive
<1>1. CleanUpInv => KeptAlive
  BY DEF CleanUpInv, CleanUps, Condemned, KeptAlive
<1> QED
  BY <1>1, CleanUpInvariant, PTL

-----------------------------------------------------------------------------
(* No container is forgotten *)

\* A run that is going to cache its container, or to stop it because of an error.
Raising(r) ==
  \/ isNew[r] /\ pc[r] \in {"acquire", "setup", "add"}
  \/ err[r] # "none" /\ pc[r] \in {"after", "delete", "evicted"}

\* A run that has still to look if its container is to be cleaned up.
Tending(r) == pc[r] \in Linked \cup {"after", "delete", "evicted", "recreate", "finish", "cleanup"}

Pooled(c) == \E t \in Runtime : c \in pool[t]

\* A container that accepts connections, or will, is in the cache, in a pool,
\* with a handler that is about to stop it, or in the hands of a run; one that
\* has stopped accepting still has somebody who cleans it up.
Watched(c) ==
  /\ st[c] \in {"fresh", "running"} =>
       \/ c \in cache \/ Pooled(c) \/ evict[c] = "handler"
       \/ \E r \in Req : rcont[r] = c /\ Raising(r)
  /\ st[c] = "stopping" =>
       \/ c \in cache \/ evict[c] \in {"handler", "count", "cleanup"}
       \/ \E r \in Req : rcont[r] = c /\ Tending(r)

Watch ==
  /\ \A c \in Cont : Watched(c)
  /\ phase = "stopped" => cache = {}

\* A step that leaves a container with somebody who had it.
LEMMA SameWatched ==
  ASSUME NEW c \in Cont, Watched(c),
         st'[c] = st[c] \/ (st[c] = "fresh" /\ st'[c] = "running"),
         c \in cache => c \in cache' \/ evict'[c] = "handler",
         Pooled(c) => Pooled(c)',
         evict[c] = "handler" => evict'[c] = "handler",
         evict[c] = "count" => evict'[c] \in {"handler", "count"},
         evict[c] = "cleanup" => evict'[c] \in {"handler", "cleanup"},
         \A r \in Req : rcont[r] = c /\ Raising(r) => (rcont'[r] = c /\ Raising(r)') \/ c \in cache',
         \A r \in Req : rcont[r] = c /\ Tending(r) => rcont'[r] = c /\ Tending(r)'
  PROVE  Watched(c)'
<1>1. CASE st'[c] \in {"fresh", "running"}
  BY <1>1 DEF Watched
<1>2. CASE st'[c] = "stopping"
  BY <1>2 DEF Watched
<1> QED
  BY <1>1, <1>2 DEF Watched

\* A container that stops accepting outside the cache is in the hands of a run
\* or of a handler.
LEMMA StopsWatched ==
  ASSUME NEW c \in Cont, Watched(c), c \notin cache, ~Pooled(c),
         st'[c] = StoppedAccepting(c), UNCHANGED <<cache, evict, reqVars>>
  PROVE  Watched(c)'
<1>1. \A r \in Req : Raising(r) => Tending(r)
  BY DEF Raising, Tending, Linked
<1>2. \A r \in Req : Tending(r)' <=> Tending(r)
  BY DEF Tending, reqVars
<1> QED
  BY <1>1, <1>2 DEF Watched, StoppedAccepting, reqVars

LEMMA CreateWatched ==
  ASSUME TypeInv, Watch, NEW t \in Runtime, CreateFresh(t), UNCHANGED <<cache, evict, rcont>>,
         \A r \in Req : (Raising(r) => Raising(r)') /\ (Tending(r) => Tending(r)')
  PROVE  \A c \in Cont : Watched(c)'
<1>1. PICK n \in Cont : st' = [st EXCEPT ![n] = "fresh"] /\ pool' = [pool EXCEPT ![t] = @ \cup {n}]
  BY DEF CreateFresh
<1>2. /\ st'[n] = "fresh" /\ \A c \in Cont : c # n => st'[c] = st[c]
      /\ n \in pool'[t] /\ \A u \in Runtime : pool[u] \subseteq pool'[u]
  BY <1>1 DEF TypeInv, TypeOK
<1>3. Watched(n)'
  BY <1>2 DEF Watched, Pooled
<1>4. ASSUME NEW c \in Cont, c # n PROVE Watched(c)'
  BY <1>2, <1>4, SameWatched DEF Watch, Pooled
<1> QED
  BY <1>3, <1>4

LEMMA WatchStep ==
  ASSUME NoLeak, CleanUpInv, Watch, [Next]_vars
  PROVE  Watch'
<1>0. TypeInv /\ Debts /\ Possession /\ Links /\ PoolClean
  BY DEF CleanUpInv, LeakInv, PoolInv
<1>w. \A c \in Cont : Watched(c)
  BY DEF Watch
<1> USE DEF contVars, reqVars
\* The cache is empty while the pool is down: only runs fill it.
<1>h. ASSUME \A c \in Cont : Watched(c)', cache' \subseteq cache, phase' # "stopped" \/ phase = "stopped"
      PROVE  Watch'
  BY <1>h DEF Watch
\* Nobody but one run moves, and no container changes its state or its place.
<1>g. ASSUME NEW r \in Req, NEW label, pc' = [pc EXCEPT ![r] = label],
             UNCHANGED <<phase, pool, cache, evict, st>>,
             \A q \in Req : q # r => rcont'[q] = rcont[q] /\ isNew'[q] = isNew[q] /\ err'[q] = err[q],
             Raising(r) => rcont'[r] = rcont[r] /\ Raising(r)',
             Tending(r) => rcont'[r] = rcont[r] /\ Tending(r)'
      PROVE  Watch'
  <2>1. \A q \in Req : q # r => pc'[q] = pc[q]
    BY <1>0, <1>g DEF TypeInv, TypeOK
  <2>2. \A q \in Req : (Raising(q) => rcont'[q] = rcont[q] /\ Raising(q)')
                       /\ (Tending(q) => rcont'[q] = rcont[q] /\ Tending(q)')
    BY <1>g, <2>1 DEF Raising, Tending
  <2>3. \A c \in Cont : Watched(c)'
    BY <1>w, <1>g, <2>2, SameWatched DEF Pooled
  <2> QED
    BY <1>g, <1>h, <2>3
<1>l. ASSUME NEW r \in Req, NEW label \in {"after", "run"}, pc[r] \in Linked, Leave(r, label),
             UNCHANGED <<phase, pool, cache, evict, rcont, isNew>>,
             \A c \in Cont : st'[c] = st[c] \/ (st[c] = "fresh" /\ st'[c] = "running"),
             \A q \in Req : q # r => err'[q] = err[q],
             Raising(r) => err'[r] # "none" /\ label = "after"
      PROVE  Watch'
  <2>1. /\ pc'[r] = label
        /\ \A q \in Req : q # r => pc'[q] = pc[q] \/ (pc[q] = "wait" /\ pc'[q] = "woken")
    BY <1>0, <1>l, LeaveType DEF Linked, InRun, InAfterRun
  <2>2. \A q \in Req : (Raising(q) => Raising(q)') /\ (Tending(q) => Tending(q)')
    BY <1>l, <2>1 DEF Raising, Tending, Linked
  <2>3. \A c \in Cont : Watched(c)'
    BY <1>w, <1>l, <2>2, SameWatched DEF Pooled
  <2> QED
    BY <1>l, <1>h, <2>3
\* A container leaves the cache, and its handler begins.
<1>d. ASSUME NEW v \in cache, CacheDelete(v), UNCHANGED <<phase, pool, st, rcont>>,
             \A q \in Req : (Raising(q) => Raising(q)') /\ (Tending(q) => Tending(q)')
      PROVE  Watch'
  <2>1. /\ cache' = cache \ {v} /\ evict'[v] = "handler"
        /\ \A c \in Cont : c # v => evict'[c] = evict[c]
    BY <1>0, <1>d DEF CacheDelete, TypeInv, TypeOK
  <2>2. \A c \in Cont : Watched(c)'
    BY <1>w, <1>d, <2>1, SameWatched DEF Pooled
  <2> QED
    BY <1>d, <1>h, <2>1, <2>2
<1>s. ASSUME UNCHANGED <<pool, st, evict, cache, reqVars>>, phase' # "stopped" \/ phase = "stopped"
      PROVE  Watch'
  <2>1. \A q \in Req : (Raising(q)' <=> Raising(q)) /\ (Tending(q)' <=> Tending(q))
    BY <1>s DEF Raising, Tending
  <2>2. \A c \in Cont : Watched(c)'
    BY <1>s, <1>w, <2>1, SameWatched DEF Pooled
  <2> QED
    BY <1>s, <1>h, <2>2
<1>1. ASSUME NEW r \in Req, NEW d \in Def, Start(r, d) PROVE Watch'
  BY <1>0, <1>1, <1>g DEF Start, Lookup, Goto, Raising, Tending, Linked
<1>2. ASSUME NEW r \in Req, LookupAgain(r) PROVE Watch'
  BY <1>2, <1>g DEF LookupAgain, Lookup, Goto, Raising, Tending, Linked
<1>3. ASSUME NEW r \in Req, TryCached(r) PROVE Watch'
  BY <1>0, <1>3, <1>g DEF TryCached, Goto, Raising, Tending, Linked, TypeInv, TypeOK
<1>4. ASSUME NEW r \in Req, Miss(r) PROVE Watch'
  <2>1. PICK label \in {"take", "wait"} : pc' = [pc EXCEPT ![r] = label]
    BY <1>4 DEF Miss, Goto
  <2>2. ~Raising(r) /\ ~Tending(r)
    BY <1>4 DEF Miss, Raising, Tending, Linked
  <2> QED
    BY <1>0, <1>4, <1>g, <2>1, <2>2 DEF Miss, TypeInv, TypeOK
<1>5. ASSUME NEW r \in Req, Take(r) PROVE Watch'
  <2>1. PICK n \in pool[DefRuntime[rdef[r]]] :
          /\ pool' = [pool EXCEPT ![DefRuntime[rdef[r]]] = @ \ {n}]
          /\ rcont' = [rcont EXCEPT ![r] = n]
          /\ IF Full(n, rdef[r]) \/ Reserved(r, n)
             THEN Fail(r, "other") /\ UNCHANGED <<conns, late>>
             ELSE Reserve(r, n, "setup") /\ UNCHANGED <<leader, err>>
    BY <1>5 DEF Take
  <2>2. /\ pc[r] = "take" /\ UNCHANGED <<phase, st, evict, cache>>
        /\ isNew' = [isNew EXCEPT ![r] = TRUE]
    BY <1>5 DEF Take
  <2>3. rdef[r] \in Def /\ DefRuntime[rdef[r]] \in Runtime /\ n \in Cont
    BY <1>0, <2>1, <2>2, RunnerAssumption DEF TypeInv, TypeOK, Placed
  <2>4. conns[n] = {}
    BY <1>0, <2>1, <2>3, NoUsersNoConns DEF PoolClean
  <2>5. Reserve(r, n, "setup") /\ UNCHANGED err
    BY <2>1, <2>3, <2>4, LimitType, FS_EmptySet DEF Full, Reserved
  <2>6. pc' = [pc EXCEPT ![r] = "acquire"]
    BY <2>4, <2>5 DEF Reserve, Goto
  <2>7. /\ rcont'[r] = n /\ isNew'[r] /\ pc'[r] = "acquire"
        /\ \A q \in Req : q # r => rcont'[q] = rcont[q] /\ isNew'[q] = isNew[q] /\ pc'[q] = pc[q]
    BY <1>0, <2>1, <2>2, <2>6 DEF TypeInv, TypeOK
  <2>8. Raising(r)' /\ st[n] = "fresh"
    BY <1>0, <2>1, <2>3, <2>7 DEF PoolClean, Raising
  <2>9. ~Raising(r) /\ ~Tending(r)
    BY <2>2 DEF Raising, Tending, Linked
  <2>10. \A q \in Req : (Raising(q) => rcont'[q] = rcont[q] /\ Raising(q)')
                        /\ (Tending(q) => rcont'[q] = rcont[q] /\ Tending(q)')
    BY <2>5, <2>7, <2>9 DEF Raising, Tending
  <2>11. Watched(n)'
    BY <2>2, <2>7, <2>8 DEF Watched
  <2>12. ASSUME NEW c \in Cont, c # n PROVE Watched(c)'
    <3>1. Pooled(c) => Pooled(c)'
      BY <1>0, <2>1, <2>3, <2>12 DEF Pooled, TypeInv, TypeOK
    <3> QED
      BY <1>w, <2>2, <2>10, <3>1, SameWatched
  <2> QED
    BY <1>h, <2>2, <2>11, <2>12
<1>6. ASSUME NEW r \in Req, ReserveCached(r) PROVE Watch'
  <2>1. PICK label : pc' = [pc EXCEPT ![r] = label]
    BY <1>0, <1>6, ReserveCachedOk DEF Reserve, Goto
  <2>2. ~Raising(r) /\ ~Tending(r)
    BY <1>6 DEF ReserveCached, Raising, Tending, Linked
  <2>3. UNCHANGED err
    BY <1>0, <1>6, ReserveCachedOk
  <2> QED
    BY <1>6, <1>g, <2>1, <2>2, <2>3 DEF ReserveCached
<1>7. ASSUME NEW r \in Req, Acquire(r) PROVE Watch'
  <2>1. /\ pc[r] = "acquire" /\ pc' = [pc EXCEPT ![r] = IF isNew[r] THEN "setup" ELSE "conn"]
        /\ UNCHANGED <<phase, pool, cache, evict, st, rcont, isNew, err>>
    BY <1>7, AcquireOk
  <2>2. pc'[r] = IF isNew[r] THEN "setup" ELSE "conn"
    BY <1>0, <2>1 DEF TypeInv, TypeOK
  <2>3. (Raising(r) => Raising(r)') /\ Tending(r)'
    BY <2>1, <2>2 DEF Raising, Tending, Linked
  <2> QED
    BY <1>g, <2>1, <2>3
<1>8. ASSUME NEW r \in Req, SetUp(r) PROVE Watch'
  <2>1. pc[r] = "setup" /\ rcont[r] \in Cont /\ isNew[r]
        /\ UNCHANGED <<phase, pool, cache, evict, rcont, isNew>>
    BY <1>0, <1>8 DEF SetUp, Debts, TypeInv, Placed, WithContainer
  <2>2. CASE /\ pc' = [pc EXCEPT ![r] = "add"] /\ UNCHANGED err
             /\ st' = [st EXCEPT ![rcont[r]] = IF @ = "fresh" THEN "running" ELSE @]
    <3>1. \A c \in Cont : st'[c] = st[c] \/ (st[c] = "fresh" /\ st'[c] = "running")
      BY <1>0, <2>1, <2>2 DEF TypeInv, TypeOK
    <3>2. pc'[r] = "add" /\ \A q \in Req : q # r => pc'[q] = pc[q]
      BY <1>0, <2>2 DEF TypeInv, TypeOK
    <3>3. \A q \in Req : (Raising(q) => Raising(q)') /\ (Tending(q) => Tending(q)')
      BY <2>1, <2>2, <3>2 DEF Raising, Tending, Linked
    <3>4. \A c \in Cont : Watched(c)'
      BY <1>w, <2>1, <3>1, <3>3, SameWatched DEF Pooled
    <3> QED
      BY <1>h, <2>1, <3>4
  <2>3. CASE err' = [err EXCEPT ![r] = "other"] /\ Leave(r, "after") /\ UNCHANGED st
    <3>1. err'[r] # "none" /\ \A q \in Req : q # r => err'[q] = err[q]
      BY <1>0, <2>3 DEF TypeInv, TypeOK
    <3> QED
      BY <1>l, <2>1, <2>3, <3>1 DEF Linked
  <2> QED
    BY <1>8, <2>2, <2>3, SetUpOk
<1>9. ASSUME NEW r \in Req, AddToCache(r) PROVE Watch'
  <2>1. /\ pc[r] = "add" /\ Goto(r, "index")
        /\ UNCHANGED <<phase, pool, st, rcont, isNew, err>>
    BY <1>9 DEF AddToCache
  <2>2. /\ rcont[r] \in cache'
        /\ \A c \in cache : c \in cache' \/ evict'[c] = "handler"
        /\ \A c \in Cont : evict'[c] = evict[c] \/ evict'[c] = "handler"
    BY <1>0, <1>9 DEF AddToCache, TypeInv, TypeOK
  <2>3. pc'[r] = "index" /\ \A q \in Req : q # r => pc'[q] = pc[q]
    BY <1>0, <2>1 DEF Goto, TypeInv, TypeOK
  <2>4. \A q \in Req : (Raising(q) => Raising(q)' \/ q = r) /\ (Tending(q) => Tending(q)')
    BY <2>1, <2>3 DEF Raising, Tending, Linked
  <2>5. \A c \in Cont : Watched(c)'
    BY <1>w, <2>1, <2>2, <2>4, SameWatched DEF Pooled
  <2>6. phase # "stopped"
    BY <1>0, <2>1 DEF Debts
  <2> QED
    BY <2>1, <2>5, <2>6 DEF Watch
<1>10. ASSUME NEW r \in Req, AddToIndex(r) PROVE Watch'
  <2>1. pc[r] = "index" /\ err[r] = "none"
    BY <1>0, <1>10 DEF AddToIndex, Possession, InRun
  <2> QED
    BY <1>10, <1>l, <2>1 DEF AddToIndex, Raising, Linked
<1>11. ASSUME NEW r \in Req, Conn(r) PROVE Watch'
  <2>1. /\ pc[r] = "conn" /\ UNCHANGED <<pool, cache, evict, st, rcont, isNew, err>>
        /\ (Crash /\ UNCHANGED pc) \/ (Goto(r, "run") /\ UNCHANGED phase)
    BY <1>11 DEF Conn
  <2>2. CASE Crash /\ UNCHANGED pc
    BY <1>11, <1>s, <2>2 DEF Conn, Crash
  <2>3. CASE Goto(r, "run") /\ UNCHANGED phase
    <3>1. err[r] = "none" /\ pc'[r] = "run"
      BY <1>0, <2>1, <2>3 DEF Goto, Possession, InRun, TypeInv, TypeOK
    <3>2. ~Raising(r) /\ Tending(r)'
      BY <2>1, <3>1 DEF Raising, Tending, Linked
    <3> QED
      BY <1>g, <2>1, <2>3, <3>2 DEF Goto
  <2> QED
    BY <2>1, <2>2, <2>3
<1>12. ASSUME NEW r \in Req, RunScript(r) PROVE Watch'
  <2>1. /\ pc[r] = "run" /\ pc' = [pc EXCEPT ![r] = "after"]
        /\ UNCHANGED <<phase, pool, cache, evict, st, rcont, isNew>>
        /\ err' \in {err, [err EXCEPT ![r] = "other"]}
    BY <1>12 DEF RunScript, Goto
  <2>2. pc'[r] = "after" /\ err[r] = "none" /\ \A q \in Req : q # r => err'[q] = err[q]
    BY <1>0, <2>1 DEF Possession, InRun, TypeInv, TypeOK
  <2>3. ~Raising(r) /\ Tending(r)'
    BY <2>1, <2>2 DEF Raising, Tending, Linked
  <2> QED
    BY <1>g, <2>1, <2>2, <2>3
<1>13. ASSUME NEW r \in Req, ReturnMissing(r) \/ ReturnUnacquired(r) PROVE Watch'
  BY <1>0, <1>13 DEF ReturnMissing, ReturnUnacquired, Links
<1>15. ASSUME NEW r \in Req, phase # "crashed", Release(r) PROVE Watch'
  <2>1. phase \in {"serving", "stopping"}
    BY <1>0, <1>15 DEF Release, Debts, TypeInv, TypeOK, Phases
  <2>2. /\ pc[r] = "after"
        /\ pc' = [pc EXCEPT ![r] = IF err[r] # "none" THEN "delete" ELSE AfterRelease(r)]
        /\ UNCHANGED <<phase, pool, cache, evict, st, rcont, isNew, err>>
    BY <1>15, <2>1, ReleaseOk DEF CleanUpInv, LeakInv, PoolInv
  <2>3. pc'[r] = IF err[r] # "none" THEN "delete" ELSE AfterRelease(r)
    BY <1>0, <2>2 DEF TypeInv, TypeOK
  <2>4. (Raising(r) => Raising(r)') /\ Tending(r)'
    BY <2>2, <2>3 DEF Raising, Tending, AfterRelease
  <2> QED
    BY <1>g, <2>2, <2>4
<1>16. ASSUME NEW r \in Req, Delete(r) PROVE Watch'
  <2>1. /\ pc[r] = "delete" /\ Goto(r, "evicted") /\ UNCHANGED <<phase, pool, st, rcont, isNew, err>>
        /\ (rcont[r] \in cache /\ CacheDelete(rcont[r])) \/ UNCHANGED <<cache, evict>>
    BY <1>16 DEF Delete
  <2>2. pc'[r] = "evicted" /\ \A q \in Req : q # r => pc'[q] = pc[q]
    BY <1>0, <2>1 DEF Goto, TypeInv, TypeOK
  <2>3. \A q \in Req : (Raising(q) => Raising(q)') /\ (Tending(q) => Tending(q)')
    BY <2>1, <2>2 DEF Raising, Tending
  <2>4. CASE UNCHANGED <<cache, evict>>
    BY <1>g, <2>1, <2>3, <2>4 DEF Goto
  <2> QED
    BY <1>d, <2>1, <2>3, <2>4
<1>17. ASSUME NEW r \in Req, StopAccepting(r) PROVE Watch'
  <2>1. /\ pc[r] = "evicted" /\ Goto(r, AfterRelease(r))
        /\ st' = [st EXCEPT ![rcont[r]] = StoppedAccepting(rcont[r])]
        /\ UNCHANGED <<phase, pool, cache, evict, rcont, isNew, err>>
    BY <1>17 DEF StopAccepting
  <2>2. PICK n \in Cont : n = rcont[r]
    BY <1>0, <2>1 DEF TypeInv, Placed, WithContainer, InAfterRun
  <2>3. /\ pc'[r] = AfterRelease(r) /\ \A q \in Req : q # r => pc'[q] = pc[q]
        /\ st'[n] = StoppedAccepting(n) /\ \A c \in Cont : c # n => st'[c] = st[c]
    BY <1>0, <2>1, <2>2 DEF Goto, TypeInv, TypeOK
  <2>4. Tending(r)'
    BY <2>3 DEF Tending, AfterRelease
  <2>5. Watched(n)'
    BY <2>1, <2>2, <2>3, <2>4 DEF Watched, StoppedAccepting
  <2>6. \A q \in Req : (Raising(q) => q = r \/ Raising(q)') /\ (Tending(q) => Tending(q)')
    BY <2>1, <2>3, <2>4 DEF Raising, Tending
  <2>7. ASSUME NEW c \in Cont, c # n PROVE Watched(c)'
    BY <1>w, <2>1, <2>2, <2>3, <2>6, <2>7, SameWatched DEF Pooled
  <2> QED
    BY <1>h, <2>1, <2>5, <2>7
<1>18. ASSUME NEW r \in Req, Recreate(r) PROVE Watch'
  <2>1. pc[r] = "recreate" /\ UNCHANGED <<cache, evict, rcont, rdef, isNew, err, cand, victim>>
    BY <1>18 DEF Recreate
  <2>2. CASE CreateFresh(DefRuntime[rdef[r]]) /\ Goto(r, "finish") /\ UNCHANGED phase
    <3>1. pc'[r] = "finish" /\ \A q \in Req : q # r => pc'[q] = pc[q]
      BY <1>0, <2>2 DEF Goto, TypeInv, TypeOK
    <3>2. \A q \in Req : (Raising(q) => Raising(q)') /\ (Tending(q) => Tending(q)')
      BY <2>1, <3>1 DEF Raising, Tending
    <3>3. DefRuntime[rdef[r]] \in Runtime
      BY <1>0, <2>1, RunnerAssumption DEF TypeInv, Placed
    <3>4. \A c \in Cont : Watched(c)'
      BY <1>0, <2>1, <2>2, <3>2, <3>3, CreateWatched
    <3> QED
      BY <1>h, <2>1, <2>2, <3>4
  <2>3. CASE Crash /\ UNCHANGED <<pool, st, cdef, conns, pc>>
    BY <1>s, <2>1, <2>3 DEF Crash
  <2> QED
    BY <1>18, <2>2, <2>3 DEF Recreate
\* CheckMemory, when the container of r needs r no longer.
<1>c. ASSUME NEW r \in Req, pc[r] \in {"finish", "cleanup", "memory"}, CheckMemory(r), UNCHANGED pool,
             Tending(r) => \/ rcont[r] \in Cont /\ st'[rcont[r]] = "stopped"
                           \/ \E q \in Req : q # r /\ rcont[q] = rcont[r] /\ Tending(q)
                           \/ st[rcont[r]] # "stopping",
             \A c \in Cont : st'[c] = st[c] \/ st'[c] = "stopped"
      PROVE  Watch'
  <2>0. ~Raising(r)
    BY <1>c DEF Raising
  <2>1. ASSUME NEW c \in Cont, st'[c] = st[c],
               c \in cache => c \in cache' \/ evict'[c] = "handler",
               evict[c] = "handler" => evict'[c] = "handler",
               evict[c] = "count" => evict'[c] \in {"handler", "count"},
         evict[c] = "cleanup" => evict'[c] \in {"handler", "cleanup"},
               \A q \in Req : q # r => pc'[q] = pc[q] /\ rcont'[q] = rcont[q]
                                       /\ isNew'[q] = isNew[q] /\ err'[q] = err[q]
        PROVE  Watched(c)'
    <3>1. \A q \in Req : q # r => (Raising(q)' <=> Raising(q)) /\ (Tending(q)' <=> Tending(q))
      BY <2>1 DEF Raising, Tending
    <3>2. CASE st[c] \in {"fresh", "running"}
      BY <1>c, <1>w, <2>0, <2>1, <3>1, <3>2 DEF Watched, Pooled
    <3>3. CASE st[c] = "stopping"
      <4>1. CASE rcont[r] = c /\ Tending(r)
        BY <1>c, <2>1, <3>1, <3>3, <4>1 DEF Watched
      <4>2. CASE ~(rcont[r] = c /\ Tending(r))
        BY <1>w, <2>1, <3>1, <3>3, <4>2 DEF Watched
      <4> QED
        BY <4>1, <4>2
    <3> QED
      BY <2>1, <3>2, <3>3 DEF Watched
  <2>2. /\ \A c \in cache : c \in cache' \/ evict'[c] = "handler"
        /\ \A c \in Cont : evict'[c] = evict[c] \/ evict'[c] = "handler"
    BY <1>0, <1>c DEF CheckMemory, Done, CacheDelete, TypeInv, TypeOK
  <2>3. \A q \in Req : q # r => pc'[q] = pc[q] /\ rcont'[q] = rcont[q]
                                /\ isNew'[q] = isNew[q] /\ err'[q] = err[q]
    BY <1>0, <1>c DEF CheckMemory, Done, Goto, TypeInv, TypeOK
  <2>4. \A c \in Cont : Watched(c)'
    BY <1>c, <2>1, <2>2, <2>3 DEF Watched
  <2>5. cache' \subseteq cache /\ (phase' # "stopped" \/ phase = "stopped")
    BY <1>c DEF CheckMemory, Done, CacheDelete, Crash
  <2> QED
    BY <1>h, <2>4, <2>5
<1>19. ASSUME NEW r \in Req, Finish(r) PROVE Watch'
  <2>1. pc[r] = "finish" /\ UNCHANGED <<pool, st>>
    BY <1>19 DEF Finish
  <2>2. PICK n \in Cont : n = rcont[r]
    BY <1>0, <2>1 DEF TypeInv, Placed, WithContainer, InAfterRun
  <2>3. CASE Disposable(rcont[r])
    <3>1. pc' = [pc EXCEPT ![r] = "cleanup"] /\ UNCHANGED <<phase, cache, evict, rcont, isNew, err>>
      BY <1>19, <2>3 DEF Finish, Goto
    <3>2. ~Raising(r) /\ Tending(r)'
      BY <1>0, <2>1, <3>1 DEF Raising, Tending, TypeInv, TypeOK
    <3> QED
      BY <1>g, <2>1, <3>1, <3>2
  <2>4. CASE ~Disposable(rcont[r])
    <3>1. CASE st[n] = "stopping"
      <4>1. conns[n] # {}
        BY <2>2, <2>4, <3>1 DEF Disposable, Accepting, NoConns
      <4>2. PICK q \in Req : Held(q) /\ rcont[q] = n
        BY <1>0, <4>1, NoUsersNoConns
      <4>3. q # r /\ Tending(q)
        BY <2>1, <4>2 DEF Held, Tending, Linked
      <4> QED
        BY <1>19, <1>c, <2>1, <2>2, <2>4, <4>2, <4>3 DEF Finish
    <3>2. CASE st[n] # "stopping"
      BY <1>19, <1>c, <2>1, <2>2, <2>4, <3>2 DEF Finish
    <3> QED
      BY <3>1, <3>2
  <2> QED
    BY <2>3, <2>4
<1>20. ASSUME NEW r \in Req, CleanUpAfterRun(r) PROVE Watch'
  <2>1. /\ pc[r] = "cleanup" /\ CheckMemory(r) /\ UNCHANGED pool
        /\ st' = [st EXCEPT ![rcont[r]] = "stopped"]
    BY <1>20 DEF CleanUpAfterRun, CleanUp
  <2>2. rcont[r] \in Cont
    BY <1>0, <2>1 DEF TypeInv, Placed, WithContainer, InAfterRun
  <2>3. st'[rcont[r]] = "stopped" /\ \A c \in Cont : st'[c] = st[c] \/ st'[c] = "stopped"
    BY <1>0, <2>1, <2>2 DEF TypeInv, TypeOK
  <2> QED
    BY <1>c, <2>1, <2>2, <2>3
<1>21. ASSUME NEW r \in Req, CheckMemoryAgain(r) PROVE Watch'
  <2>1. pc[r] = "memory" /\ CheckMemory(r) /\ UNCHANGED <<pool, st>>
    BY <1>21 DEF CheckMemoryAgain
  <2>2. ~Tending(r)
    BY <2>1 DEF Tending, Linked
  <2> QED
    BY <1>c, <2>1, <2>2
\* A step of the handler of v, or of a goroutine that deletes v.
<1>e. ASSUME NEW v \in Cont, Watched(v)', UNCHANGED <<pool, reqVars>>,
             \A c \in Cont : c # v => st'[c] = st[c] /\ evict'[c] = evict[c] /\ (c \in cache => c \in cache'),
             cache' \subseteq cache, UNCHANGED phase
      PROVE  Watch'
  <2>1. \A q \in Req : (Raising(q)' <=> Raising(q)) /\ (Tending(q)' <=> Tending(q))
    BY <1>e DEF Raising, Tending
  <2>2. ASSUME NEW c \in Cont, c # v PROVE Watched(c)'
    BY <1>e, <1>w, <2>1, <2>2, SameWatched DEF Pooled
  <2> QED
    BY <1>e, <1>h, <2>2
<1>22. ASSUME NEW v \in Cont, EvictStopAccepting(v) PROVE Watch'
  <2>1. /\ evict[v] = "handler" /\ UNCHANGED <<phase, pool, cache, reqVars>>
        /\ st'[v] = IF Accepting(v) THEN "stopping" ELSE st[v]
        /\ evict'[v] = "count"
        /\ \A c \in Cont : c # v => st'[c] = st[c] /\ evict'[c] = evict[c]
    BY <1>0, <1>22 DEF EvictStopAccepting, TypeInv, TypeOK
  <2>2. st'[v] \notin {"fresh", "running"}
    BY <2>1 DEF CleanUpInv, SetUps, Accepting
  <2>3. Watched(v)'
    BY <2>1, <2>2 DEF Watched
  <2> QED
    BY <1>e, <2>1, <2>3
<1>37. ASSUME NEW v \in Cont, EvictCountConns(v) PROVE Watch'
  <2>1. /\ evict[v] = "count" /\ UNCHANGED <<phase, pool, cache, st, reqVars>>
        /\ evict'[v] = IF NoConns(v) THEN "cleanup" ELSE CountCached(v)
        /\ \A c \in Cont : c # v => evict'[c] = evict[c]
    BY <1>0, <1>37 DEF EvictCountConns, TypeInv, TypeOK
  <2>2. st'[v] \notin {"fresh", "running"}
    BY <2>1 DEF CleanUpInv, SetUps, Closing, Accepting
  <2>3. Watched(v)'
    <3>1. CASE NoConns(v)
      BY <2>1, <2>2, <3>1 DEF Watched
    <3>2. CASE ~NoConns(v)
      <4>1. PICK q \in Req : Held(q) /\ rcont[q] = v
        BY <1>0, <3>2, NoUsersNoConns DEF NoConns
      <4>2. Tending(q)'
        BY <2>1, <4>1 DEF Held, Tending
      <4> QED
        BY <2>1, <2>2, <4>1, <4>2 DEF Watched
    <3> QED
      BY <3>1, <3>2
  <2> QED
    BY <1>e, <2>1, <2>3
<1>23. ASSUME NEW v \in Cont, EvictCleanUp(v) PROVE Watch'
  <2>1. UNCHANGED <<phase, pool, cache, reqVars>>
    BY <1>23 DEF EvictCleanUp
  <2>2. st'[v] = "stopped" /\ \A c \in Cont : c # v => st'[c] = st[c] /\ evict'[c] = evict[c]
    BY <1>0, <1>23 DEF EvictCleanUp, CleanUp, TypeInv, TypeOK
  <2>3. Watched(v)'
    BY <2>2 DEF Watched
  <2> QED
    BY <1>e, <2>1, <2>2, <2>3
<1>24. ASSUME NEW v \in Cont, EvictDropIndex(v) PROVE Watch'
  <2>1. /\ evict[v] = "drop" /\ UNCHANGED <<phase, pool, cache, st, reqVars>>
        /\ \A c \in Cont : c # v => evict'[c] = evict[c]
    BY <1>0, <1>24 DEF EvictDropIndex, TypeInv, TypeOK
  <2>2. \A q \in Req : (Raising(q)' <=> Raising(q)) /\ (Tending(q)' <=> Tending(q))
    BY <2>1 DEF Raising, Tending
  <2>3. Watched(v)'
    BY <1>w, <2>1, <2>2, SameWatched DEF Pooled
  <2> QED
    BY <1>e, <2>1, <2>3
<1>25. ASSUME NEW v \in Cont, (Expire(v) \/ StreamError(v)) \/ DeleteDoomed(v) PROVE Watch'
  <2>1. UNCHANGED <<phase, pool, reqVars>>
    BY <1>25 DEF Expire, StreamError, DeleteDoomed
  <2>2. v \in cache \/ ~Pooled(v)
    BY <1>0, <1>25 DEF Expire, StreamError, DeleteDoomed, Accepting, Pooled, PoolClean
  <2>3. \A q \in Req : (Raising(q)' <=> Raising(q)) /\ (Tending(q)' <=> Tending(q))
    BY <2>1 DEF Raising, Tending
  <2>4. CASE v \in cache
    BY <1>25, <1>d, <2>1, <2>3, <2>4 DEF Expire, StreamError, DeleteDoomed, DeleteContainer
  <2>5. CASE v \notin cache
    <3>1. st' = [st EXCEPT ![v] = StoppedAccepting(v)] /\ UNCHANGED <<cache, evict>>
      BY <1>25, <2>5 DEF Expire, StreamError, DeleteDoomed, DeleteContainer
    <3>2. st'[v] = StoppedAccepting(v) /\ \A c \in Cont : c # v => st'[c] = st[c]
      BY <1>0, <3>1 DEF TypeInv, TypeOK
    <3>3. Watched(v)'
      BY <1>w, <2>1, <2>2, <2>5, <3>1, <3>2, StopsWatched
    <3> QED
      BY <1>e, <2>1, <3>1, <3>2, <3>3
  <2> QED
    BY <2>4, <2>5
<1>26. ASSUME NEW i \in Index, DeleteIndex(i) PROVE Watch'
  BY <1>s, <1>26 DEF DeleteIndex
<1>27. ASSUME NEW t \in Runtime, FillPool(t) PROVE Watch'
  <2>1. UNCHANGED <<cache, evict, reqVars>>
    BY <1>27 DEF FillPool
  <2>2. CASE CreateFresh(t) /\ UNCHANGED phase
    <3>1. \A q \in Req : (Raising(q) => Raising(q)') /\ (Tending(q) => Tending(q)')
      BY <2>1 DEF Raising, Tending
    <3>2. \A c \in Cont : Watched(c)'
      BY <1>0, <2>1, <2>2, <3>1, CreateWatched
    <3> QED
      BY <1>h, <2>1, <2>2, <3>2
  <2>3. CASE Crash /\ UNCHANGED <<pool, st, cdef, conns>>
    BY <1>s, <2>1, <2>3 DEF Crash
  <2> QED
    BY <1>27, <2>2, <2>3 DEF FillPool
<1>28. ASSUME CreatePool \/ StopPool PROVE Watch'
  BY <1>s, <1>28 DEF CreatePool, StopPool
<1>29. ASSUME DrainPool PROVE Watch'
  <2>1. /\ \A q \in Req : ~Raising(q) /\ ~Tending(q)
        /\ cache' = {}
        /\ \A c \in Cont : evict'[c] = IF c \in cache THEN "handler" ELSE evict[c]
        /\ \A c \in Cont : st'[c] = IF Pooled(c) THEN "stopped" ELSE st[c]
    BY <1>29 DEF DrainPool, Flush, Raising, Tending, Linked, Pooled
  <2>2. \A c \in Cont : Watched(c)'
    BY <1>w, <2>1 DEF Watched
  <2> QED
    BY <2>1, <2>2 DEF Watch
<1>30. ASSUME Restart PROVE Watch'
  BY <1>30 DEF Restart, Watch, Watched
<1>31. ASSUME UNCHANGED vars PROVE Watch'
  BY <1>s, <1>31 DEF vars
<1> QED
  BY <1>1, <1>2, <1>3, <1>4, <1>5, <1>6, <1>7, <1>8, <1>9, <1>10, <1>11, <1>12, <1>13,
     <1>15, <1>16, <1>17, <1>18, <1>19, <1>20, <1>21, <1>22, <1>23, <1>24, <1>25, <1>26,
     <1>27, <1>28, <1>29, <1>30, <1>31, <1>37
  DEF Next, RunStep, AfterRunStep, EvictStep, PoolStep

\* Stopping the pool leaves no container running: each was in the pool, in the
\* cache, or with a handler that is about to stop it, since no run is left.
THEOREM StoppedPoolStops == ASSUME NoLeak PROVE Spec => []StopPoolStops
<1>1. Init => Watch
  BY DEF Init, Watch, Watched
<1>2. CleanUpInv /\ Watch /\ [Next]_vars => Watch'
  BY WatchStep
<1>3. CleanUpInv /\ Watch => StopPoolStops
  <2> SUFFICES ASSUME CleanUpInv, Watch, phase = "stopped", NEW c \in Cont,
                      st[c] \notin {"none", "stopped"}, ~Pooled(c)
               PROVE  evict[c] # "no"
    BY DEF StopPoolStops, Pooled
  <2>1. c \notin cache /\ Watched(c)
    BY DEF Watch
  <2>2. \A r \in Req : pc[r] = "idle"
    BY DEF CleanUpInv, LeakInv, PoolInv, Debts
  <2>3. \A r \in Req : ~Raising(r) /\ ~Tending(r)
    BY <2>2 DEF Raising, Tending, Linked
  <2>4. st[c] \in {"fresh", "running", "stopping"}
    BY DEF CleanUpInv, LeakInv, PoolInv, TypeInv, TypeOK, States
  <2> QED
    BY <2>1, <2>3, <2>4 DEF Watched
<1> QED
  BY <1>1, <1>2, <1>3, CleanUpInvariant, PTL DEF Spec

=============================================================================
