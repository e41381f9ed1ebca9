----------------------- MODULE LoadBalancerCacheProofs -----------------------
(* What the load balancer knows of the containers that its workers have    *)
(* cached, and what it has left of its workers' CPU.                       *)
EXTENDS LoadBalancerProofs, UnitSets

-----------------------------------------------------------------------------
(* Announcements *)

\* A run reserves containers of its own definition only.
Alike == \A r \in Run : \A o \in HeldBy(r) : DefOf(o) = rdef[r]

PoolOf(r) == PoolID[WorkerOf(r)]

\* An answer announces a container of the pool that the run uses, unless the
\* worker has notified of its end meanwhile.  Only runs that share an object,
\* so that one's answer overwrites the other's, announce or have cached the
\* same container, and that is recorded.
Announced ==
  /\ \A r \in Run : answer[r] # None =>
       /\ pc[r] \in {"answered", "settle", "cache"}
       /\ home[answer[r]] # None => home[answer[r]] = PoolOf(r) /\ hdef[answer[r]] = rdef[r]
       /\ cached[answer[r]] # None =>
            PoolID[Owner(cached[answer[r]])] = PoolOf(r) /\ PoolOf(r) \in misled
  /\ \A q, r \in Run : q # r /\ answer[q] # None /\ answer[q] = answer[r] =>
       PoolOf(q) = PoolOf(r) /\ PoolOf(r) \in misled

\* A container is cached for the pool and the definition that it is of.
Known ==
  \A k \in Container : cached[k] # None /\ home[k] # None =>
    home[k] = PoolID[Owner(cached[k])] /\ hdef[k] = DefOf(cached[k])

\* Only one of the workers of a pool is in use, and none is registered beside it.
Sole ==
  \A v, w \in Worker :
    v # w /\ PoolID[v] = PoolID[w] /\ PoolID[v] \notin misled /\ Used(v) => ~Used(w) /\ w \notin workers

\* The definitions of an index.
DefsOf(i) == {d \in Def : DefIndex[d] = i}

\* The counters of a worker that is alive match what is cached, nothing is left
\* of the others, and a closed worker starts from nothing.
TalliedOf(w) ==
  /\ PoolID[w] \notin misled /\ wst[w] = "alive" =>
       \A d \in Def : scripts[w][d] = Cardinality(CachedOn(w, {d}))
  /\ PoolID[w] \notin misled /\ wst[w] # "alive" => CachedOn(w, Def) = {}
  /\ wst[w] = "closed" => \A d \in Def : scripts[w][d] = 0

\* So do the counters of the pools.
IndexedAt(p) == p \notin misled => \A i \in Index : byIndex[i][p] = Cardinality(CachedAt(p, DefsOf(i)))

Tallied == (\A w \in Worker : TalliedOf(w)) /\ (\A p \in Pool : IndexedAt(p))

CacheInv == BalancerInv /\ Alike /\ Announced /\ Known /\ Sole /\ Tallied

LEMMA CurrentHeld ==
  ASSUME TypeInv, NEW r \in Run, pc[r] \notin {"idle", "grab"}
  PROVE  Current(r) \in HeldBy(r) /\ WorkerOf(r) = Owner(Current(r))
<1>1. Len(held[r]) \in 1..WorkerRetry
  BY CurrentType
<1>2. held[r] \in Seq(Reservation)
  BY HeldType
<1>3. Len(held[r]) \in DOMAIN held[r]
  BY <1>1, <1>2, Constants
<1> QED
  BY <1>3 DEF HeldBy, Current, WorkerOf

\* A step of one run leaves the others where they were.
LEMMA OthersUntouched ==
  ASSUME TypeInv, Counted, Registered, NEW r \in Run, RunStep(r)
  PROVE  \A x \in Run \ {r} :
           pc'[x] = pc[x] /\ rdef'[x] = rdef[x] /\ held'[x] = held[x] /\ left'[x] = left[x]
<1>1. /\ pc \in [Run -> Labels] /\ rdef \in [Run -> Def \cup {None}] /\ left \in [Run -> Nat]
  BY DEF TypeInv, TypeOK
<1>2. rdef' = rdef \/ rdef' = [rdef EXCEPT ![r] = None]
  BY DEF RunStep, Grab, Lock, Attempt, Answer, WorkerError, Settle, AddCache, Disconnect, Release, Return
<1>3. left' = left \/ \E n : left' = [left EXCEPT ![r] = n]
  BY DEF RunStep, Grab, Lock, Attempt, Answer, WorkerError, Settle, AddCache, Disconnect, Release, Return
<1>4. \E l : pc' = [pc EXCEPT ![r] = l]
  BY DEF RunStep, Grab, Lock, Attempt, Answer, WorkerError, Settle, AddCache, Disconnect, Release,
         Return, Goto, Reserve
<1>5. \A x \in Run \ {r} : held'[x] = held[x]
  <2>1. CASE Grab(r)
    <3>1. CASE UNCHANGED held
      BY <3>1
    <3>2. ASSUME NEW o \in Object, Reserve(r, o)
          PROVE  \A x \in Run \ {r} : held'[x] = held[x]
      BY <2>1, <3>2, ReserveTypes DEF Grab
    <3> QED
      BY <2>1, <3>1, <3>2, GrabsAlive
  <2>2. CASE Lock(r) \/ Disconnect(r)
    BY <2>2, HeldType DEF Lock, Disconnect
  <2>3. CASE Attempt(r) \/ Answer(r) \/ WorkerError(r) \/ Settle(r) \/ AddCache(r)
    BY <2>3 DEF Attempt, Answer, WorkerError, Settle, AddCache
  <2>4. CASE Release(r)
    BY <2>4, ReleaseCounts
  <2> QED
    BY <2>1, <2>2, <2>3, <2>4 DEF RunStep
<1> QED
  BY <1>1, <1>2, <1>3, <1>4, <1>5

LEMMA AlikeStep ==
  ASSUME BalancerInv, Alike, [Next]_vars
  PROVE  Alike'
<1>0. TypeInv /\ Counted /\ Registered
  BY DEF BalancerInv
<1>1. ASSUME NEW r \in Run, RunStep(r) PROVE Alike'
  <2>1. \A x \in Run : \A o \in HeldBy(x)' : o \in HeldBy(x) \/ (x = r /\ DefOf(o) = rdef[r])
    BY <1>0, <1>1, HeldStep
  <2>2. \A x \in Run : x # r => rdef'[x] = rdef[x]
    BY <1>0, <1>1, OthersUntouched
  <2>3. rdef'[r] = rdef[r] \/ HeldBy(r)' = {}
    <3>1. Lock(r) \/ Attempt(r) \/ Answer(r) \/ WorkerError(r) \/ Settle(r) \/ AddCache(r)
          \/ Disconnect(r) => rdef' = rdef
      BY DEF Lock, Attempt, Answer, WorkerError, Settle, AddCache, Disconnect
    <3>2. CASE Grab(r)
      BY <3>2 DEF Grab, HeldBy
    <3>3. CASE Release(r)
      <4>1. Len(held[r]) = 1 => HeldBy(r)' = {}
        <5>1. /\ held' \in [Run -> Seq(Reservation)] /\ Len(held'[r]) = Len(held[r]) - 1
          BY <1>0, <3>3, ReleaseCounts
        <5> SUFFICES ASSUME Len(held[r]) = 1 PROVE HeldBy(r)' = {}
          OBVIOUS
        <5>2. held'[r] \in Seq(Reservation) /\ Len(held'[r]) = 0
          BY <5>1
        <5>3. held'[r] = << >>
          BY <5>2, NothingLeft
        <5> QED
          BY <5>3 DEF HeldBy
      <4> QED
        BY <3>3, <4>1 DEF Release
    <3> QED
      BY <1>1, <3>1, <3>2, <3>3 DEF RunStep
  <2> QED
    BY <2>1, <2>2, <2>3 DEF Alike
<1>2. ASSUME NEW r \in Run, NEW d \in Def, Start(r, d) PROVE Alike'
  <2>1. held' = held /\ held[r] = << >> /\ \A x \in Run : x # r => rdef'[x] = rdef[x]
    BY <1>0, <1>2 DEF Start, TypeInv, TypeOK, Placed
  <2>2. HeldBy(r)' = {} /\ \A x \in Run : HeldBy(x)' = HeldBy(x)
    BY <2>1 DEF HeldBy
  <2> QED
    BY <2>1, <2>2 DEF Alike
<1>3. CASE UNCHANGED <<held, rdef>>
  BY <1>3 DEF Alike, HeldBy
<1>4. CASE \/ \E w \in Worker : Register(w) \/ Evict(w) \/ EvictHandler(w) \/ Close(w)
           \/ \E k \in Container : ContainerRemoved(k) \/ RemoveCache(k)
  BY <1>0, <1>3, <1>4, EnvType DEF runVars
<1>5. CASE UNCHANGED vars
  BY <1>3, <1>5 DEF vars, runVars
<1> QED
  BY <1>1, <1>2, <1>4, <1>5 DEF Next

\* A step that changes nothing that matters to the announcement of a run.
Unaffected(r) ==
  /\ answer'[r] = answer[r] /\ pc'[r] \in {"answered", "settle", "cache"}
  /\ PoolOf(r)' = PoolOf(r) /\ rdef'[r] = rdef[r]
  /\ home'[answer[r]] # None => home'[answer[r]] = home[answer[r]] /\ hdef'[answer[r]] = hdef[answer[r]]
  /\ cached'[answer[r]] # None => cached'[answer[r]] = cached[answer[r]]
  /\ PoolOf(r) \in misled => PoolOf(r) \in misled'

LEMMA SameAnnounced ==
  ASSUME Announced, \A r \in Run : answer'[r] # None => Unaffected(r)
  PROVE  Announced'
<1>1. ASSUME NEW r \in Run, answer'[r] # None
      PROVE  /\ pc'[r] \in {"answered", "settle", "cache"}
             /\ home'[answer'[r]] # None => home'[answer'[r]] = PoolOf(r)' /\ hdef'[answer'[r]] = rdef'[r]
             /\ cached'[answer'[r]] # None =>
                  PoolID[Owner(cached'[answer'[r]])] = PoolOf(r)' /\ PoolOf(r)' \in misled'
  BY <1>1 DEF Announced, Unaffected
<1>2. ASSUME NEW q \in Run, NEW r \in Run, q # r, answer'[q] # None, answer'[q] = answer'[r]
      PROVE  PoolOf(q)' = PoolOf(r)' /\ PoolOf(r)' \in misled'
  BY <1>2 DEF Announced, Unaffected
<1> QED
  BY <1>1, <1>2 DEF Announced

\* Runs that announce a container have a worker, which is open.
LEMMA AnnouncerType ==
  ASSUME BalancerInv, Announced, NEW r \in Run, answer[r] # None
  PROVE  /\ answer[r] \in Container /\ pc[r] \in {"answered", "settle", "cache"}
         /\ Current(r) \in Object /\ Current(r) \in HeldBy(r) /\ WorkerOf(r) = Owner(Current(r))
         /\ WorkerOf(r) \in Worker /\ PoolOf(r) \in Pool /\ rdef[r] \in Def
         /\ wst[WorkerOf(r)] # "closed"
<1>1. TypeInv /\ OpenWhileUsed
  BY DEF BalancerInv
<1>2. answer[r] \in Container
  BY <1>1 DEF TypeInv, TypeOK
<1>3. pc[r] \in {"answered", "settle", "cache"}
  BY DEF Announced
<1>4. Current(r) \in Object /\ WorkerOf(r) \in Worker /\ rdef[r] \in Def
  BY <1>1, <1>3, CurrentType
<1>5. Current(r) \in HeldBy(r) /\ WorkerOf(r) = Owner(Current(r))
  BY <1>1, <1>3, CurrentHeld
<1>6. wst[WorkerOf(r)] # "closed"
  BY <1>1, <1>5 DEF OpenWhileUsed
<1>7. PoolOf(r) \in Pool
  BY <1>4, Constants DEF PoolOf
<1> QED
  BY <1>2, <1>3, <1>4, <1>5, <1>6, <1>7

\* The answer of one run: it announces a container that nobody knows of.
LEMMA AnswerAnnounced ==
  ASSUME BalancerInv, Announced, NEW r \in Run, Answer(r)
  PROVE  Announced'
<1>0. TypeInv
  BY DEF BalancerInv
<1>1. /\ pc[r] = "relay" /\ pc' = [pc EXCEPT ![r] = "answered"]
      /\ UNCHANGED <<held, rdef, cached, misled>>
  BY DEF Answer, Goto, cacheVars
<1>2. /\ pc \in [Run -> Labels] /\ answer \in [Run -> Container \cup {None}]
      /\ home \in [Container -> Pool \cup {None}] /\ hdef \in [Container -> Def \cup {None}]
      /\ misled \in SUBSET Pool
  BY <1>0 DEF TypeInv, TypeOK
<1>3. answer[r] = None
  BY <1>1 DEF Announced
<1>4. \A x \in Run : PoolOf(x)' = PoolOf(x)
  BY <1>1 DEF PoolOf, WorkerOf, Current
<1>5. \A x \in Run : x # r => pc'[x] = pc[x]
  BY <1>1, <1>2
<1>6. CASE UNCHANGED <<home, hdef, answer>>
  <2>1. \A x \in Run : answer'[x] # None => Unaffected(x)
    BY <1>1, <1>3, <1>4, <1>5, <1>6 DEF Unaffected, Announced
  <2> QED
    BY <2>1, SameAnnounced
<1>7. ASSUME NEW k \in Container, Created(r, k), answer' = [answer EXCEPT ![r] = k]
      PROVE  Announced'
  <2>1. /\ home' = [home EXCEPT ![k] = PoolOf(r)] /\ hdef' = [hdef EXCEPT ![k] = rdef[r]]
        /\ home[k] = None /\ cached[k] = None /\ \A x \in Run : answer[x] # k
    BY <1>7 DEF Created, UnusedContainer, PoolOf
  <2>2. answer'[r] = k /\ \A x \in Run \ {r} : answer'[x] = answer[x]
    BY <1>2, <1>7
  <2>3. home'[k] = PoolOf(r) /\ hdef'[k] = rdef[r] /\ pc'[r] = "answered"
    BY <1>1, <1>2, <2>1
  <2>4. \A c \in Container \ {k} : home'[c] = home[c] /\ hdef'[c] = hdef[c]
    BY <1>2, <2>1
  <2>5. ASSUME NEW x \in Run \ {r}, answer'[x] # None
        PROVE  Unaffected(x)
    <3>1. answer[x] \in Container \ {k}
      BY <1>2, <2>1, <2>2, <2>5
    <3>2. pc[x] \in {"answered", "settle", "cache"}
      BY <3>1, <2>5, <2>2 DEF Announced
    <3> QED
      BY <1>1, <1>4, <1>5, <2>2, <2>4, <3>1, <3>2 DEF Unaffected
  <2>6. ASSUME NEW x \in Run, answer'[x] # None
        PROVE  /\ pc'[x] \in {"answered", "settle", "cache"}
               /\ home'[answer'[x]] # None => home'[answer'[x]] = PoolOf(x)' /\ hdef'[answer'[x]] = rdef'[x]
               /\ cached'[answer'[x]] # None =>
                    PoolID[Owner(cached'[answer'[x]])] = PoolOf(x)' /\ PoolOf(x)' \in misled'
    <3>1. CASE x = r
      BY <1>1, <1>4, <2>1, <2>2, <2>3, <3>1
    <3>2. CASE x # r
      BY <2>5, <2>6, <3>2 DEF Unaffected, Announced
    <3> QED
      BY <3>1, <3>2
  <2>7. ASSUME NEW q \in Run, NEW x \in Run, q # x, answer'[q] # None, answer'[q] = answer'[x]
        PROVE  PoolOf(q)' = PoolOf(x)' /\ PoolOf(x)' \in misled'
    <3>1. q # r /\ x # r
      BY <2>1, <2>2, <2>7
    <3> QED
      BY <2>5, <2>7, <3>1 DEF Unaffected, Announced
  <2> QED
    BY <2>6, <2>7 DEF Announced
<1> QED
  BY <1>6, <1>7 DEF Answer

\* A run overwrites the answers of those that share its object: they announce a
\* container of the same worker, which is recorded.
LEMMA SettleAnnounced ==
  ASSUME BalancerInv, Alike, Announced, NEW r \in Run, Settle(r)
  PROVE  Announced'
<1>0. TypeInv
  BY DEF BalancerInv
<1>1. /\ pc[r] \in {"answered", "settle"}
      /\ UNCHANGED <<held, rdef, cached, home, hdef>>
  BY DEF Settle, remoteVars
<1>2. /\ pc \in [Run -> Labels] /\ answer \in [Run -> Container \cup {None}]
      /\ misled \in SUBSET Pool
  BY <1>0 DEF TypeInv, TypeOK
<1>3. \A x \in Run : PoolOf(x)' = PoolOf(x)
  BY <1>1 DEF PoolOf, WorkerOf, Current
<1>4. CASE answer[r] = None
  <2>1. UNCHANGED <<answer, misled>> /\ \A x \in Run : x # r => pc'[x] = pc[x]
    BY <1>2, <1>4 DEF Settle, Goto
  <2>2. \A x \in Run : answer'[x] # None => Unaffected(x)
    BY <1>1, <1>3, <1>4, <2>1 DEF Unaffected, Announced
  <2> QED
    BY <2>2, SameAnnounced
<1>5. CASE answer[r] # None
  <2>1. PICK S : S = SharingID(r)
    OBVIOUS
  <2>2. /\ pc' = [pc EXCEPT ![r] = "cache"]
        /\ answer' = [q \in Run |-> IF q \in S THEN answer[r] ELSE answer[q]]
        /\ misled' = IF S = {} THEN misled ELSE misled \cup {PoolOf(r)}
    BY <1>5, <2>1 DEF Settle, Goto, PoolOf
  <2>3. ASSUME NEW q \in S
        PROVE  /\ q \in Run /\ q # r /\ pc[q] = "cache" /\ answer[q] # None
               /\ PoolOf(q) = PoolOf(r) /\ rdef[q] = rdef[r]
    <3>1. q \in Run /\ pc[q] = "cache" /\ Current(q) = Current(r)
      BY <2>1, <2>3 DEF SharingID
    <3>2. answer[q] # None
      BY <1>0, <3>1 DEF TypeInv, Placed
    <3>3. Current(q) \in HeldBy(q) /\ Current(r) \in HeldBy(r)
      BY <1>5, <3>1, <3>2, AnnouncerType
    <3>4. rdef[q] = DefOf(Current(q)) /\ rdef[r] = DefOf(Current(r))
      BY <3>1, <3>3 DEF Alike
    <3> QED
      BY <1>1, <3>1, <3>2, <3>4 DEF PoolOf, WorkerOf
  <2>4. \A x \in Run : pc'[x] = IF x = r THEN "cache" ELSE pc[x]
    BY <1>2, <2>2
  <2>5. \A x \in Run : answer'[x] = IF x \in S THEN answer[r] ELSE answer[x]
    BY <2>2
  <2>6. misled \subseteq misled'
    BY <2>2
  <2>7. r \notin S
    BY <2>3
  <2>8. \A x \in Run \ S : answer'[x] # None => Unaffected(x)
    BY <1>1, <1>3, <2>4, <2>5, <2>6 DEF Unaffected, Announced
  <2>9. Unaffected(r)
    BY <1>5, <2>5, <2>7, <2>8
  <2>10. ASSUME NEW x \in S
         PROVE  /\ x \in Run /\ answer'[x] = answer[r] /\ PoolOf(x)' = PoolOf(r)' /\ rdef'[x] = rdef'[r]
                /\ pc'[x] = "cache" /\ PoolOf(r)' \in misled'
    BY <1>1, <1>3, <2>2, <2>3, <2>4, <2>5
  <2>11. ASSUME NEW x \in Run, answer'[x] # None
         PROVE  /\ pc'[x] \in {"answered", "settle", "cache"}
                /\ home'[answer'[x]] # None =>
                     home'[answer'[x]] = PoolOf(x)' /\ hdef'[answer'[x]] = rdef'[x]
                /\ cached'[answer'[x]] # None =>
                     PoolID[Owner(cached'[answer'[x]])] = PoolOf(x)' /\ PoolOf(x)' \in misled'
    <3>1. CASE x \notin S
      BY <2>8, <2>11, <3>1 DEF Unaffected, Announced
    <3>2. CASE x \in S
      <4>1. /\ home'[answer[r]] # None =>
                 home'[answer[r]] = PoolOf(r)' /\ hdef'[answer[r]] = rdef'[r]
            /\ cached'[answer[r]] # None => PoolID[Owner(cached'[answer[r]])] = PoolOf(r)'
        BY <1>1, <1>3, <1>5 DEF Announced
      <4> QED
        BY <2>10, <3>2, <4>1
    <3> QED
      BY <3>1, <3>2
  <2>12. ASSUME NEW q \in Run, NEW x \in Run, q # x, answer'[q] # None, answer'[q] = answer'[x]
         PROVE  PoolOf(q)' = PoolOf(x)' /\ PoolOf(x)' \in misled'
    <3>1. ASSUME NEW y \in Run \ S, y # r, answer'[y] = answer[r]
          PROVE  PoolOf(y)' = PoolOf(r)' /\ PoolOf(r)' \in misled'
      BY <1>3, <1>5, <2>5, <2>6, <3>1 DEF Announced
    <3>2. CASE q \in S /\ x \in S
      BY <2>10, <3>2
    <3>3. CASE q \in S /\ x \notin S
      BY <2>10, <2>12, <3>1, <3>3
    <3>4. CASE q \notin S /\ x \in S
      BY <2>10, <2>12, <3>1, <3>4
    <3>5. CASE q \notin S /\ x \notin S
      BY <1>3, <2>5, <2>6, <2>12, <3>5 DEF Announced
    <3> QED
      BY <3>2, <3>3, <3>4, <3>5
  <2> QED
    BY <2>11, <2>12 DEF Announced
<1> QED
  BY <1>4, <1>5

\* What addCache does, to one container, one worker of one pool and one definition.
Caching(r, k, w, p, d) ==
  /\ answer[r] = k /\ w = WorkerOf(r) /\ p = PoolID[w] /\ d = rdef[r] /\ wst[w] # "closed"
  /\ Owner(Current(r)) = w /\ DefOf(Current(r)) = d /\ Current(r) # None
  /\ Current(r) \in Object /\ Current(r) \in HeldBy(r)
  /\ cached[k] # None => PoolID[Owner(cached[k])] = p /\ p \in misled
  /\ home[k] # None => home[k] = p /\ hdef[k] = d
  /\ pc[r] = "cache" /\ pc' = [pc EXCEPT ![r] = "release"]
  /\ scripts' = [scripts EXCEPT ![w][d] = @ + 1]
  /\ byIndex' = [byIndex EXCEPT ![DefIndex[d]][p] = @ + 1]
  /\ cached' = [cached EXCEPT ![k] = Current(r)]
  /\ misled' = IF wst[w] = "alive" THEN misled ELSE misled \cup {p}
  /\ answer' = [answer EXCEPT ![r] = None]
  /\ UNCHANGED <<workerVars, conns, remoteVars, rdef, held, left, victim>>

LEMMA AddCacheIs ==
  ASSUME BalancerInv, Alike, Announced, NEW r \in Run, AddCache(r)
  PROVE  \E k \in Container, w \in Worker, p \in Pool, d \in Def : Caching(r, k, w, p, d)
<1>0. TypeInv
  BY DEF BalancerInv
<1>1. pc[r] = "cache" /\ answer[r] # None
  BY <1>0 DEF AddCache, TypeInv, Placed
<1>2. /\ answer[r] \in Container /\ Current(r) \in Object /\ Current(r) \in HeldBy(r)
      /\ WorkerOf(r) = Owner(Current(r)) /\ WorkerOf(r) \in Worker /\ rdef[r] \in Def
      /\ wst[WorkerOf(r)] # "closed"
  BY <1>1, AnnouncerType
<1>3. PICK k \in Container, w \in Worker, p \in Pool, d \in Def :
        answer[r] = k /\ w = WorkerOf(r) /\ p = PoolID[w] /\ d = rdef[r]
  BY <1>2, Constants
<1>4. Owner(Current(r)) = w /\ DefOf(Current(r)) = d /\ Current(r) # None
  BY <1>2, <1>3, Constants DEF Alike
<1>5. /\ cached[k] # None => PoolID[Owner(cached[k])] = p /\ p \in misled
      /\ home[k] # None => home[k] = p /\ hdef[k] = d
  BY <1>1, <1>3 DEF Announced, PoolOf
<1>6. /\ pc' = [pc EXCEPT ![r] = "release"]
      /\ scripts' = [scripts EXCEPT ![w][d] = @ + 1]
      /\ byIndex' = [byIndex EXCEPT ![DefIndex[d]][p] = @ + 1]
      /\ cached' = [cached EXCEPT ![k] = Current(r)]
      /\ misled' = IF wst[w] = "alive" THEN misled ELSE misled \cup {p}
      /\ answer' = [answer EXCEPT ![r] = None]
      /\ UNCHANGED <<workerVars, conns, remoteVars, rdef, held, left, victim>>
  BY <1>3, <1>4 DEF AddCache, Goto
<1> QED
  BY <1>1, <1>2, <1>3, <1>4, <1>5, <1>6 DEF Caching

LEMMA AddCacheAnnounced ==
  ASSUME BalancerInv, Alike, Announced, NEW r \in Run, AddCache(r)
  PROVE  Announced'
<1>1. /\ pc \in [Run -> Labels] /\ answer \in [Run -> Container \cup {None}]
      /\ cached \in [Container -> Object \cup {None}]
  BY DEF BalancerInv, TypeInv, TypeOK
<1>0. PICK k \in Container, w \in Worker, p \in Pool, d \in Def : Caching(r, k, w, p, d)
  BY AddCacheIs
<1>2. /\ answer[r] = k /\ p = PoolOf(r) /\ PoolID[Owner(Current(r))] = p
      /\ pc' = [pc EXCEPT ![r] = "release"]
      /\ cached' = [cached EXCEPT ![k] = Current(r)]
      /\ misled' = IF wst[w] = "alive" THEN misled ELSE misled \cup {p}
      /\ answer' = [answer EXCEPT ![r] = None]
      /\ UNCHANGED <<remoteVars, rdef, held>>
  BY <1>0 DEF Caching, PoolOf
<1>3. /\ \A x \in Run \ {r} : answer'[x] = answer[x] /\ pc'[x] = pc[x]
      /\ answer'[r] = None
      /\ \A c \in Container \ {k} : cached'[c] = cached[c]
      /\ cached'[k] = Current(r)
      /\ misled \subseteq misled' /\ UNCHANGED <<home, hdef>>
      /\ k # None
  BY <1>1, <1>2, Constants DEF remoteVars
<1>4. \A x \in Run : PoolOf(x)' = PoolOf(x)
  BY <1>2 DEF PoolOf, WorkerOf, Current
<1>5. ASSUME NEW x \in Run, answer'[x] # None
      PROVE  /\ pc'[x] \in {"answered", "settle", "cache"}
             /\ home'[answer'[x]] # None =>
                  home'[answer'[x]] = PoolOf(x)' /\ hdef'[answer'[x]] = rdef'[x]
             /\ cached'[answer'[x]] # None =>
                  PoolID[Owner(cached'[answer'[x]])] = PoolOf(x)' /\ PoolOf(x)' \in misled'
  <2>1. x # r /\ answer'[x] = answer[x] /\ answer[x] \in Container
    BY <1>1, <1>3, <1>5
  <2>2. CASE answer[x] = k
    <3>1. PoolOf(x) = p /\ p \in misled
      BY <1>2, <1>3, <2>1, <2>2 DEF Announced
    <3> QED
      BY <1>2, <1>3, <1>4, <2>1, <2>2, <3>1 DEF Announced
  <2>3. CASE answer[x] # k
    BY <1>2, <1>3, <1>4, <1>5, <2>1, <2>3 DEF Announced
  <2> QED
    BY <2>2, <2>3
<1>6. ASSUME NEW q \in Run, NEW x \in Run, q # x, answer'[q] # None, answer'[q] = answer'[x]
      PROVE  PoolOf(q)' = PoolOf(x)' /\ PoolOf(x)' \in misled'
  <2>1. q # r /\ x # r
    BY <1>3, <1>6
  <2> QED
    BY <1>3, <1>4, <1>6, <2>1 DEF Announced
<1> QED
  BY <1>5, <1>6 DEF Announced

\* The other steps of a run: it announces nothing, or it goes on with its answer.
LEMMA RunAnnounced ==
  ASSUME BalancerInv, Announced, NEW r \in Run,
         Grab(r) \/ Lock(r) \/ Attempt(r) \/ WorkerError(r) \/ Disconnect(r) \/ Release(r)
  PROVE  Announced'
<1>0. TypeInv /\ Counted
  BY DEF BalancerInv
<1>1. /\ pc \in [Run -> Labels] /\ answer \in [Run -> Container \cup {None}]
      /\ rdef \in [Run -> Def \cup {None}]
      /\ home \in [Container -> Pool \cup {None}] /\ hdef \in [Container -> Def \cup {None}]
  BY <1>0 DEF TypeInv, TypeOK
<1>2. UNCHANGED <<cached, misled>>
  BY DEF Grab, Lock, Attempt, WorkerError, Disconnect, Release, cacheVars
<1>3. /\ \A x \in Run \ {r} : pc'[x] = pc[x] /\ rdef'[x] = rdef[x] /\ held'[x] = held[x]
      /\ \A x \in Run \ {r} : answer'[x] = answer[x]
  <2>1. answer' = answer \/ answer' = [answer EXCEPT ![r] = None]
    BY DEF Grab, Lock, Attempt, WorkerError, Disconnect, Release, Return
  <2>2. RunStep(r) /\ Registered
    BY DEF RunStep, BalancerInv
  <2> QED
    BY <1>0, <1>1, <2>1, <2>2, OthersUntouched
<1>5. \A x \in Run \ {r} : PoolOf(x)' = PoolOf(x)
  BY <1>3 DEF PoolOf, WorkerOf, Current
<1>6. \A x \in Run : answer[x] # None => home'[answer[x]] = home[answer[x]] /\ hdef'[answer[x]] = hdef[answer[x]]
  <2>1. CASE UNCHANGED <<home, hdef>>
    BY <2>1
  <2>2. CASE \E k \in Container : Created(r, k)
    BY <1>1, <2>2 DEF Created, UnusedContainer
  <2>3. UNCHANGED <<home, hdef>> \/ \E k \in Container : Created(r, k)
    BY DEF Grab, Lock, Attempt, WorkerError, Disconnect, Release, remoteVars
  <2> QED
    BY <2>1, <2>2, <2>3
<1>7. answer'[r] # None => Unaffected(r)
  <2>1. CASE WorkerError(r)
    <3>1. /\ pc[r] \in {"relay", "answered"} /\ UNCHANGED <<held, rdef, answer>>
          /\ pc' = [pc EXCEPT ![r] = IF pc[r] = "relay" THEN "release" ELSE "settle"]
      BY <2>1 DEF WorkerError, Goto
    <3>2. answer[r] # None => pc[r] = "answered"
      BY <3>1 DEF Announced
    <3>3. PoolOf(r)' = PoolOf(r)
      BY <3>1 DEF PoolOf, WorkerOf, Current
    <3> QED
      BY <1>1, <1>2, <1>6, <3>1, <3>2, <3>3 DEF Unaffected
  <2>2. CASE Grab(r) \/ Lock(r) \/ Attempt(r) \/ Disconnect(r) \/ Release(r)
    <3>1. pc[r] \in {"grab", "lock", "attempt", "release", "released"}
      BY <2>2 DEF Grab, Lock, Attempt, Disconnect, Release
    <3>2. answer[r] = None
      BY <3>1 DEF Announced
    <3>3. answer' = answer \/ answer' = [answer EXCEPT ![r] = None]
      BY <2>2 DEF Grab, Lock, Attempt, Disconnect, Release, Return
    <3> QED
      BY <1>1, <3>2, <3>3
  <2> QED
    BY <2>1, <2>2
<1>8. ASSUME NEW x \in Run \ {r}, answer'[x] # None
      PROVE  Unaffected(x)
  <2>1. answer[x] # None /\ pc[x] \in {"answered", "settle", "cache"}
    BY <1>3, <1>8 DEF Announced
  <2> QED
    BY <1>2, <1>3, <1>5, <1>6, <2>1 DEF Unaffected
<1> QED
  BY <1>7, <1>8, SameAnnounced

\* Steps of the workers: they forget containers, at most.
Fewer ==
  /\ \A k \in Container : home'[k] # None => home'[k] = home[k] /\ hdef'[k] = hdef[k]
  /\ \A k \in Container : cached'[k] # None => cached'[k] = cached[k]

LEMMA EnvFewer ==
  ASSUME TypeInv,
         \/ \E w \in Worker : Register(w) \/ Evict(w) \/ EvictHandler(w) \/ Close(w)
         \/ \E k \in Container : ContainerRemoved(k) \/ RemoveCache(k)
  PROVE  Fewer
<1>1. /\ cached \in [Container -> Object \cup {None}]
      /\ home \in [Container -> Pool \cup {None}] /\ hdef \in [Container -> Def \cup {None}]
  BY DEF TypeInv, TypeOK
<1>2. ASSUME NEW w \in Worker, Register(w) \/ Evict(w) \/ Close(w)
      PROVE  Fewer
  BY <1>2 DEF Register, Evict, Close, Fewer, cacheVars, remoteVars
<1>3. ASSUME NEW w \in Worker, EvictHandler(w)
      PROVE  Fewer
  BY <1>1, <1>3 DEF EvictHandler, Forget, Fewer, remoteVars
<1>4. ASSUME NEW k \in Container, ContainerRemoved(k) \/ RemoveCache(k)
      PROVE  Fewer
  <2>1. /\ UNCHANGED <<home, hdef>> \/ (home' = [home EXCEPT ![k] = None] /\ hdef' = [hdef EXCEPT ![k] = None])
        /\ cached' = cached \/ cached' = [cached EXCEPT ![k] = None]
    BY <1>4 DEF ContainerRemoved, RemoveCache, cacheVars
  <2> QED
    BY <1>1, <2>1 DEF Fewer
<1> QED
  BY <1>2, <1>3, <1>4

LEMMA EnvAnnounced ==
  ASSUME BalancerInv, Announced,
         \/ \E w \in Worker : Register(w) \/ Evict(w) \/ EvictHandler(w) \/ Close(w)
         \/ \E k \in Container : ContainerRemoved(k) \/ RemoveCache(k)
  PROVE  Announced'
<1>0. TypeInv
  BY DEF BalancerInv
<1>1. UNCHANGED <<pc, rdef, held, answer>> /\ Fewer
  BY <1>0, EnvType, EnvFewer DEF runVars
<1>2. ASSUME NEW r \in Run, answer[r] # None, PoolOf(r) \in misled
      PROVE  PoolOf(r) \in misled'
  <2>1. /\ Current(r) \in Object /\ Current(r) \in HeldBy(r) /\ WorkerOf(r) = Owner(Current(r))
        /\ WorkerOf(r) \in Worker
    BY <1>2, AnnouncerType
  <2>2. Used(WorkerOf(r))
    BY <2>1 DEF Used, UnusedObject
  <2>3. ~UnusedPool(PoolOf(r))
    BY <2>1, <2>2 DEF UnusedPool, UnusedWorker, PoolOf
  <2>4. \/ misled \subseteq misled'
        \/ \E p : UnusedPool(p) /\ misled' = misled \ {p}
    BY DEF Register, Evict, EvictHandler, Close, ContainerRemoved, RemoveCache, cacheVars
  <2> QED
    BY <1>2, <2>3, <2>4
<1>3. \A r \in Run : PoolOf(r)' = PoolOf(r)
  BY <1>1 DEF PoolOf, WorkerOf, Current
<1>4. ASSUME NEW r \in Run, answer'[r] # None
      PROVE  Unaffected(r)
  <2>1. answer[r] # None
    BY <1>1, <1>4
  <2>2. answer[r] \in Container /\ pc[r] \in {"answered", "settle", "cache"}
    BY <2>1, AnnouncerType
  <2> QED
    BY <1>1, <1>2, <1>3, <2>1, <2>2 DEF Unaffected, Fewer
<1> QED
  BY <1>4, SameAnnounced

LEMMA AnnouncedStep ==
  ASSUME BalancerInv, Alike, Announced, [Next]_vars
  PROVE  Announced'
<1>1. ASSUME NEW r \in Run, RunStep(r)
      PROVE  Announced'
  BY <1>1, AnswerAnnounced, SettleAnnounced, AddCacheAnnounced, RunAnnounced DEF RunStep
<1>2. ASSUME UNCHANGED <<held, answer, home, hdef, cached, misled>>,
             \A x \in Run : answer[x] # None => pc'[x] = pc[x] /\ rdef'[x] = rdef[x]
      PROVE  Announced'
  <2>1. \A x \in Run : PoolOf(x)' = PoolOf(x)
    BY <1>2 DEF PoolOf, WorkerOf, Current
  <2>2. \A x \in Run : answer'[x] # None => Unaffected(x)
    BY <1>2, <2>1 DEF Unaffected, Announced
  <2> QED
    BY <2>2, SameAnnounced
<1>3. ASSUME NEW r \in Run, NEW d \in Def, Start(r, d)
      PROVE  Announced'
  <2>1. pc \in [Run -> Labels] /\ rdef \in [Run -> Def \cup {None}]
    BY DEF BalancerInv, TypeInv, TypeOK
  <2>2. answer[r] = None
    BY <1>3 DEF Start, Announced
  <2> QED
    BY <1>2, <1>3, <2>1, <2>2 DEF Start, Goto, cacheVars, remoteVars
<1>4. CASE UNCHANGED vars
  BY <1>2, <1>4 DEF vars, runVars, cacheVars, remoteVars
<1> QED
  BY <1>1, <1>3, <1>4, EnvAnnounced DEF Next

-----------------------------------------------------------------------------
(* What is cached is known *)

LEMMA KnownStep ==
  ASSUME BalancerInv, Alike, Announced, Known, [Next]_vars
  PROVE  Known'
<1>0. TypeInv
  BY DEF BalancerInv
<1>1. /\ cached \in [Container -> Object \cup {None}]
      /\ home \in [Container -> Pool \cup {None}] /\ hdef \in [Container -> Def \cup {None}]
  BY <1>0 DEF TypeInv, TypeOK
<1>2. CASE Fewer
  BY <1>2 DEF Known, Fewer
<1>3. ASSUME NEW r \in Run, RunStep(r)
      PROVE  Known'
  <2>1. CASE AddCache(r)
    <3>1. PICK k \in Container, w \in Worker, p \in Pool, d \in Def : Caching(r, k, w, p, d)
      BY <2>1, AddCacheIs DEF BalancerInv
    <3>2. /\ cached' = [cached EXCEPT ![k] = Current(r)] /\ UNCHANGED <<home, hdef>>
          /\ home[k] # None => home[k] = PoolID[Owner(Current(r))] /\ hdef[k] = DefOf(Current(r))
      BY <3>1 DEF Caching, remoteVars
    <3> QED
      BY <1>1, <3>2 DEF Known
  <2>2. CASE cached' = cached /\ \E k \in Container : Created(r, k)
    <3>1. PICK k \in Container : Created(r, k)
      BY <2>2
    <3> QED
      BY <1>1, <2>2, <3>1 DEF Created, UnusedContainer, Known
  <2>3. CASE UNCHANGED <<home, hdef, cached>>
    BY <1>2, <2>3 DEF Fewer
  <2> QED
    BY <1>3, <2>1, <2>2, <2>3 DEF RunStep, Grab, Lock, Attempt, Answer, WorkerError, Settle,
                                  Disconnect, Release, cacheVars, remoteVars
<1>4. ASSUME NEW r \in Run, NEW d \in Def, Start(r, d)
      PROVE  Known'
  BY <1>2, <1>4 DEF Start, Fewer, cacheVars, remoteVars
<1>5. CASE UNCHANGED vars
  BY <1>2, <1>5 DEF vars, Fewer, cacheVars, remoteVars
<1> QED
  BY <1>0, <1>2, <1>3, <1>4, <1>5, EnvFewer DEF Next

-----------------------------------------------------------------------------
(* One worker of a pool *)

\* Something that comes to refer to a worker finds it registered, or through
\* what refers to it already.
LEMMA UsedStep ==
  ASSUME BalancerInv, Alike, Announced, [Next]_vars, \A w \in Worker : ~Register(w), NEW v \in Worker
  PROVE  /\ Used(v)' => Used(v) \/ v \in workers
         /\ workers' \subseteq workers /\ misled \subseteq misled'
<1>0. TypeInv /\ Counted /\ Registered
  BY DEF BalancerInv
<1>1. /\ cached \in [Container -> Object \cup {None}] /\ removing \in [Container -> Worker \cup {None}]
  BY <1>0 DEF TypeInv, TypeOK
<1>2. /\ workers' \subseteq workers /\ misled \subseteq misled'
  <2>1. ASSUME NEW r \in Run, RunStep(r)
        PROVE  workers' \subseteq workers /\ misled \subseteq misled'
    <3>1. HandleWorkerError(r) => workers' \subseteq workers
      BY DEF HandleWorkerError, Expel
    <3> QED
      BY <2>1, <3>1 DEF RunStep, Grab, Lock, Attempt, Answer, WorkerError, Settle, AddCache,
                        Disconnect, Release, workerVars, cacheVars
  <2>2. ASSUME NEW w \in Worker, Evict(w) \/ EvictHandler(w) \/ Close(w)
        PROVE  workers' \subseteq workers /\ misled \subseteq misled'
    BY <2>2 DEF Evict, EvictHandler, Close, Expel, cacheVars
  <2>3. ASSUME NEW k \in Container, ContainerRemoved(k) \/ RemoveCache(k)
        PROVE  workers' \subseteq workers /\ misled \subseteq misled'
    BY <2>3 DEF ContainerRemoved, RemoveCache, workerVars, cacheVars
  <2>4. ASSUME NEW r \in Run, NEW d \in Def, Start(r, d)
        PROVE  workers' \subseteq workers /\ misled \subseteq misled'
    BY <2>4 DEF Start, workerVars, cacheVars
  <2>5. CASE UNCHANGED vars
    BY <2>5 DEF vars, workerVars, cacheVars
  <2> QED
    BY <2>1, <2>2, <2>3, <2>4, <2>5 DEF Next
<1>3. ASSUME NEW x \in Run, NEW o \in HeldBy(x)'
      PROVE  o \in HeldBy(x) \/ Owner(o) \in workers \/ \E k \in Container : cached[k] = o
  <2>1. ASSUME NEW r \in Run, RunStep(r)
        PROVE  o \in HeldBy(x) \/ Owner(o) \in workers \/ \E k \in Container : cached[k] = o
    BY <1>0, <1>3, <2>1, HeldStep
  <2>2. CASE UNCHANGED held
    BY <1>3, <2>2 DEF HeldBy
  <2>3. CASE \/ \E w \in Worker : Register(w) \/ Evict(w) \/ EvictHandler(w) \/ Close(w)
             \/ \E k \in Container : ContainerRemoved(k) \/ RemoveCache(k)
    BY <1>0, <2>2, <2>3, EnvType DEF runVars
  <2> QED
    BY <2>1, <2>2, <2>3 DEF Next, Start, vars, runVars
<1>4. ASSUME NEW k \in Container, NEW o \in Object, cached'[k] = o
      PROVE  cached[k] = o \/ \E r \in Run : o \in HeldBy(r)
  <2>0. o # None
    BY Constants
  <2>1. ASSUME NEW r \in Run, AddCache(r)
        PROVE  cached[k] = o \/ o \in HeldBy(r)
    <3>1. PICK c \in Container, w \in Worker, p \in Pool, d \in Def : Caching(r, c, w, p, d)
      BY <2>1, AddCacheIs
    <3>2. cached' = [cached EXCEPT ![c] = Current(r)] /\ Current(r) \in HeldBy(r)
      BY <3>1 DEF Caching
    <3> QED
      BY <1>1, <1>4, <3>2
  <2>2. CASE \/ \E w \in Worker : Register(w) \/ Evict(w) \/ EvictHandler(w) \/ Close(w)
             \/ \E c \in Container : ContainerRemoved(c) \/ RemoveCache(c)
    BY <1>0, <1>4, <2>0, <2>2, EnvFewer DEF Fewer
  <2>3. CASE UNCHANGED cached
    BY <1>4, <2>3
  <2>4. ASSUME NEW r \in Run, RunStep(r), ~AddCache(r)
        PROVE  UNCHANGED cached
    BY <2>4 DEF RunStep, Grab, Lock, Attempt, Answer, WorkerError, Settle, Disconnect, Release, cacheVars
  <2> QED
    BY <2>1, <2>2, <2>3, <2>4 DEF Next, Start, vars, cacheVars
<1>5. ASSUME NEW k \in Container, removing'[k] = v
      PROVE  removing[k] = v \/ v \in workers
  <2>0. v # None
    BY Constants
  <2>1. ASSUME NEW c \in Container, ContainerRemoved(c)
        PROVE  removing[k] = v \/ v \in workers
    <3>1. UNCHANGED removing \/ \E w \in workers : removing' = [removing EXCEPT ![c] = w]
      BY <2>1 DEF ContainerRemoved, RegisteredAs
    <3> QED
      BY <1>1, <1>5, <3>1
  <2>2. ASSUME NEW c \in Container, RemoveCache(c)
        PROVE  removing[k] = v
    BY <1>1, <1>5, <2>0, <2>2 DEF RemoveCache
  <2>3. CASE UNCHANGED removing
    BY <1>5, <2>3
  <2>4. ASSUME NEW r \in Run, RunStep(r)
        PROVE  UNCHANGED removing
    BY <2>4 DEF RunStep, Grab, Lock, Attempt, Answer, WorkerError, Settle, AddCache, Disconnect,
                Release, remoteVars
  <2>5. ASSUME NEW w \in Worker, Evict(w) \/ EvictHandler(w) \/ Close(w)
        PROVE  UNCHANGED removing
    BY <2>5 DEF Evict, EvictHandler, Close, remoteVars
  <2> QED
    BY <2>1, <2>2, <2>3, <2>4, <2>5 DEF Next, Start, vars, remoteVars
<1>6. Used(v)' => Used(v) \/ v \in workers
  BY <1>3, <1>4, <1>5 DEF Used, UnusedObject
<1> QED
  BY <1>2, <1>6

LEMMA SoleStep ==
  ASSUME BalancerInv, Alike, Announced, Sole, [Next]_vars
  PROVE  Sole'
<1>0. Registered
  BY DEF BalancerInv
<1> SUFFICES ASSUME NEW v \in Worker, NEW u \in Worker, v # u, PoolID[v] = PoolID[u],
                    PoolID[v] \notin misled', Used(v)'
             PROVE  ~Used(u)' /\ u \notin workers'
  BY DEF Sole
<1>1. CASE \A w \in Worker : ~Register(w)
  <2>1. /\ PoolID[v] \notin misled /\ workers' \subseteq workers
        /\ Used(v) \/ v \in workers
        /\ Used(u)' => Used(u) \/ u \in workers
    BY <1>1, UsedStep
  <2>2. ~(v \in workers /\ u \in workers)
    BY <1>0 DEF Registered
  <2>3. ~(Used(v) /\ (Used(u) \/ u \in workers)) /\ ~(Used(u) /\ v \in workers)
    BY <2>1 DEF Sole
  <2> QED
    BY <2>1, <2>2, <2>3
<1>2. ASSUME NEW w \in Worker, Register(w)
      PROVE  ~Used(u)' /\ u \notin workers'
  <2>1. PICK p : p = PoolID[w]
    OBVIOUS
  <2>2. /\ workers' = (workers \ RegisteredAs(p)) \cup {w}
        /\ misled' = IF UnusedPool(p) THEN misled \ {p}
                     ELSE IF \E x \in Worker : PoolID[x] = p /\ Used(x) THEN misled \cup {p}
                     ELSE misled
        /\ UNCHANGED <<held, cached, removing>>
    BY <1>2, <2>1 DEF Register, remoteVars, runVars
  <2>3. \A x : Used(x)' <=> Used(x)
    BY <2>2 DEF Used, UnusedObject, HeldBy
  <2>4. CASE PoolID[v] = p
    <3>1. ~UnusedPool(p)
      BY <2>3, <2>4 DEF UnusedPool, UnusedWorker
    <3> QED
      BY <2>2, <2>3, <2>4, <3>1
  <2>5. CASE PoolID[v] # p
    <3>1. PoolID[v] \notin misled
      BY <2>2, <2>5
    <3>2. ~Used(u) /\ u \notin workers
      BY <2>3, <3>1 DEF Sole
    <3> QED
      BY <2>1, <2>2, <2>3, <2>5, <3>2
  <2> QED
    BY <2>4, <2>5
<1> QED
  BY <1>1, <1>2

-----------------------------------------------------------------------------
(* The counters *)

\* Steps that make no difference to what is cached on a worker, or of a pool.
SameCached(w) ==
  \A k \in Container :
    \/ cached'[k] = cached[k]
    \/ /\ cached[k] # None => Owner(cached[k]) # w
       /\ cached'[k] # None => Owner(cached'[k]) # w

SameCachedAt(p) ==
  \A k \in Container :
    \/ cached'[k] = cached[k]
    \/ /\ cached[k] # None => PoolID[Owner(cached[k])] # p
       /\ cached'[k] # None => PoolID[Owner(cached'[k])] # p

LEMMA SameTally ==
  ASSUME NEW w \in Worker, TalliedOf(w), SameCached(w),
         wst'[w] = wst[w], PoolID[w] \in misled => PoolID[w] \in misled', scripts'[w] = scripts[w]
  PROVE  TalliedOf(w)'
<1>1. \A D : CachedOn(w, D)' = CachedOn(w, D)
  BY DEF CachedOn, SameCached
<1> QED
  BY <1>1 DEF TalliedOf

LEMMA SameIndexed ==
  ASSUME NEW p \in Pool, IndexedAt(p), SameCachedAt(p), p \in misled => p \in misled',
         \A i \in Index : byIndex'[i][p] = byIndex[i][p]
  PROVE  IndexedAt(p)'
<1>1. \A D : CachedAt(p, D)' = CachedAt(p, D)
  BY DEF CachedAt, SameCachedAt
<1>2. \A i : DefsOf(i)' = DefsOf(i)
  BY DEF DefsOf
<1> QED
  BY <1>1, <1>2 DEF IndexedAt

LEMMA CachedFinite ==
  ASSUME NEW D
  PROVE  /\ \A w : IsFiniteSet(CachedOn(w, D)) /\ Cardinality(CachedOn(w, D)) \in Nat
         /\ \A p : IsFiniteSet(CachedAt(p, D)) /\ Cardinality(CachedAt(p, D)) \in Nat
<1>1. \A w : CachedOn(w, D) \in SUBSET Container /\ CachedAt(w, D) \in SUBSET Container
  BY DEF CachedOn, CachedAt
<1> QED
  BY <1>1, LoadBalancerAssumption, FS_Subset, FS_CardinalityType

\* A container is cached on a worker, of one of the pools.
LEMMA CachedType ==
  ASSUME BalancerInv, NEW k \in Container, cached[k] # None
  PROVE  /\ cached[k] \in Object /\ Owner(cached[k]) \in Worker /\ DefOf(cached[k]) \in Def
         /\ PoolID[Owner(cached[k])] \in Pool /\ Used(Owner(cached[k]))
<1>1. cached[k] \in Object
  BY DEF BalancerInv, TypeInv, TypeOK
<1> QED
  BY <1>1, ObjectType, Constants DEF Used, UnusedObject

\* addCache adds one to the counters of the worker, of its definition and its index.
LEMMA AddCacheTally ==
  ASSUME BalancerInv, Alike, Announced, Tallied, NEW r \in Run, AddCache(r)
  PROVE  Tallied'
<1>1. /\ cached \in [Container -> Object \cup {None}] /\ misled \in SUBSET Pool
      /\ scripts \in [Worker -> [Def -> Nat]] /\ byIndex \in [Index -> [Pool -> Nat]]
  BY DEF BalancerInv, TypeInv, TypeOK
<1>2. PICK k \in Container, w \in Worker, p \in Pool, d \in Def : Caching(r, k, w, p, d)
  BY AddCacheIs
<1>3. PICK i \in Index : i = DefIndex[d]
  BY Constants
<1>4. /\ wst[w] # "closed" /\ Owner(Current(r)) = w /\ DefOf(Current(r)) = d /\ Current(r) # None
      /\ p = PoolID[w]
      /\ cached[k] # None => PoolID[Owner(cached[k])] = p /\ p \in misled
      /\ scripts' = [scripts EXCEPT ![w][d] = @ + 1]
      /\ byIndex' = [byIndex EXCEPT ![i][p] = @ + 1]
      /\ cached' = [cached EXCEPT ![k] = Current(r)]
      /\ misled' = IF wst[w] = "alive" THEN misled ELSE misled \cup {p}
      /\ wst' = wst
  BY <1>2, <1>3 DEF Caching, workerVars
<1>5. cached'[k] = Current(r) /\ \A c \in Container \ {k} : cached'[c] = cached[c]
  BY <1>1, <1>4
<1>6. ASSUME NEW v \in Worker \ {w}, p \in misled' => PoolID[v] # p
      PROVE  TalliedOf(v)'
  <2>1. SameCached(v)
    BY <1>4, <1>5, <1>6 DEF SameCached
  <2> QED
    BY <1>1, <1>4, <2>1, SameTally DEF Tallied
<1>7. ASSUME NEW q \in Pool \ {p}
      PROVE  IndexedAt(q)'
  <2>1. SameCachedAt(q)
    BY <1>4, <1>5 DEF SameCachedAt
  <2> QED
    BY <1>1, <1>4, <2>1, SameIndexed DEF Tallied
<1>8. CASE p \in misled'
  <2>1. ASSUME NEW v \in Worker, PoolID[v] = p
        PROVE  TalliedOf(v)'
    BY <1>1, <1>4, <1>8, <2>1 DEF Tallied, TalliedOf
  <2> QED
    BY <1>6, <1>7, <1>8, <2>1, <1>4 DEF Tallied, IndexedAt
<1>9. CASE p \notin misled'
  <2>1. p \notin misled /\ wst[w] = "alive" /\ cached[k] = None
    BY <1>4, <1>9
  <2>2. ASSUME NEW D
        PROVE  /\ Cardinality(CachedOn(w, D)') = Cardinality(CachedOn(w, D)) + (IF d \in D THEN 1 ELSE 0)
               /\ Cardinality(CachedAt(p, D)') = Cardinality(CachedAt(p, D)) + (IF d \in D THEN 1 ELSE 0)
    <3>1. d \in D => /\ CachedOn(w, D)' = CachedOn(w, D) \cup {k} /\ k \notin CachedOn(w, D)
                     /\ CachedAt(p, D)' = CachedAt(p, D) \cup {k} /\ k \notin CachedAt(p, D)
      BY <1>4, <1>5, <2>1 DEF CachedOn, CachedAt
    <3>2. d \notin D => CachedOn(w, D)' = CachedOn(w, D) /\ CachedAt(p, D)' = CachedAt(p, D)
      BY <1>4, <1>5, <2>1 DEF CachedOn, CachedAt
    <3> QED
      BY <3>1, <3>2, CachedFinite, FS_AddElement
  <2>3. ASSUME NEW e \in Def
        PROVE  scripts'[w][e] = Cardinality(CachedOn(w, {e})')
    <3>1. scripts'[w][e] = scripts[w][e] + (IF e = d THEN 1 ELSE 0)
      BY <1>1, <1>4
    <3>2. (d \in {e} <=> e = d) /\ scripts[w][e] = Cardinality(CachedOn(w, {e}))
      BY <1>4, <2>1 DEF Tallied, TalliedOf
    <3> QED
      BY <2>2, <3>1, <3>2
  <2>4. ASSUME NEW j \in Index
        PROVE  byIndex'[j][p] = Cardinality(CachedAt(p, DefsOf(j))')
    <3>1. byIndex'[j][p] = byIndex[j][p] + (IF j = i THEN 1 ELSE 0)
      BY <1>1, <1>4
    <3>2. (d \in DefsOf(j) <=> j = i) /\ byIndex[j][p] = Cardinality(CachedAt(p, DefsOf(j)))
      BY <1>3, <2>1 DEF DefsOf, Tallied, IndexedAt
    <3> QED
      BY <2>2, <3>1, <3>2
  <2>5. TalliedOf(w)'
    BY <1>4, <2>1, <2>3 DEF TalliedOf
  <2>6. IndexedAt(p)'
    BY <2>4 DEF IndexedAt, DefsOf
  <2> QED
    BY <1>6, <1>7, <1>9, <2>5, <2>6 DEF Tallied
<1> QED
  BY <1>8, <1>9

\* removeCache takes one from them, if it finds the container.
LEMMA RemoveCacheTally ==
  ASSUME BalancerInv, Known, Sole, Tallied, NEW k \in Container, RemoveCache(k)
  PROVE  Tallied'
<1>1. /\ cached \in [Container -> Object \cup {None}] /\ misled \in SUBSET Pool
      /\ scripts \in [Worker -> [Def -> Nat]] /\ byIndex \in [Index -> [Pool -> Nat]]
      /\ home \in [Container -> Pool \cup {None}] /\ hdef \in [Container -> Def \cup {None}]
      /\ removing \in [Container -> Worker \cup {None}]
  BY DEF BalancerInv, TypeInv, TypeOK
<1>2. PICK w \in Worker, p \in Pool, d \in Def :
        removing[k] = w /\ p = PoolID[w] /\ home[k] = p /\ hdef[k] = d
  <2>1. PICK w \in Worker : removing[k] = w /\ home[k] = PoolID[w] /\ PoolID[w] \in Pool
    BY <1>1, Constants DEF RemoveCache, BalancerInv, TypeInv, Defined
  <2>2. hdef[k] \in Def
    BY <1>1, <2>1, Constants DEF BalancerInv, TypeInv, Defined
  <2> QED
    BY <2>1, <2>2
<1>3. PICK i \in Index : i = DefIndex[d]
  BY Constants
<1>4. /\ scripts' = [scripts EXCEPT ![w][d] = Decrement(@)]
      /\ byIndex' = [byIndex EXCEPT ![i][p] = Decrement(@)]
      /\ cached' = [cached EXCEPT ![k] = None]
      /\ misled' = IF cached[k] = None THEN misled \cup {p} ELSE misled
      /\ wst' = wst
  BY <1>2, <1>3 DEF RemoveCache, workerVars
<1>5. cached'[k] = None /\ \A c \in Container \ {k} : cached'[c] = cached[c]
  BY <1>1, <1>4
<1>6. cached[k] # None => PoolID[Owner(cached[k])] = p /\ DefOf(cached[k]) = d
  BY <1>2, Constants DEF Known
<1>7. p \notin misled' => p \notin misled /\ cached[k] # None /\ Owner(cached[k]) = w
  <2>1. Used(w)
    BY <1>2 DEF Used
  <2>2. cached[k] # None /\ p \notin misled => Owner(cached[k]) = w
    BY <1>2, <1>6, <2>1, CachedType DEF Sole
  <2> QED
    BY <1>4, <2>2
<1>8. ASSUME NEW v \in Worker \ {w}, p \in misled' => PoolID[v] # p
      PROVE  TalliedOf(v)'
  <2>1. SameCached(v)
    BY <1>5, <1>6, <1>7, <1>8 DEF SameCached
  <2> QED
    BY <1>1, <1>4, <2>1, SameTally DEF Tallied
<1>9. ASSUME NEW q \in Pool \ {p}
      PROVE  IndexedAt(q)'
  <2>1. SameCachedAt(q)
    BY <1>5, <1>6 DEF SameCachedAt
  <2> QED
    BY <1>1, <1>4, <2>1, SameIndexed DEF Tallied
<1>10. wst[w] = "closed" => \A e \in Def : scripts'[w][e] = 0
  BY <1>1, <1>4 DEF Tallied, TalliedOf, Decrement
<1>11. CASE p \in misled'
  <2>1. ASSUME NEW v \in Worker, PoolID[v] = p
        PROVE  TalliedOf(v)'
    BY <1>1, <1>4, <1>10, <1>11, <2>1 DEF Tallied, TalliedOf
  <2> QED
    BY <1>2, <1>8, <1>9, <1>11, <2>1 DEF Tallied, IndexedAt
<1>12. CASE p \notin misled'
  <2>1. p \notin misled /\ cached[k] # None /\ Owner(cached[k]) = w
    BY <1>7, <1>12
  <2>2. k \in CachedOn(w, Def)
    BY <1>6, <2>1 DEF CachedOn
  <2>3. wst[w] = "alive"
    BY <1>2, <2>1, <2>2 DEF Tallied, TalliedOf
  <2>4. ASSUME NEW D
        PROVE  /\ d \in D => /\ Cardinality(CachedOn(w, D)') = Cardinality(CachedOn(w, D)) - 1
                             /\ Cardinality(CachedOn(w, D)) # 0
                             /\ Cardinality(CachedAt(p, D)') = Cardinality(CachedAt(p, D)) - 1
                             /\ Cardinality(CachedAt(p, D)) # 0
               /\ d \notin D => /\ Cardinality(CachedOn(w, D)') = Cardinality(CachedOn(w, D))
                                /\ Cardinality(CachedAt(p, D)') = Cardinality(CachedAt(p, D))
    <3>1. d \in D => /\ CachedOn(w, D)' = CachedOn(w, D) \ {k} /\ k \in CachedOn(w, D)
                     /\ CachedAt(p, D)' = CachedAt(p, D) \ {k} /\ k \in CachedAt(p, D)
      BY <1>5, <1>6, <2>1 DEF CachedOn, CachedAt
    <3>2. d \notin D => CachedOn(w, D)' = CachedOn(w, D) /\ CachedAt(p, D)' = CachedAt(p, D)
      BY <1>5, <1>6, <2>1 DEF CachedOn, CachedAt
    <3> QED
      BY <3>1, <3>2, CachedFinite, FS_RemoveElement, FS_EmptySet
  <2>5. \A n \in Nat : n # 0 => Decrement(n) = n - 1
    BY DEF Decrement
  <2>6. ASSUME NEW e \in Def
        PROVE  scripts'[w][e] = Cardinality(CachedOn(w, {e})')
    <3>1. scripts'[w][e] = IF e = d THEN Decrement(scripts[w][e]) ELSE scripts[w][e]
      BY <1>1, <1>4
    <3>2. (d \in {e} <=> e = d) /\ scripts[w][e] \in Nat /\ scripts[w][e] = Cardinality(CachedOn(w, {e}))
      BY <1>1, <1>2, <2>1, <2>3 DEF Tallied, TalliedOf
    <3> QED
      BY <2>4, <2>5, <3>1, <3>2
  <2>7. ASSUME NEW j \in Index
        PROVE  byIndex'[j][p] = Cardinality(CachedAt(p, DefsOf(j))')
    <3>1. byIndex'[j][p] = IF j = i THEN Decrement(byIndex[j][p]) ELSE byIndex[j][p]
      BY <1>1, <1>4
    <3>2. /\ d \in DefsOf(j) <=> j = i
          /\ byIndex[j][p] \in Nat /\ byIndex[j][p] = Cardinality(CachedAt(p, DefsOf(j)))
      BY <1>1, <1>3, <2>1 DEF DefsOf, Tallied, IndexedAt
    <3> QED
      BY <2>4, <2>5, <3>1, <3>2
  <2>8. TalliedOf(w)'
    BY <1>2, <1>4, <2>1, <2>3, <2>6 DEF TalliedOf
  <2>9. IndexedAt(p)'
    BY <2>7 DEF IndexedAt, DefsOf
  <2> QED
    BY <1>8, <1>9, <1>12, <2>8, <2>9 DEF Tallied
<1> QED
  BY <1>11, <1>12

\* The eviction handler finds what is cached on the worker by the counters.  No
\* other worker has anything under the pool's ID.
LEMMA EvictHandlerTally ==
  ASSUME BalancerInv, Sole, Tallied, NEW w \in Worker, EvictHandler(w)
  PROVE  Tallied'
<1>1. /\ cached \in [Container -> Object \cup {None}] /\ wst \in [Worker -> {"alive", "shut", "closed"}]
      /\ scripts \in [Worker -> [Def -> Nat]] /\ byIndex \in [Index -> [Pool -> Nat]]
  BY DEF BalancerInv, TypeInv, TypeOK
<1>2. /\ wst' = [wst EXCEPT ![w] = "shut"] /\ UNCHANGED <<scripts, misled>> /\ Forget(w)
      /\ wst[w] = "alive"
  BY DEF EvictHandler, BalancerInv, Registered
<1>3. ASSUME NEW k \in Container
      PROVE  cached'[k] = cached[k] \/ (cached'[k] = None /\ cached[k] # None /\ Owner(cached[k]) = w)
  BY <1>2 DEF Forget
<1>4. ASSUME NEW v \in Worker \ {w}
      PROVE  TalliedOf(v)'
  <2>1. SameCached(v)
    BY <1>3 DEF SameCached
  <2>2. wst'[v] = wst[v]
    BY <1>1, <1>2
  <2> QED
    BY <1>2, <2>1, <2>2, SameTally DEF Tallied
<1>5. ASSUME NEW q \in Pool \ {PoolID[w]}
      PROVE  IndexedAt(q)'
  <2>1. SameCachedAt(q)
    BY <1>3 DEF SameCachedAt
  <2>2. \A j \in Index : byIndex'[j][q] = byIndex[j][q]
    BY <1>1, <1>2 DEF Forget
  <2> QED
    BY <1>2, <2>1, <2>2, SameIndexed DEF Tallied
<1>6. wst'[w] = "shut"
  BY <1>1, <1>2
<1>7. CASE PoolID[w] \notin misled
  <2>1. \A d \in Def : scripts[w][d] = Cardinality(CachedOn(w, {d}))
    BY <1>2, <1>7 DEF Tallied, TalliedOf
  <2>2. ASSUME NEW k \in Container, cached[k] # None, Owner(cached[k]) = w
        PROVE  scripts[w][DefOf(cached[k])] > 0
    <3>1. PICK d \in Def : d = DefOf(cached[k])
      BY <1>1, <2>2, ObjectType
    <3>2. k \in CachedOn(w, {d})
      BY <2>2, <3>1 DEF CachedOn
    <3>3. scripts[w][d] \in Nat /\ scripts[w][d] # 0
      BY <1>1, <2>1, <3>2, CachedFinite, FS_EmptySet
    <3> QED
      BY <3>1, <3>3
  <2>3. \A k \in Container : cached'[k] # None => Owner(cached'[k]) # w
    BY <1>2, <1>3, <2>2 DEF Forget
  <2>4. CachedOn(w, Def)' = {}
    BY <2>3 DEF CachedOn
  <2>5. TalliedOf(w)'
    BY <1>6, <2>4 DEF TalliedOf
  <2>6. ASSUME NEW j \in Index
        PROVE  byIndex'[j][PoolID[w]] = Cardinality(CachedAt(PoolID[w], DefsOf(j))')
    <3>0. PoolID[w] \in Pool
      BY Constants
    <3>1. CASE \E d \in Def : DefIndex[d] = j /\ scripts[w][d] > 0
      <4>1. Used(w)
        <5>1. PICK d \in Def : scripts[w][d] > 0
          BY <3>1
        <5>2. CachedOn(w, {d}) # {}
          <6>1. scripts[w][d] = Cardinality(CachedOn(w, {d})) /\ scripts[w][d] \in Nat
            BY <1>1, <2>1, <5>1
          <6> QED
            BY <5>1, <6>1, FS_EmptySet
        <5> QED
          BY <5>2, CachedType DEF CachedOn
      <4>2. ASSUME NEW k \in CachedAt(PoolID[w], DefsOf(j))'
            PROVE  FALSE
        <5>1. k \in Container /\ cached'[k] # None /\ PoolID[Owner(cached'[k])] = PoolID[w]
          BY <4>2 DEF CachedAt
        <5>2. cached[k] # None /\ PoolID[Owner(cached[k])] = PoolID[w] /\ Owner(cached[k]) # w
          BY <1>3, <2>3, <5>1
        <5> QED
          BY <1>7, <4>1, <5>1, <5>2, CachedType DEF Sole
      <4>3. CachedAt(PoolID[w], DefsOf(j))' = {}
        BY <4>2
      <4>4. byIndex'[j][PoolID[w]] = 0
        BY <1>1, <1>2, <3>0, <3>1 DEF Forget
      <4> QED
        BY <4>3, <4>4, FS_EmptySet
    <3>2. CASE \A d \in Def : DefIndex[d] = j => ~(scripts[w][d] > 0)
      <4>1. \A k \in Container : cached'[k] = cached[k] \/ DefOf(cached[k]) \notin DefsOf(j)
        BY <1>3, <2>2, <3>2 DEF DefsOf
      <4>2. CachedAt(PoolID[w], DefsOf(j))' = CachedAt(PoolID[w], DefsOf(j))
        <5>1. ASSUME NEW k \in Container, DefOf(cached[k]) \in DefsOf(j)
              PROVE  cached'[k] = cached[k]
          BY <4>1, <5>1
        <5>2. \A k \in Container : cached'[k] # None => cached'[k] = cached[k]
          BY <1>3
        <5>3. DefsOf(j)' = DefsOf(j)
          BY DEF DefsOf
        <5> QED
          BY <5>1, <5>2, <5>3 DEF CachedAt
      <4>3. byIndex'[j] = byIndex[j]
        BY <1>2, <3>2 DEF Forget
      <4> QED
        BY <1>7, <3>0, <4>2, <4>3 DEF Tallied, IndexedAt
    <3> QED
      BY <3>1, <3>2
  <2>7. IndexedAt(PoolID[w])'
    BY <2>6 DEF IndexedAt, DefsOf
  <2> QED
    BY <1>4, <1>5, <2>5, <2>7 DEF Tallied
<1>8. CASE PoolID[w] \in misled
  BY <1>2, <1>4, <1>5, <1>6, <1>8 DEF Tallied, TalliedOf, IndexedAt
<1> QED
  BY <1>7, <1>8

\* A worker that registers starts with nothing, as nothing refers to it; so does
\* its pool, if it is new.
LEMMA RegisterTally ==
  ASSUME BalancerInv, Tallied, NEW w \in Worker, Register(w)
  PROVE  Tallied'
<1>1. /\ cached \in [Container -> Object \cup {None}] /\ wst \in [Worker -> {"alive", "shut", "closed"}]
  BY DEF BalancerInv, TypeInv, TypeOK
<1>2. PICK p \in Pool : p = PoolID[w]
  BY Constants
<1>3. /\ wst[w] = "closed" /\ wst' = [wst EXCEPT ![w] = "alive"]
      /\ IF UnusedPool(p) THEN misled' = misled \ {p} ELSE misled \subseteq misled'
      /\ UNCHANGED <<scripts, byIndex, cached>> /\ ~Used(w)
  BY <1>2 DEF Register, UnusedWorker
<1>4. ASSUME NEW v \in Worker, ~Used(v)
      PROVE  \A D : CachedOn(v, D)' = {}
  BY <1>1, <1>3, <1>4, CachedType DEF CachedOn
<1>5. ASSUME NEW v \in Worker, wst[v] = "closed", ~Used(v)
      PROVE  TalliedOf(v)'
  <2>1. /\ \A d \in Def : scripts'[v][d] = 0
        /\ \A D : CachedOn(v, D)' = {}
    BY <1>3, <1>4, <1>5 DEF Tallied, TalliedOf
  <2> QED
    BY <2>1, FS_EmptySet DEF TalliedOf
<1>6. \A v \in Worker : SameCached(v) /\ wst'[v] = IF v = w THEN "alive" ELSE wst[v]
  BY <1>1, <1>3 DEF SameCached
<1>7. \A q \in Pool : SameCachedAt(q)
  BY <1>3 DEF SameCachedAt
<1>8. CASE ~UnusedPool(p)
  <2>1. \A v \in Worker \ {w} : TalliedOf(v)'
    BY <1>3, <1>6, <1>8, SameTally DEF Tallied
  <2>2. \A q \in Pool : IndexedAt(q)'
    BY <1>3, <1>7, <1>8, SameIndexed DEF Tallied
  <2> QED
    BY <1>3, <1>5, <2>1, <2>2 DEF Tallied
<1>9. CASE UnusedPool(p)
  <2>1. ASSUME NEW v \in Worker, PoolID[v] = p
        PROVE  TalliedOf(v)'
    BY <1>5, <1>9, <2>1 DEF UnusedPool, UnusedWorker
  <2>2. ASSUME NEW v \in Worker, PoolID[v] # p
        PROVE  TalliedOf(v)'
    BY <1>2, <1>3, <1>6, <1>9, <2>2, SameTally DEF Tallied
  <2>3. IndexedAt(p)'
    <3>1. \A D : CachedAt(p, D)' = {}
      BY <1>3, <1>9, CachedType DEF CachedAt, UnusedPool, UnusedWorker
    <3> QED
      BY <1>3, <1>9, <3>1, FS_EmptySet DEF IndexedAt, UnusedPool
  <2>4. \A q \in Pool \ {p} : IndexedAt(q)'
    BY <1>3, <1>7, <1>9, SameIndexed DEF Tallied
  <2> QED
    BY <2>1, <2>2, <2>3, <2>4 DEF Tallied
<1> QED
  BY <1>8, <1>9

\* Only a worker that is shut down closes.
LEMMA CloseTally ==
  ASSUME BalancerInv, Tallied, NEW w \in Worker, Close(w)
  PROVE  Tallied'
<1>1. /\ wst \in [Worker -> {"alive", "shut", "closed"}] /\ scripts \in [Worker -> [Def -> Nat]]
  BY DEF BalancerInv, TypeInv, TypeOK
<1>2. /\ wst[w] = "shut" /\ wst' = [wst EXCEPT ![w] = "closed"]
      /\ scripts' = [scripts EXCEPT ![w] = [d \in Def |-> 0]]
      /\ UNCHANGED <<byIndex, cached, misled>>
  BY DEF Close
<1>3. ASSUME NEW v \in Worker \ {w}
      PROVE  TalliedOf(v)'
  BY <1>1, <1>2, SameTally DEF Tallied, SameCached
<1>4. wst'[w] = "closed" /\ \A d \in Def : scripts'[w][d] = 0
  BY <1>1, <1>2
<1>5. PoolID[w] \notin misled => CachedOn(w, Def)' = {}
  BY <1>2 DEF Tallied, TalliedOf, CachedOn
<1>6. ASSUME NEW q \in Pool
      PROVE  IndexedAt(q)'
  BY <1>2, SameIndexed DEF Tallied, SameCachedAt
<1> QED
  BY <1>2, <1>3, <1>4, <1>5, <1>6 DEF Tallied, TalliedOf

LEMMA TalliedStep ==
  ASSUME CacheInv, [Next]_vars
  PROVE  Tallied'
<1>0. BalancerInv /\ Alike /\ Announced /\ Known /\ Sole /\ Tallied
  BY DEF CacheInv
<1>1. CASE UNCHANGED <<wst, scripts, byIndex, cached>> /\ misled \subseteq misled'
  <2>1. /\ \A w \in Worker : SameCached(w)
        /\ \A p \in Pool : SameCachedAt(p)
    BY <1>1 DEF SameCached, SameCachedAt
  <2> QED
    BY <1>0, <1>1, <2>1, SameTally, SameIndexed DEF Tallied
<1>2. ASSUME NEW r \in Run, RunStep(r)
      PROVE  Tallied'
  <2>1. CASE AddCache(r)
    BY <1>0, <2>1, AddCacheTally
  <2>2. CASE ~AddCache(r)
    BY <1>1, <1>2, <2>2 DEF RunStep, Grab, Lock, Attempt, Answer, WorkerError, Settle, Disconnect,
                            Release, cacheVars, workerVars
  <2> QED
    BY <2>1, <2>2
<1>3. ASSUME NEW r \in Run, NEW d \in Def, Start(r, d)
      PROVE  Tallied'
  BY <1>1, <1>3 DEF Start, workerVars, cacheVars
<1>4. ASSUME NEW w \in Worker, Register(w) \/ Evict(w) \/ EvictHandler(w) \/ Close(w)
      PROVE  Tallied'
  <2>1. CASE Evict(w)
    BY <1>1, <2>1 DEF Evict, cacheVars
  <2> QED
    BY <1>0, <1>4, <2>1, RegisterTally, EvictHandlerTally, CloseTally
<1>5. ASSUME NEW k \in Container, ContainerRemoved(k) \/ RemoveCache(k)
      PROVE  Tallied'
  <2>1. CASE ContainerRemoved(k)
    BY <1>1, <2>1 DEF ContainerRemoved, workerVars, cacheVars
  <2> QED
    BY <1>0, <1>5, <2>1, RemoveCacheTally
<1>6. CASE UNCHANGED vars
  BY <1>1, <1>6 DEF vars, workerVars, cacheVars
<1> QED
  BY <1>2, <1>3, <1>4, <1>5, <1>6 DEF Next

LEMMA CacheInit == ASSUME Init PROVE CacheInv
<1>1. BalancerInv
  BY InitHolds
<1>2. Alike
  BY DEF Init, Alike, HeldBy
<1>3. Announced /\ Known
  BY DEF Init, Announced, Known
<1>4. \A w \in Worker : \A D : CachedOn(w, D) = {}
  BY DEF Init, CachedOn
<1>5. \A p \in Pool : \A D : CachedAt(p, D) = {}
  BY DEF Init, CachedAt
<1>6. Tallied
  BY <1>4, <1>5, FS_EmptySet DEF Init, Tallied, TalliedOf, IndexedAt
<1>7. \A w \in Worker : ~Used(w)
  BY Constants DEF Init, Used, UnusedObject, HeldBy
<1>8. Sole
  BY <1>7 DEF Sole
<1> QED
  BY <1>1, <1>2, <1>3, <1>6, <1>8 DEF CacheInv

LEMMA CacheInvariance == Spec => []CacheInv
<1>1. Init => CacheInv
  BY CacheInit
<1>2. CacheInv /\ [Next]_vars => CacheInv'
  BY StepHolds, AlikeStep, AnnouncedStep, KnownStep, SoleStep, TalliedStep DEF CacheInv
<1> QED
  BY <1>1, <1>2, PTL DEF Spec

\* A registered worker is indexed by the number of its cached containers, of each
\* definition and index, as long as no notification and no answer has misled the
\* balancer: Delete reaches exactly the workers that have the scripts.
THEOREM IndexTrue == Spec => []IndexCounts
<1>1. ASSUME CacheInv
      PROVE  IndexCounts
  <2>1. \A w \in workers : w \in Worker /\ wst[w] = "alive"
    BY <1>1 DEF CacheInv, BalancerInv, TypeInv, TypeOK, Registered, RegisteredAlive
  <2>2. ASSUME NEW w \in workers, PoolID[w] \notin misled
        PROVE  /\ \A d \in Def : scripts[w][d] = Cardinality(CachedOn(w, {d}))
               /\ \A i \in Index : byIndex[i][PoolID[w]] = Cardinality(CachedAt(PoolID[w], DefsOf(i)))
    BY <1>1, <2>1, <2>2, Constants DEF CacheInv, Tallied, TalliedOf, IndexedAt
  <2> QED
    BY <2>2 DEF IndexCounts, DefsOf
<1> QED
  BY <1>1, CacheInvariance, PTL

\* Once a worker was shut down the balancer neither has a container of it in its
\* cache nor finds it by an index, unless it was misled about that worker: no Run
\* and no Delete uses it again.
THEOREM ForgottenForGood == Spec => []WorkerForgotten
<1>1. ASSUME CacheInv
      PROVE  WorkerForgotten
  <2>1. \A w \in Worker : PoolID[w] \notin misled /\ wst[w] # "alive" => CachedOn(w, Def) = {}
    BY <1>1 DEF CacheInv, Tallied, TalliedOf
  <2>2. ASSUME NEW p \in Pool \ misled, \A w \in Worker : PoolID[w] = p => wst[w] # "alive", NEW i \in Index
        PROVE  byIndex[i][p] = 0
    <3>1. ASSUME NEW k \in CachedAt(p, DefsOf(i))
          PROVE  FALSE
      <4>1. k \in Container /\ cached[k] # None /\ PoolID[Owner(cached[k])] = p
        BY <3>1 DEF CachedAt
      <4>2. Owner(cached[k]) \in Worker /\ DefOf(cached[k]) \in Def
        BY <1>1, <4>1, CachedType DEF CacheInv
      <4>3. k \in CachedOn(Owner(cached[k]), Def)
        BY <4>1, <4>2 DEF CachedOn
      <4> QED
        BY <2>1, <2>2, <4>1, <4>2, <4>3
    <3>2. CachedAt(p, DefsOf(i)) = {}
      BY <3>1
    <3> QED
      BY <1>1, <2>2, <3>2, FS_EmptySet DEF CacheInv, Tallied, IndexedAt
  <2> QED
    BY <2>1, <2>2 DEF WorkerForgotten
<1> QED
  BY <1>1, CacheInvariance, PTL

-----------------------------------------------------------------------------
(* The workers' CPU *)

\* The containers that take CPU of a worker, and the runs that owe it some.
Busy(w) == {o \in Object : Owner(o) = w /\ conns[o] > 0}
Owes(r) == pc[r] = "released" /\ left[r] = 0
Owing(w) == {r \in Run : Owes(r) /\ WorkerOf(r) = w}

CostOf == [o \in Object |-> Mcpu[DefOf(o)]]
DebtOf == [r \in Run |-> Mcpu[rdef[r]]]

BooksOf(w) ==
  /\ IsFiniteSet(UnitsIn(Busy(w), CostOf)) /\ IsFiniteSet(UnitsIn(Owing(w), DebtOf))
  /\ wst[w] = "alive" =>
       freeCPU[w] = MCPU - Cardinality(UnitsIn(Busy(w), CostOf)) - Cardinality(UnitsIn(Owing(w), DebtOf))

\* Every unit of CPU is free, taken or due.
Books == \A w \in Worker : BooksOf(w)

LEMMA BooksAre ==
  ASSUME NEW w
  PROVE  CPUTaken(w) = UnitsIn(Busy(w), CostOf) /\ CPUDue(w) = UnitsIn(Owing(w), DebtOf)
  BY DEF CPUTaken, CPUDue, UnitsIn, UnitsOf, Busy, Owing, Owes, CostOf, DebtOf

\* Steps that change neither the containers with connections nor the debts.
SameDebts ==
  \A r \in Run :
    /\ Owes(r)' <=> Owes(r)
    /\ Owes(r) => WorkerOf(r)' = WorkerOf(r) /\ rdef'[r] = rdef[r]

LEMMA SameOwing ==
  ASSUME SameDebts, NEW w
  PROVE  UnitsIn(Owing(w), DebtOf)' = UnitsIn(Owing(w), DebtOf)
<1>1. Owing(w)' = Owing(w)
  BY DEF SameDebts, Owing
<1>2. \A r \in Owing(w) : DebtOf'[r] = DebtOf[r]
  BY DEF SameDebts, Owing, DebtOf
<1> QED
  BY <1>1, <1>2, UnitsSame DEF UnitsIn

LEMMA SameBooks ==
  ASSUME NEW w \in Worker, BooksOf(w), SameDebts, Busy(w)' = Busy(w),
         wst'[w] = "alive" => wst[w] = "alive" /\ freeCPU'[w] = freeCPU[w]
  PROVE  BooksOf(w)'
<1>1. UnitsIn(Owing(w), DebtOf)' = UnitsIn(Owing(w), DebtOf)
  BY SameOwing
<1>2. UnitsIn(Busy(w), CostOf)' = UnitsIn(Busy(w), CostOf)
  BY DEF UnitsIn, CostOf
<1> QED
  BY <1>1, <1>2 DEF BooksOf

\* The first connection of a container takes its CPU.
LEMMA GrabBooks ==
  ASSUME BalancerInv, Books, NEW r \in Run, Grab(r)
  PROVE  Books'
<1>0. TypeInv /\ Counted /\ Registered
  BY DEF BalancerInv
<1>1. /\ conns \in [Object -> Nat] /\ freeCPU \in [Worker -> Int] /\ pc \in [Run -> Labels]
      /\ \A d \in Def : Mcpu[d] \in Nat /\ MCPU \in Nat
  BY <1>0, Constants DEF TypeInv, TypeOK
<1>2. pc[r] = "grab" /\ wst' = wst
  BY DEF Grab
<1>3. SameDebts
  <2>1. \A x \in Run \ {r} : pc'[x] = pc[x] /\ rdef'[x] = rdef[x] /\ held'[x] = held[x] /\ left'[x] = left[x]
    BY <1>0, OthersUntouched DEF RunStep
  <2>2. pc'[r] # "released"
    BY <1>1, <1>2 DEF Grab, Reserve, Return, Goto
  <2> QED
    BY <1>2, <2>1, <2>2 DEF SameDebts, Owes, WorkerOf, Current
<1>4. CASE UNCHANGED <<conns, freeCPU>>
  <2>1. \A w \in Worker : Busy(w)' = Busy(w)
    BY <1>4 DEF Busy
  <2> QED
    BY <1>2, <1>3, <1>4, <2>1, SameBooks DEF Books
<1>5. ASSUME NEW o \in Object, Reserve(r, o)
      PROVE  Books'
  <2>1. PICK w \in Worker, d \in Def : w = Owner(o) /\ d = DefOf(o)
    BY ObjectType
  <2>2. /\ conns' = [conns EXCEPT ![o] = @ + 1]
        /\ freeCPU' = [freeCPU EXCEPT ![w] = IF conns[o] = 0 THEN @ - Mcpu[d] ELSE @]
    BY <1>5, <2>1 DEF Reserve
  <2>3. conns'[o] = conns[o] + 1 /\ \A p \in Object \ {o} : conns'[p] = conns[p]
    BY <1>1, <2>2
  <2>4. conns[o] \in Nat /\ conns'[o] > 0
    BY <1>1, <2>3
  <2>5. \A v \in Worker \ {w} : Busy(v)' = Busy(v) /\ freeCPU'[v] = freeCPU[v]
    BY <1>1, <2>1, <2>2, <2>3 DEF Busy
  <2>6. \A v \in Worker \ {w} : BooksOf(v)'
    BY <1>2, <1>3, <2>5, SameBooks DEF Books
  <2>7. CASE conns[o] # 0
    <3>1. Busy(w)' = Busy(w) /\ freeCPU'[w] = freeCPU[w]
      BY <1>1, <2>1, <2>2, <2>3, <2>4, <2>7 DEF Busy
    <3>2. BooksOf(w)'
      BY <1>2, <1>3, <3>1, SameBooks DEF Books
    <3> QED
      BY <2>6, <3>2 DEF Books
  <2>8. CASE conns[o] = 0
    <3>1. Busy(w)' = Busy(w) \cup {o} /\ o \notin Busy(w) /\ freeCPU'[w] = freeCPU[w] - Mcpu[d]
      BY <1>1, <2>1, <2>2, <2>3, <2>4, <2>8 DEF Busy
    <3>2. CostOf[o] = Mcpu[d] /\ Mcpu[d] \in Nat
      BY <1>1, <2>1 DEF CostOf
    <3>3. UnitsIn(Busy(w), CostOf)' = UnitsIn(Busy(w) \cup {o}, CostOf)
      BY <3>1 DEF UnitsIn, CostOf
    <3>4. BooksOf(w)
      BY DEF Books
    <3>5. /\ IsFiniteSet(UnitsIn(Busy(w), CostOf)')
          /\ Cardinality(UnitsIn(Busy(w), CostOf)') = Cardinality(UnitsIn(Busy(w), CostOf)) + Mcpu[d]
          /\ Cardinality(UnitsIn(Busy(w), CostOf)) \in Nat
      <4>1. IsFiniteSet(UnitsIn(Busy(w), CostOf)) /\ \A p \in Busy(w) : CostOf[p] = CostOf[p]
        BY <3>4 DEF BooksOf
      <4>2. /\ IsFiniteSet(UnitsIn(Busy(w) \cup {o}, CostOf))
            /\ Cardinality(UnitsIn(Busy(w) \cup {o}, CostOf)) =
                 Cardinality(UnitsIn(Busy(w), CostOf)) + CostOf[o]
            /\ Cardinality(UnitsIn(Busy(w), CostOf)) \in Nat
        BY <3>1, <3>2, <4>1, UnitsGain
      <4> QED
        BY <3>2, <3>3, <4>2
    <3>6. /\ UnitsIn(Owing(w), DebtOf)' = UnitsIn(Owing(w), DebtOf)
          /\ IsFiniteSet(UnitsIn(Owing(w), DebtOf)) /\ Cardinality(UnitsIn(Owing(w), DebtOf)) \in Nat
      BY <1>3, <3>4, SameOwing, FS_CardinalityType DEF BooksOf
    <3>7. wst[w] = "alive" =>
            freeCPU'[w] = MCPU - Cardinality(UnitsIn(Busy(w), CostOf)') - Cardinality(UnitsIn(Owing(w), DebtOf))
      BY <1>1, <3>1, <3>2, <3>4, <3>5, <3>6 DEF BooksOf
    <3>8. BooksOf(w)'
      BY <1>2, <3>5, <3>6, <3>7 DEF BooksOf
    <3> QED
      BY <2>6, <3>8 DEF Books
  <2> QED
    BY <2>7, <2>8
<1>6. (\E o \in Object : Reserve(r, o)) \/ UNCHANGED <<conns, freeCPU>>
  <2>1. \/ \E o \in Considered(rdef[r]) : Reserve(r, o)
        \/ \E w \in workers, n \in Copy : Reserve(r, <<w, rdef[r], n>>)
        \/ UNCHANGED <<conns, freeCPU>>
    BY DEF Grab, FreestWorkers
  <2>2. rdef[r] \in Def /\ workers \subseteq Worker
    BY <1>0, <1>2 DEF TypeInv, TypeOK, Placed
  <2>3. Considered(rdef[r]) \subseteq Object
    BY <1>0 DEF Considered, CachedFor, TypeInv, TypeOK
  <2>4. \A w \in workers, n \in Copy : <<w, rdef[r], n>> \in Object
    BY <2>2 DEF Object
  <2> QED
    BY <2>1, <2>3, <2>4
<1> QED
  BY <1>4, <1>5, <1>6

\* A run that closes the last connection owes what the container took.
LEMMA DisconnectBooks ==
  ASSUME BalancerInv, Alike, Books, NEW r \in Run, Disconnect(r)
  PROVE  Books'
<1>0. TypeInv /\ Counted /\ Registered
  BY DEF BalancerInv
<1>1. /\ conns \in [Object -> Nat] /\ left \in [Run -> Nat] /\ pc \in [Run -> Labels]
      /\ \A d \in Def : Mcpu[d] \in Nat /\ MCPU \in Nat /\ freeCPU \in [Worker -> Int]
  BY <1>0, Constants DEF TypeInv, TypeOK
<1>2. pc[r] = "release" /\ UNCHANGED <<wst, freeCPU, rdef>>
  BY DEF Disconnect, workerVars
<1>3. PICK o \in Object, w \in Worker, d \in Def :
        /\ o = Current(r) /\ o \in HeldBy(r) /\ w = Owner(o) /\ w = WorkerOf(r) /\ d = rdef[r]
  BY <1>0, <1>2, CurrentType, CurrentHeld
<1>4. d = DefOf(o)
  BY <1>3 DEF Alike
<1>5. /\ pc' = [pc EXCEPT ![r] = "released"]
      /\ conns' = [conns EXCEPT ![o] = @ - 1] /\ left' = [left EXCEPT ![r] = conns[o] - 1]
      /\ held' = [held EXCEPT ![r][Len(held[r])].locked = FALSE]
  BY <1>3 DEF Disconnect, Goto
<1>6. conns[o] - 1 \in Nat
  BY <1>0, <1>3, DisconnectCounts
<1>7. /\ conns'[o] = conns[o] - 1 /\ left'[r] = conns[o] - 1 /\ pc'[r] = "released"
      /\ \A p \in Object \ {o} : conns'[p] = conns[p]
  BY <1>1, <1>5
<1>8. \A x \in Run \ {r} : pc'[x] = pc[x] /\ held'[x] = held[x] /\ left'[x] = left[x]
  BY <1>0, OthersUntouched DEF RunStep
<1>9. WorkerOf(r)' = w
  <2>1. Len(held[r]) \in 1..WorkerRetry
    BY <1>0, <1>2, CurrentType
  <2>2. Len(held'[r]) = Len(held[r]) /\ \A m \in 1..Len(held[r]) : held'[r][m].cont = held[r][m].cont
    BY <1>0, <1>2, <1>5, Relocked
  <2>3. Len(held[r]) \in 1..Len(held[r])
    BY <2>1, Constants
  <2>4. held'[r][Len(held'[r])].cont = held[r][Len(held[r])].cont
    BY <2>2, <2>3
  <2> QED
    BY <1>3, <2>4 DEF WorkerOf, Current
<1>10. ~Owes(r) /\ \A x \in Run \ {r} : /\ Owes(x)' <=> Owes(x)
                                        /\ WorkerOf(x)' = WorkerOf(x)
  BY <1>2, <1>8 DEF Owes, WorkerOf, Current
<1>11. CASE conns[o] # 1
  <2>1. ~Owes(r)'
    BY <1>1, <1>7, <1>6, <1>11 DEF Owes
  <2>2. SameDebts
    BY <1>2, <1>10, <2>1 DEF SameDebts
  <2>3. \A v \in Worker : Busy(v)' = Busy(v)
    BY <1>1, <1>6, <1>7, <1>11 DEF Busy
  <2> QED
    BY <1>2, <2>2, <2>3, SameBooks DEF Books
<1>12. CASE conns[o] = 1
  <2>1. Owes(r)'
    BY <1>7, <1>12 DEF Owes
  <2>2. \A v \in Worker \ {w} : Busy(v)' = Busy(v) /\ Owing(v)' = Owing(v)
    BY <1>3, <1>7, <1>9, <1>10 DEF Busy, Owing
  <2>3. Busy(w)' = Busy(w) \ {o} /\ o \in Busy(w)
    <3>1. ~(conns'[o] > 0) /\ conns[o] > 0
      BY <1>7, <1>12
    <3>2. \A p \in Object : p \in Busy(w)' <=> p \in Busy(w) /\ p # o
      BY <1>3, <1>7, <3>1 DEF Busy
    <3>3. o \in Busy(w)
      BY <1>3, <3>1 DEF Busy
    <3> QED
      BY <3>2, <3>3 DEF Busy
  <2>4. Owing(w)' = Owing(w) \cup {r} /\ r \notin Owing(w)
    BY <1>9, <1>10, <2>1 DEF Owing
  <2>6. CostOf' = CostOf /\ DebtOf' = DebtOf
    BY <1>2 DEF CostOf, DebtOf
  <2>7. ASSUME NEW v \in Worker \ {w}
        PROVE  BooksOf(v)'
    <3>1. /\ UnitsIn(Busy(v), CostOf)' = UnitsIn(Busy(v), CostOf)
          /\ UnitsIn(Owing(v), DebtOf)' = UnitsIn(Owing(v), DebtOf)
      BY <2>2, <2>6 DEF UnitsIn
    <3> QED
      BY <1>2, <3>1 DEF Books, BooksOf
  <2>8. CostOf[o] = Mcpu[d] /\ DebtOf[r] = Mcpu[d] /\ Mcpu[d] \in Nat
    BY <1>1, <1>3, <1>4 DEF CostOf, DebtOf
  <2>9. /\ IsFiniteSet(UnitsIn(Busy(w), CostOf)) /\ IsFiniteSet(UnitsIn(Owing(w), DebtOf))
        /\ \A p \in Busy(w) : CostOf[p] = CostOf[p]
        /\ \A q \in Owing(w) : DebtOf[q] = DebtOf[q]
    BY DEF Books, BooksOf
  <2>10. /\ IsFiniteSet(UnitsIn(Busy(w) \ {o}, CostOf))
         /\ Cardinality(UnitsIn(Busy(w), CostOf)) = Cardinality(UnitsIn(Busy(w) \ {o}, CostOf)) + Mcpu[d]
         /\ Cardinality(UnitsIn(Busy(w) \ {o}, CostOf)) \in Nat
    <3>1. /\ IsFiniteSet(UnitsIn(Busy(w) \ {o}, CostOf))
          /\ Cardinality(UnitsIn(Busy(w), CostOf)) = Cardinality(UnitsIn(Busy(w) \ {o}, CostOf)) + CostOf[o]
          /\ Cardinality(UnitsIn(Busy(w) \ {o}, CostOf)) \in Nat
      BY <2>3, <2>8, <2>9, UnitsLose
    <3> QED
      BY <2>8, <3>1
  <2>11. /\ IsFiniteSet(UnitsIn(Owing(w) \cup {r}, DebtOf))
         /\ Cardinality(UnitsIn(Owing(w) \cup {r}, DebtOf)) = Cardinality(UnitsIn(Owing(w), DebtOf)) + Mcpu[d]
         /\ Cardinality(UnitsIn(Owing(w), DebtOf)) \in Nat
    <3>1. /\ IsFiniteSet(UnitsIn(Owing(w) \cup {r}, DebtOf))
          /\ Cardinality(UnitsIn(Owing(w) \cup {r}, DebtOf)) = Cardinality(UnitsIn(Owing(w), DebtOf)) + DebtOf[r]
          /\ Cardinality(UnitsIn(Owing(w), DebtOf)) \in Nat
      BY <2>4, <2>8, <2>9, UnitsGain
    <3> QED
      BY <2>8, <3>1
  <2>12. /\ UnitsIn(Busy(w), CostOf)' = UnitsIn(Busy(w) \ {o}, CostOf)
         /\ UnitsIn(Owing(w), DebtOf)' = UnitsIn(Owing(w) \cup {r}, DebtOf)
    BY <2>3, <2>4, <2>6 DEF UnitsIn
  <2>13. wst[w] = "alive" =>
           freeCPU[w] = MCPU - Cardinality(UnitsIn(Busy(w) \ {o}, CostOf))
                             - Cardinality(UnitsIn(Owing(w) \cup {r}, DebtOf))
    BY <1>1, <2>8, <2>10, <2>11 DEF Books, BooksOf
  <2>14. BooksOf(w)'
    BY <1>2, <2>10, <2>11, <2>12, <2>13 DEF BooksOf
  <2> QED
    BY <2>7, <2>14 DEF Books
<1> QED
  BY <1>11, <1>12

\* It gives back what it owes, if the worker is still alive.
LEMMA ReleaseBooks ==
  ASSUME BalancerInv, Books, NEW r \in Run, Release(r)
  PROVE  Books'
<1>0. TypeInv /\ Counted /\ Registered
  BY DEF BalancerInv
<1>1. /\ pc \in [Run -> Labels] /\ freeCPU \in [Worker -> Int]
      /\ \A d \in Def : Mcpu[d] \in Nat /\ MCPU \in Nat
  BY <1>0, Constants DEF TypeInv, TypeOK
<1>2. pc[r] = "released" /\ UNCHANGED <<wst, conns>>
  BY DEF Release
<1>3. PICK w \in Worker, d \in Def : w = WorkerOf(r) /\ d = rdef[r]
  BY <1>0, <1>2, CurrentType
<1>4. freeCPU' = [freeCPU EXCEPT ![w] = IF left[r] = 0 /\ wst[w] = "alive" THEN @ + Mcpu[d] ELSE @]
  BY <1>3 DEF Release, Refund
<1>5. \A x \in Run \ {r} :
        pc'[x] = pc[x] /\ rdef'[x] = rdef[x] /\ held'[x] = held[x] /\ left'[x] = left[x]
  BY <1>0, OthersUntouched DEF RunStep
<1>6. ~Owes(r)'
  <2>1. pc'[r] # "released"
    BY <1>0, ReleaseCounts
  <2> QED
    BY <2>1 DEF Owes
<1>7. \A x \in Run \ {r} : /\ Owes(x)' <=> Owes(x)
                           /\ WorkerOf(x)' = WorkerOf(x)
  BY <1>5 DEF Owes, WorkerOf, Current
<1>8. \A v \in Worker : Busy(v)' = Busy(v)
  BY <1>2 DEF Busy
<1>9. CASE left[r] # 0
  <2>1. SameDebts
    BY <1>5, <1>6, <1>7, <1>9 DEF SameDebts, Owes
  <2>2. freeCPU' = freeCPU
    BY <1>1, <1>4, <1>9
  <2> QED
    BY <1>2, <1>8, <2>1, <2>2, SameBooks DEF Books
<1>10. CASE left[r] = 0
  <2>1. Owes(r) /\ r \in Owing(w)
    BY <1>2, <1>3, <1>10 DEF Owes, Owing
  <2>2. \A v \in Worker \ {w} : Owing(v)' = Owing(v) /\ freeCPU'[v] = freeCPU[v]
    BY <1>1, <1>3, <1>4, <1>6, <1>7 DEF Owing
  <2>3. Owing(w)' = Owing(w) \ {r}
    BY <1>3, <1>6, <1>7 DEF Owing
  <2>4. \A x \in Run \ {r} : DebtOf'[x] = DebtOf[x]
    BY <1>5 DEF DebtOf
  <2>5. \A v \in Worker : UnitsIn(Busy(v), CostOf)' = UnitsIn(Busy(v), CostOf)
    BY <1>8 DEF UnitsIn, CostOf
  <2>6. ASSUME NEW v \in Worker \ {w}
        PROVE  BooksOf(v)'
    <3>1. Owing(v) \subseteq Run \ {r}
      BY <1>3 DEF Owing
    <3>2. \A x \in Owing(v) : DebtOf'[x] = DebtOf[x]
      BY <2>4, <3>1
    <3>3. UnitsIn(Owing(v), DebtOf') = UnitsIn(Owing(v), DebtOf)
      BY <3>2, UnitsSame
    <3>4. UnitsIn(Owing(v), DebtOf)' = UnitsIn(Owing(v), DebtOf)
      BY <2>2, <3>3 DEF UnitsIn
    <3> QED
      BY <1>2, <2>2, <2>5, <3>4 DEF Books, BooksOf
  <2>7. DebtOf[r] = Mcpu[d] /\ Mcpu[d] \in Nat
    BY <1>1, <1>3 DEF DebtOf
  <2>8. /\ IsFiniteSet(UnitsIn(Owing(w), DebtOf)) /\ IsFiniteSet(UnitsIn(Busy(w), CostOf))
        /\ \A q \in Owing(w) \ {r} : DebtOf'[q] = DebtOf[q]
    BY <2>4 DEF Books, BooksOf, Owing
  <2>9. /\ IsFiniteSet(UnitsIn(Owing(w) \ {r}, DebtOf'))
        /\ Cardinality(UnitsIn(Owing(w), DebtOf)) =
             Cardinality(UnitsIn(Owing(w) \ {r}, DebtOf')) + DebtOf[r]
        /\ Cardinality(UnitsIn(Owing(w) \ {r}, DebtOf')) \in Nat
    BY <2>1, <2>7, <2>8, UnitsLose
  <2>10. Cardinality(UnitsIn(Busy(w), CostOf)) \in Nat
    BY <2>8, FS_CardinalityType
  <2>11. UnitsIn(Owing(w), DebtOf)' = UnitsIn(Owing(w) \ {r}, DebtOf')
    BY <2>3 DEF UnitsIn
  <2>12. wst[w] = "alive" =>
           freeCPU'[w] = MCPU - Cardinality(UnitsIn(Busy(w), CostOf))
                              - Cardinality(UnitsIn(Owing(w) \ {r}, DebtOf'))
    <3>1. wst[w] = "alive" => freeCPU'[w] = freeCPU[w] + Mcpu[d]
      BY <1>1, <1>4, <1>10
    <3> QED
      BY <1>1, <2>7, <2>9, <2>10, <3>1 DEF Books, BooksOf
  <2>13. BooksOf(w)'
    BY <1>2, <2>5, <2>8, <2>9, <2>11, <2>12 DEF BooksOf
  <2> QED
    BY <2>6, <2>13 DEF Books
<1> QED
  BY <1>9, <1>10

\* A worker that registers has all its CPU free.
LEMMA RegisterBooks ==
  ASSUME BalancerInv, Books, NEW w \in Worker, Register(w)
  PROVE  Books'
<1>0. TypeInv /\ Counted
  BY DEF BalancerInv
<1>1. /\ wst \in [Worker -> {"alive", "shut", "closed"}] /\ freeCPU \in [Worker -> Int] /\ MCPU \in Nat
  BY <1>0, Constants DEF TypeInv, TypeOK
<1>2. /\ wst' = [wst EXCEPT ![w] = "alive"] /\ freeCPU' = [freeCPU EXCEPT ![w] = MCPU]
      /\ UNCHANGED <<conns, runVars>> /\ UnusedWorker(w)
  BY DEF Register
<1>3. SameDebts /\ \A v \in Worker : Busy(v)' = Busy(v)
  BY <1>2 DEF SameDebts, Owes, WorkerOf, Current, Busy, runVars
<1>4. \A v \in Worker \ {w} : BooksOf(v)'
  BY <1>1, <1>2, <1>3, SameBooks DEF Books
<1>5. Busy(w) = {}
  BY <1>0, <1>2, UnusedIsFree DEF Busy, UnusedWorker, Used
<1>6. Owing(w) = {}
  <2> SUFFICES ASSUME NEW r \in Owing(w) PROVE FALSE
    OBVIOUS
  <2>1. r \in Run /\ pc[r] = "released" /\ WorkerOf(r) = w
    BY DEF Owing, Owes
  <2>2. Current(r) \in Object /\ Current(r) \in HeldBy(r) /\ Owner(Current(r)) = w
    BY <1>0, <2>1, CurrentType, CurrentHeld
  <2> QED
    BY <1>2, <2>1, <2>2 DEF UnusedWorker, Used, UnusedObject
<1>7. UnitsIn(Busy(w), CostOf)' = {} /\ UnitsIn(Owing(w), DebtOf)' = {}
  <2>1. Busy(w)' = {} /\ UnitsIn(Owing(w), DebtOf)' = UnitsIn(Owing(w), DebtOf)
    BY <1>3, <1>5, SameOwing
  <2>2. \A m : UnitsIn({}, m) = {}
    BY DEF UnitsIn
  <2> QED
    BY <1>6, <2>1, <2>2 DEF UnitsIn
<1>8. freeCPU'[w] = MCPU
  BY <1>1, <1>2
<1>9. BooksOf(w)'
  BY <1>1, <1>7, <1>8, FS_EmptySet DEF BooksOf
<1> QED
  BY <1>4, <1>9 DEF Books

LEMMA BooksStep ==
  ASSUME BalancerInv, Alike, Books, [Next]_vars
  PROVE  Books'
<1>0. TypeInv /\ Counted /\ Registered
  BY DEF BalancerInv
<1>1. /\ wst \in [Worker -> {"alive", "shut", "closed"}] /\ freeCPU \in [Worker -> Int]
      /\ pc \in [Run -> Labels] /\ rdef \in [Run -> Def \cup {None}]
  BY <1>0 DEF TypeInv, TypeOK
<1>2. ASSUME SameDebts, UNCHANGED conns,
             \A w \in Worker : wst'[w] = "alive" => wst[w] = "alive" /\ freeCPU'[w] = freeCPU[w]
      PROVE  Books'
  <2>1. \A w \in Worker : Busy(w)' = Busy(w)
    BY <1>2 DEF Busy
  <2> QED
    BY <1>2, <2>1, SameBooks DEF Books
<1>3. ASSUME NEW r \in Run, RunStep(r)
      PROVE  Books'
  <2>1. CASE Grab(r) \/ Disconnect(r) \/ Release(r)
    BY <2>1, GrabBooks, DisconnectBooks, ReleaseBooks
  <2>2. CASE Lock(r) \/ Attempt(r) \/ Answer(r) \/ WorkerError(r) \/ Settle(r) \/ AddCache(r)
    <3>1. UNCHANGED <<conns, wst, freeCPU>>
      BY <2>2 DEF Lock, Attempt, Answer, WorkerError, Settle, AddCache, workerVars
    <3>2. ~Owes(r) /\ ~Owes(r)'
      BY <1>1, <2>2 DEF Lock, Attempt, Answer, WorkerError, Settle, AddCache, Goto, Owes
    <3>3. SameDebts
      BY <1>0, <1>3, <3>2, OthersUntouched DEF SameDebts, Owes, WorkerOf, Current
    <3> QED
      BY <1>2, <3>1, <3>3
  <2> QED
    BY <1>3, <2>1, <2>2 DEF RunStep
<1>4. ASSUME NEW r \in Run, NEW d \in Def, Start(r, d)
      PROVE  Books'
  <2>1. ~Owes(r) /\ ~Owes(r)' /\ UNCHANGED <<held, left, conns, wst, freeCPU>>
    BY <1>1, <1>4 DEF Start, Goto, Owes, workerVars
  <2>2. \A x \in Run \ {r} : pc'[x] = pc[x] /\ rdef'[x] = rdef[x]
    BY <1>1, <1>4 DEF Start, Goto
  <2>3. SameDebts
    BY <2>1, <2>2 DEF SameDebts, Owes, WorkerOf, Current
  <2> QED
    BY <1>2, <2>1, <2>3
<1>5. UNCHANGED runVars => SameDebts
  BY DEF SameDebts, Owes, WorkerOf, Current, runVars
<1>6. ASSUME NEW w \in Worker, Evict(w) \/ EvictHandler(w) \/ Close(w)
      PROVE  Books'
  <2>1. UNCHANGED <<conns, runVars>>
    BY <1>6 DEF Evict, EvictHandler, Close
  <2>2. \/ UNCHANGED <<wst, freeCPU>>
        \/ wst' = [wst EXCEPT ![w] = "shut"] /\ UNCHANGED freeCPU
        \/ wst' = [wst EXCEPT ![w] = "closed"] /\ freeCPU' = [freeCPU EXCEPT ![w] = 0]
    BY <1>6 DEF Evict, EvictHandler, Close
  <2> QED
    BY <1>1, <1>2, <1>5, <2>1, <2>2
<1>7. ASSUME NEW k \in Container, ContainerRemoved(k) \/ RemoveCache(k)
      PROVE  Books'
  BY <1>2, <1>5, <1>7 DEF ContainerRemoved, RemoveCache, workerVars
<1>8. CASE UNCHANGED vars
  BY <1>2, <1>5, <1>8 DEF vars, workerVars
<1> QED
  BY <1>3, <1>4, <1>6, <1>7, <1>8, RegisterBooks DEF Next

LEMMA BooksInit == ASSUME Init PROVE Books
<1>1. ASSUME NEW w \in Worker
      PROVE  BooksOf(w)
  <2>1. Busy(w) = {} /\ Owing(w) = {}
    BY DEF Init, Busy, Owing, Owes
  <2>2. \A m : UnitsIn({}, m) = {}
    BY DEF UnitsIn
  <2> QED
    BY <2>1, <2>2, FS_EmptySet DEF Init, BooksOf
<1> QED
  BY <1>1 DEF Books

\* The balancer always knows what a worker's containers leave of its CPU: however
\* runs share containers, fail, retry or lose their worker, no unit of CPU gets lost
\* and none is given back twice.
THEOREM NoCPULost == Spec => []CPUAccounted
<1>1. Init => BalancerInv /\ Alike /\ Books
  BY CacheInit, BooksInit DEF CacheInv
<1>2. BalancerInv /\ Alike /\ Books /\ [Next]_vars => (BalancerInv /\ Alike /\ Books)'
  BY StepHolds, AlikeStep, BooksStep
<1>3. Books => CPUAccounted
  BY BooksAre DEF Books, BooksOf, CPUAccounted
<1> QED
  BY <1>1, <1>2, <1>3, PTL DEF Spec

=============================================================================
