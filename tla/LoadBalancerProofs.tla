------------------------- MODULE LoadBalancerProofs -------------------------
(***************************************************************************)
(* What holds of the load balancer for every number of runs, workers,      *)
(* definitions and containers, and whatever the environment may do.        *)
(***************************************************************************)
EXTENDS LoadBalancer, TLAPS, FiniteSetTheorems, SequenceTheorems

\* The reservations of runs, one for each attempt; the last one of a run that has
\* given back its connection still uses the worker.
Reservation == [cont : Object, locked : BOOLEAN]
Entry == Run \X (1..WorkerRetry)
Taken(e) == e[2] <= Len(held[e[1]])
ContOf(e) == held[e[1]][e[2]].cont
GivenBack(e) == pc[e[1]] = "released" /\ e[2] = Len(held[e[1]])

Holders(o) == {e \in Entry : Taken(e) /\ ContOf(e) = o /\ ~GivenBack(e)}
Users(w) == {e \in Entry : Taken(e) /\ Owner(ContOf(e)) = w}

\* Connections and calls are counted as they are reserved.
Counted ==
  /\ \A o \in Object : conns[o] = Cardinality(Holders(o))
  /\ \A w \in Worker : inUse[w] = Cardinality(Users(w))

\* What a run has, by where it is.
Placed ==
  \A r \in Run :
    /\ pc[r] = "idle" <=> rdef[r] = None
    /\ pc[r] = "idle" => held[r] = << >>
    /\ pc[r] = "grab" => Len(held[r]) < WorkerRetry
    /\ pc[r] \notin {"idle", "grab"} => held[r] # << >>
    /\ pc[r] = "cache" => answer[r] # None

\* The type invariant in three parts.
WorkersType ==
  /\ workers \in SUBSET Worker /\ evicting \in SUBSET Worker
  /\ wst \in [Worker -> {"alive", "shut", "closed"}]
  /\ freeCPU \in [Worker -> Int]
  /\ inUse \in [Worker -> Nat]
  /\ errors \in [Worker -> 0..WorkerErrorThreshold]
  /\ conns \in [Object -> Nat]

CachesType ==
  /\ scripts \in [Worker -> [Def -> Nat]]
  /\ byIndex \in [Index -> [Pool -> Nat]]
  /\ cached \in [Container -> Object \cup {None}]
  /\ home \in [Container -> Pool \cup {None}]
  /\ hdef \in [Container -> Def \cup {None}]
  /\ removing \in [Container -> Worker \cup {None}]
  /\ misled \in SUBSET Pool

RunsType ==
  /\ pc \in [Run -> Labels]
  /\ rdef \in [Run -> Def \cup {None}]
  /\ held \in [Run -> Seq(Reservation)]
  /\ \A r \in Run : Len(held[r]) <= WorkerRetry
  /\ answer \in [Run -> Container \cup {None}]
  /\ left \in [Run -> Nat]
  /\ victim \in [Run -> Worker \cup {None}]

\* Containers of workers have a definition.
Defined ==
  /\ \A k \in Container : home[k] = None <=> hdef[k] = None
  /\ \A k \in Container : removing[k] # None => home[k] = PoolID[removing[k]]

TypeInv == TypeOK /\ Placed /\ Defined

\* A registered worker is alive, nobody is about to shut it down, and no other is
\* registered under its ID.  A worker is shut down only once.
Registered ==
  /\ RegisteredAlive /\ workers \cap evicting = {}
  /\ \A v, w \in workers : PoolID[v] = PoolID[w] => v = w
  /\ \A w \in evicting : wst[w] = "alive"

BalancerInv == TypeInv /\ Counted /\ Registered /\ OpenWhileUsed /\ AsyncLimited

-----------------------------------------------------------------------------
(* Reservations *)

\* What the constants are good for.
LEMMA Constants ==
  /\ \A d \in Def : Mcpu[d] \in Nat /\ Async[d] \in Nat /\ Limit[d] \in Nat /\ DefIndex[d] \in Index
  /\ MCPU \in Nat /\ WorkerRetry \in Nat /\ 1 <= WorkerRetry
  /\ WorkerErrorThreshold \in Nat /\ 1 <= WorkerErrorThreshold
  /\ None \notin Worker /\ None \notin Pool /\ None \notin Container /\ None \notin Def /\ None \notin Object
  /\ \A w \in Worker : PoolID[w] \in Pool
  BY LoadBalancerAssumption DEF Object

LEMMA ObjectType ==
  ASSUME NEW o \in Object
  PROVE  Owner(o) \in Worker /\ DefOf(o) \in Def
  BY DEF Object, Owner, DefOf

\* Reservations are finitely many.
LEMMA Finite ==
  /\ \A o \in Object : IsFiniteSet(Holders(o)) /\ Cardinality(Holders(o)) \in Nat
  /\ \A w \in Worker : IsFiniteSet(Users(w)) /\ Cardinality(Users(w)) \in Nat
<1>1. IsFiniteSet(1..WorkerRetry)
  BY Constants, FS_Interval
<1>2. IsFiniteSet(Entry)
  BY <1>1, LoadBalancerAssumption, FS_Product DEF Entry
<1>3. \A S \in SUBSET Entry : IsFiniteSet(S) /\ Cardinality(S) \in Nat
  BY <1>2, FS_Subset, FS_CardinalityType
<1> QED
  BY <1>3 DEF Holders, Users

\* The last element of a sequence.
LEMMA LastOf ==
  ASSUME NEW S, NEW s \in Seq(S), s # << >>
  PROVE  Len(s) \in Nat /\ 1 <= Len(s) /\ s[Len(s)] \in S
<1>1. Len(s) \in Nat /\ Len(s) # 0
  OBVIOUS
<1>2. \A n \in 1..Len(s) : s[n] \in S
  OBVIOUS
<1> QED
  BY <1>1, <1>2

\* A sequence with one element more.
LEMMA Appended ==
  ASSUME NEW S, NEW s \in Seq(S), NEW x \in S
  PROVE  /\ Append(s, x) \in Seq(S)
         /\ Len(s) \in Nat /\ Len(Append(s, x)) = Len(s) + 1
         /\ Append(s, x)[Len(s) + 1] = x
         /\ \A m \in 1..Len(s) : Append(s, x)[m] = s[m]
  OBVIOUS

\* The reservations of a run.
LEMMA HeldType ==
  ASSUME TypeInv
  PROVE  /\ held \in [Run -> Seq(Reservation)]
         /\ \A r \in Run : held[r] \in Seq(Reservation) /\ Len(held[r]) \in Nat
         /\ \A r \in Run : Len(held[r]) <= WorkerRetry
<1>1. held \in [Run -> Seq(Reservation)] /\ \A r \in Run : Len(held[r]) <= WorkerRetry
  BY DEF TypeInv, TypeOK, Reservation
<1>2. \A s \in Seq(Reservation) : Len(s) \in Nat
  OBVIOUS
<1> QED
  BY <1>1, <1>2

\* The present reservation of a run.
LEMMA CurrentType ==
  ASSUME TypeInv, NEW r \in Run, pc[r] \notin {"idle", "grab"}
  PROVE  /\ Len(held[r]) \in 1..WorkerRetry
         /\ Current(r) \in Object /\ WorkerOf(r) \in Worker
         /\ rdef[r] \in Def
         /\ <<r, Len(held[r])>> \in Entry
<1>1. held[r] \in Seq([cont : Object, locked : BOOLEAN]) /\ held[r] # << >>
      /\ Len(held[r]) <= WorkerRetry
  BY DEF TypeInv, TypeOK, Placed
<1>2. Len(held[r]) \in 1..WorkerRetry
  BY <1>1, LastOf, Constants
<1>3. held[r][Len(held[r])] \in [cont : Object, locked : BOOLEAN]
  BY <1>1, LastOf
<1>4. Current(r) \in Object
  BY <1>3 DEF Current
<1>5. rdef[r] \in Def
  BY DEF TypeInv, TypeOK, Placed
<1> QED
  BY <1>2, <1>4, <1>5, ObjectType DEF WorkerOf, Entry

\* Steps that neither take nor give back anything.
SameEntries ==
  \A r \in Run :
    /\ Len(held'[r]) = Len(held[r])
    /\ \A n \in 1..Len(held[r]) : held'[r][n].cont = held[r][n].cont
    /\ pc'[r] = "released" <=> pc[r] = "released"

LEMMA SameCounts ==
  ASSUME TypeInv, Counted, SameEntries, UNCHANGED <<conns, inUse>>
  PROVE  Counted'
<1>1. ASSUME NEW e \in Entry
      PROVE  /\ Taken(e)' <=> Taken(e)
             /\ Taken(e) => ContOf(e)' = ContOf(e)
             /\ GivenBack(e)' <=> GivenBack(e)
  <2>1. e[1] \in Run /\ e[2] \in 1..WorkerRetry
    BY DEF Entry
  <2>2. Len(held[e[1]]) \in Nat
    BY <2>1 DEF TypeInv, TypeOK
  <2>3. Taken(e) => e[2] \in 1..Len(held[e[1]])
    BY <2>1, <2>2, Constants DEF Taken
  <2> QED
    BY <2>1, <2>3 DEF SameEntries, Taken, ContOf, GivenBack
<1>2. \A o \in Object : Holders(o)' = Holders(o)
  BY <1>1 DEF Holders
<1>3. \A w \in Worker : Users(w)' = Users(w)
  BY <1>1 DEF Users
<1> QED
  BY <1>2, <1>3 DEF Counted

\* A run reserves a connection: there is one reservation more.
LEMMA ReserveTypes ==
  ASSUME TypeInv, NEW r \in Run, pc[r] = "grab", NEW o \in Object, Reserve(r, o)
  PROVE  /\ conns' \in [Object -> Nat] /\ inUse' \in [Worker -> Nat]
         /\ freeCPU' \in [Worker -> Int]
         /\ held' \in [Run -> Seq(Reservation)]
         /\ held'[r] = Append(held[r], [cont |-> o, locked |-> FALSE])
         /\ Len(held[r]) \in Nat /\ Len(held'[r]) = Len(held[r]) + 1
         /\ Len(held[r]) + 1 <= WorkerRetry
         /\ held'[r][Len(held[r]) + 1].cont = o
         /\ \A m \in 1..Len(held[r]) : held'[r][m] = held[r][m]
         /\ pc' \in [Run -> Labels] /\ pc'[r] \in {"lock", "attempt"}
         /\ \A x \in Run \ {r} : pc'[x] = pc[x] /\ held'[x] = held[x]
<1>1. Owner(o) \in Worker /\ DefOf(o) \in Def /\ Mcpu[DefOf(o)] \in Nat
  BY ObjectType, Constants
<1>2. conns \in [Object -> Nat] /\ inUse \in [Worker -> Nat] /\ freeCPU \in [Worker -> Int]
      /\ pc \in [Run -> Labels]
  BY DEF TypeInv, TypeOK
<1>3. conns' \in [Object -> Nat] /\ inUse' \in [Worker -> Nat]
  BY <1>1, <1>2 DEF Reserve
<1>4. freeCPU' \in [Worker -> Int]
  <2>1. freeCPU' = [freeCPU EXCEPT ![Owner(o)] = IF conns[o] = 0 THEN @ - Mcpu[DefOf(o)] ELSE @]
    BY DEF Reserve
  <2>2. freeCPU[Owner(o)] \in Int /\ freeCPU[Owner(o)] - Mcpu[DefOf(o)] \in Int
    BY <1>1, <1>2
  <2> QED
    BY <1>2, <2>1, <2>2
<1>5. PICK x : x = [cont |-> o, locked |-> FALSE]
  OBVIOUS
<1>6. x \in Reservation /\ x.cont = o
  BY <1>5 DEF Reservation
<1>7. held' = [held EXCEPT ![r] = Append(held[r], x)]
  BY <1>5 DEF Reserve
<1>8. /\ Append(held[r], x) \in Seq(Reservation) /\ Len(held[r]) \in Nat
      /\ Len(Append(held[r], x)) = Len(held[r]) + 1
      /\ Append(held[r], x)[Len(held[r]) + 1] = x
      /\ \A m \in 1..Len(held[r]) : Append(held[r], x)[m] = held[r][m]
  BY <1>6, HeldType, Appended
<1>9. /\ held' \in [Run -> Seq(Reservation)] /\ held'[r] = Append(held[r], x)
      /\ \A y \in Run \ {r} : held'[y] = held[y]
  BY <1>7, <1>8, HeldType
<1>10. Len(held[r]) + 1 <= WorkerRetry
  BY <1>8, Constants DEF TypeInv, Placed
<1>11. pc' = [pc EXCEPT ![r] = "lock"] \/ pc' = [pc EXCEPT ![r] = "attempt"]
  BY DEF Reserve, Goto
<1>12. pc' \in [Run -> Labels] /\ pc'[r] \in {"lock", "attempt"}
       /\ \A y \in Run \ {r} : pc'[y] = pc[y]
  BY <1>2, <1>11 DEF Labels
<1> QED
  BY <1>3, <1>4, <1>5, <1>6, <1>8, <1>9, <1>10, <1>12

LEMMA ReserveCounts ==
  ASSUME TypeInv, Counted, NEW r \in Run, pc[r] = "grab", NEW o \in Object, Reserve(r, o)
  PROVE  Counted'
<1>1. PICK n : n = Len(held[r]) + 1
  OBVIOUS
<1>2. PICK e : e = <<r, n>>
  OBVIOUS
<1>3. /\ Len(held[r]) \in Nat /\ Len(held'[r]) = n /\ n <= WorkerRetry
      /\ held'[r][n].cont = o
      /\ \A m \in 1..Len(held[r]) : held'[r][m] = held[r][m]
      /\ pc'[r] # "released"
      /\ \A x \in Run \ {r} : pc'[x] = pc[x] /\ held'[x] = held[x]
  BY <1>1, ReserveTypes
<1>4. n \in 1..WorkerRetry /\ e \in Entry /\ e[1] = r /\ e[2] = n
  BY <1>1, <1>2, <1>3, Constants DEF Entry
<1>5. ASSUME NEW x \in Entry, x # e
      PROVE  /\ Taken(x)' <=> Taken(x)
             /\ Taken(x) => ContOf(x)' = ContOf(x)
             /\ GivenBack(x)' <=> GivenBack(x)
  <2>1. x[1] \in Run /\ x[2] \in 1..WorkerRetry /\ x = <<x[1], x[2]>>
    BY DEF Entry
  <2>2. CASE x[1] = r
    <3>1. x[2] # n
      BY <1>2, <1>5, <2>1, <2>2
    <3>2. x[2] \in Nat /\ 1 <= x[2]
      BY <2>1, Constants
    <3>3. Taken(x) <=> x[2] \in 1..Len(held[r])
      BY <1>3, <2>2, <3>2 DEF Taken
    <3>4. Taken(x)' <=> x[2] <= n
      BY <1>3, <2>2 DEF Taken
    <3>5. Taken(x)' <=> Taken(x)
      BY <1>1, <1>3, <3>1, <3>2, <3>3, <3>4
    <3>6. ~GivenBack(x) /\ ~GivenBack(x)'
      BY <1>3, <2>2 DEF GivenBack
    <3>7. Taken(x) => ContOf(x)' = ContOf(x)
      BY <1>3, <2>2, <3>3 DEF ContOf
    <3> QED
      BY <3>5, <3>6, <3>7
  <2>3. CASE x[1] # r
    BY <1>3, <2>1, <2>3 DEF Taken, ContOf, GivenBack
  <2> QED
    BY <2>2, <2>3
<1>6. ~Taken(e) /\ Taken(e)' /\ ContOf(e)' = o /\ ~GivenBack(e)'
  BY <1>1, <1>3, <1>4 DEF Taken, ContOf, GivenBack
<1>7. e \notin Holders(o) /\ Holders(o)' = Holders(o) \cup {e}
  BY <1>4, <1>5, <1>6 DEF Holders
<1>8. \A p \in Object \ {o} : Holders(p)' = Holders(p)
  BY <1>4, <1>5, <1>6 DEF Holders
<1>9. e \notin Users(Owner(o)) /\ Users(Owner(o))' = Users(Owner(o)) \cup {e}
  BY <1>4, <1>5, <1>6 DEF Users
<1>10. \A w \in Worker \ {Owner(o)} : Users(w)' = Users(w)
  BY <1>4, <1>5, <1>6 DEF Users
<1>11. Owner(o) \in Worker
  BY ObjectType
<1>12. /\ IsFiniteSet(Holders(o)) /\ conns[o] = Cardinality(Holders(o))
       /\ IsFiniteSet(Users(Owner(o))) /\ inUse[Owner(o)] = Cardinality(Users(Owner(o)))
  BY <1>11, Finite DEF Counted
<1>13. Cardinality(Holders(o)') = conns[o] + 1
  BY <1>7, <1>12, FS_AddElement
<1>14. Cardinality(Users(Owner(o))') = inUse[Owner(o)] + 1
  BY <1>9, <1>12, FS_AddElement
<1>15. /\ conns' = [conns EXCEPT ![o] = @ + 1]
       /\ inUse' = [inUse EXCEPT ![Owner(o)] = @ + 1]
  BY DEF Reserve
<1>16. conns \in [Object -> Nat] /\ inUse \in [Worker -> Nat]
  BY DEF TypeInv, TypeOK
<1>17. \A p \in Object : conns'[p] = Cardinality(Holders(p)')
  BY <1>8, <1>13, <1>15, <1>16 DEF Counted
<1>18. \A w \in Worker : inUse'[w] = Cardinality(Users(w)')
  BY <1>10, <1>11, <1>14, <1>15, <1>16 DEF Counted
<1> QED
  BY <1>17, <1>18 DEF Counted

\* The present reservation of a run is one of its connections and calls.
LEMMA CurrentEntry ==
  ASSUME TypeInv, Counted, NEW r \in Run, pc[r] \notin {"idle", "grab"},
         NEW e, e = <<r, Len(held[r])>>
  PROVE  /\ e \in Entry /\ e \in Users(WorkerOf(r)) /\ inUse[WorkerOf(r)] # 0
         /\ pc[r] # "released" => e \in Holders(Current(r)) /\ conns[Current(r)] # 0
<1>1. /\ Len(held[r]) \in 1..WorkerRetry /\ Current(r) \in Object /\ WorkerOf(r) \in Worker
      /\ e \in Entry /\ e[1] = r /\ e[2] = Len(held[r])
  BY CurrentType
<1>2. Taken(e) /\ ContOf(e) = Current(r) /\ (pc[r] # "released" => ~GivenBack(e))
  BY <1>1 DEF Taken, ContOf, Current, GivenBack
<1>3. e \in Users(WorkerOf(r)) /\ (pc[r] # "released" => e \in Holders(Current(r)))
  BY <1>1, <1>2 DEF Users, Holders, WorkerOf
<1>4. inUse[WorkerOf(r)] # 0
  <2>1. IsFiniteSet(Users(WorkerOf(r))) /\ inUse[WorkerOf(r)] = Cardinality(Users(WorkerOf(r)))
    BY <1>1, Finite DEF Counted
  <2> QED
    BY <1>3, <2>1, FS_EmptySet
<1>5. pc[r] # "released" => conns[Current(r)] # 0
  <2>1. IsFiniteSet(Holders(Current(r))) /\ conns[Current(r)] = Cardinality(Holders(Current(r)))
    BY <1>1, Finite DEF Counted
  <2> QED
    BY <1>3, <2>1, FS_EmptySet
<1> QED
  BY <1>1, <1>3, <1>4, <1>5

\* The lock of its last reservation makes no other difference.
LEMMA Relocked ==
  ASSUME TypeInv, NEW r \in Run, pc[r] \notin {"idle", "grab"}, NEW b \in BOOLEAN,
         held' = [held EXCEPT ![r][Len(held[r])].locked = b]
  PROVE  /\ held' \in [Run -> Seq(Reservation)]
         /\ Len(held'[r]) = Len(held[r])
         /\ \A m \in 1..Len(held[r]) : held'[r][m].cont = held[r][m].cont
         /\ \A x \in Run \ {r} : held'[x] = held[x]
<1>1. held \in [Run -> Seq(Reservation)] /\ held[r] \in Seq(Reservation) /\ Len(held[r]) \in Nat
  BY HeldType
<1>2. PICK n : n = Len(held[r])
  OBVIOUS
<1>3. n \in 1..Len(held[r]) /\ held[r][n] \in Reservation
  BY <1>1, <1>2, LastOf DEF TypeInv, Placed
<1>4. PICK x : x = [held[r][n] EXCEPT !.locked = b]
  OBVIOUS
<1>5. x \in Reservation /\ x.cont = held[r][n].cont
  BY <1>3, <1>4 DEF Reservation
<1>6. PICK s : s = [held[r] EXCEPT ![n] = x]
  OBVIOUS
<1>7. s \in Seq(Reservation) /\ Len(s) = Len(held[r])
      /\ \A m \in 1..Len(held[r]) : s[m] = IF m = n THEN x ELSE held[r][m]
  BY <1>1, <1>3, <1>5, <1>6, ExceptSeq
<1>8. \A m \in 1..Len(held[r]) : s[m].cont = held[r][m].cont
  BY <1>3, <1>5, <1>7
<1>9. held' = [held EXCEPT ![r] = s]
  BY <1>1, <1>2, <1>4, <1>6
<1> QED
  BY <1>1, <1>7, <1>8, <1>9

\* A run gives back its connection: it is no longer one of the object's.
LEMMA DisconnectCounts ==
  ASSUME TypeInv, Counted, NEW r \in Run, Disconnect(r)
  PROVE  Counted' /\ conns' \in [Object -> Nat] /\ conns[Current(r)] - 1 \in Nat
<1>1. PICK e : e = <<r, Len(held[r])>>
  OBVIOUS
<1>2. PICK o : o = Current(r)
  OBVIOUS
<1>3. pc[r] = "release" /\ pc' = [pc EXCEPT ![r] = "released"]
      /\ held' = [held EXCEPT ![r][Len(held[r])].locked = FALSE]
      /\ conns' = [conns EXCEPT ![o] = @ - 1] /\ UNCHANGED inUse
  BY <1>2 DEF Disconnect, Goto, workerVars
<1>4. pc \in [Run -> Labels] /\ conns \in [Object -> Nat] /\ inUse \in [Worker -> Nat]
  BY DEF TypeInv, TypeOK
<1>5. /\ Len(held[r]) \in 1..WorkerRetry /\ o \in Object /\ e \in Entry
      /\ e[1] = r /\ e[2] = Len(held[r])
  BY <1>1, <1>2, <1>3, CurrentType
<1>6. e \in Holders(o) /\ conns[o] # 0
  BY <1>1, <1>2, <1>3, CurrentEntry
<1>7. \A x \in Run \ {r} : pc'[x] = pc[x] /\ held'[x] = held[x]
  BY <1>3, <1>4, HeldType
<1>8. /\ pc'[r] = "released" /\ Len(held'[r]) = Len(held[r])
      /\ \A m \in 1..Len(held[r]) : held'[r][m].cont = held[r][m].cont
  <2>1. held[r] \in Seq(Reservation) /\ Len(held[r]) \in Nat
    BY HeldType
  <2>2. held'[r] = [held[r] EXCEPT ![Len(held[r])].locked = FALSE]
    BY <1>3, HeldType
  <2>3. \A m \in 1..Len(held[r]) : held[r][m] \in Reservation
    BY <2>1
  <2> QED
    BY <1>3, <1>4, <1>5, <2>1, <2>2, <2>3 DEF Reservation
<1>9. ASSUME NEW x \in Entry
      PROVE  /\ Taken(x)' <=> Taken(x)
             /\ Taken(x) => ContOf(x)' = ContOf(x)
             /\ x # e => (GivenBack(x)' <=> GivenBack(x))
  <2>1. x[1] \in Run /\ x[2] \in 1..WorkerRetry /\ x = <<x[1], x[2]>>
    BY DEF Entry
  <2>2. CASE x[1] = r
    <3>1. x[2] \in Nat /\ 1 <= x[2]
      BY <2>1, Constants
    <3>2. Taken(x) <=> x[2] \in 1..Len(held[r])
      BY <1>5, <2>2, <3>1, HeldType DEF Taken
    <3>3. Taken(x)' <=> Taken(x)
      BY <1>8, <2>2 DEF Taken
    <3>4. Taken(x) => ContOf(x)' = ContOf(x)
      BY <1>8, <2>2, <3>2 DEF ContOf
    <3>5. x # e => x[2] # Len(held[r])
      BY <1>1, <2>1, <2>2
    <3>6. x # e => (GivenBack(x)' <=> GivenBack(x))
      BY <1>8, <2>2, <3>5 DEF GivenBack
    <3> QED
      BY <3>3, <3>4, <3>6
  <2>3. CASE x[1] # r
    BY <1>7, <2>1, <2>3 DEF Taken, ContOf, GivenBack
  <2> QED
    BY <2>2, <2>3
<1>10. Taken(e) /\ ContOf(e) = o /\ GivenBack(e)'
  BY <1>2, <1>5, <1>8, HeldType DEF Taken, ContOf, Current, GivenBack
<1>11. \A w \in Worker : Users(w)' = Users(w)
  BY <1>9 DEF Users
<1>12. Holders(o)' = Holders(o) \ {e}
  BY <1>9, <1>10 DEF Holders
<1>13. \A p \in Object \ {o} : Holders(p)' = Holders(p)
  BY <1>9, <1>10 DEF Holders
<1>14. IsFiniteSet(Holders(o)) /\ conns[o] = Cardinality(Holders(o))
  BY <1>5, Finite DEF Counted
<1>15. Cardinality(Holders(o)') = conns[o] - 1
  BY <1>6, <1>12, <1>14, FS_RemoveElement
<1>16. \A p \in Object : conns'[p] = Cardinality(Holders(p)')
  BY <1>3, <1>4, <1>13, <1>15 DEF Counted
<1>17. \A w \in Worker : inUse'[w] = Cardinality(Users(w)')
  BY <1>3, <1>11 DEF Counted
<1>18. conns[o] - 1 \in Nat
  BY <1>4, <1>5, <1>6
<1> QED
  BY <1>2, <1>3, <1>4, <1>16, <1>17, <1>18 DEF Counted

\* Nothing is left of a sequence of length 0.
LEMMA NothingLeft ==
  ASSUME NEW S, NEW s \in Seq(S), Len(s) = 0
  PROVE  s = << >>
  OBVIOUS

\* The prefix that is left of a sequence without its last element.
LEMMA Shortened ==
  ASSUME NEW S, NEW s \in Seq(S), s # << >>
  PROVE  /\ SubSeq(s, 1, Len(s) - 1) \in Seq(S)
         /\ Len(SubSeq(s, 1, Len(s) - 1)) = Len(s) - 1
         /\ \A m \in 1..(Len(s) - 1) : SubSeq(s, 1, Len(s) - 1)[m] = s[m]
<1>1. Len(s) \in Nat /\ 1 <= Len(s) /\ \A m \in 1..Len(s) : s[m] \in S
  BY LastOf
<1>2. PICK n : n = Len(s) - 1
  OBVIOUS
<1>3. n \in Nat /\ \A m \in 1..n : s[m] \in S
  BY <1>1, <1>2
<1>4. /\ SubSeq(s, 1, n) \in Seq(S)
      /\ Len(SubSeq(s, 1, n)) = IF 1 <= n THEN n - 1 + 1 ELSE 0
      /\ \A m \in 1..(n - 1 + 1) : SubSeq(s, 1, n)[m] = s[1 + m - 1]
  BY <1>3, SubSeqProperties
<1>5. Len(SubSeq(s, 1, n)) = n
  BY <1>3, <1>4
<1>6. \A m \in 1..n : SubSeq(s, 1, n)[m] = s[m]
  BY <1>3, <1>4
<1> QED
  BY <1>2, <1>4, <1>5, <1>6

\* A run gives back the worker: nothing is left of its last reservation.
LEMMA ReleaseCounts ==
  ASSUME TypeInv, Counted, NEW r \in Run, Release(r)
  PROVE  /\ Counted' /\ inUse' \in [Worker -> Nat]
         /\ held' \in [Run -> Seq(Reservation)]
         /\ Len(held[r]) \in 1..WorkerRetry /\ Len(held'[r]) = Len(held[r]) - 1
         /\ \A m \in 1..(Len(held[r]) - 1) : held'[r][m] = held[r][m]
         /\ \A x \in Run \ {r} : pc'[x] = pc[x] /\ held'[x] = held[x]
         /\ pc'[r] = IF Len(held[r]) = 1 THEN "idle" ELSE "release"
<1>1. PICK e : e = <<r, Len(held[r])>>
  OBVIOUS
<1>2. PICK w : w = WorkerOf(r)
  OBVIOUS
<1>3. pc[r] = "released" /\ held' = [held EXCEPT ![r] = SubSeq(@, 1, Len(@) - 1)]
      /\ pc' = [pc EXCEPT ![r] = IF Len(held[r]) = 1 THEN "idle" ELSE "release"]
      /\ inUse' = [inUse EXCEPT ![w] = @ - 1] /\ UNCHANGED conns
  BY <1>2 DEF Release, Return, Goto
<1>4. pc \in [Run -> Labels] /\ conns \in [Object -> Nat] /\ inUse \in [Worker -> Nat]
  BY DEF TypeInv, TypeOK
<1>5. /\ Len(held[r]) \in 1..WorkerRetry /\ Current(r) \in Object /\ w \in Worker /\ e \in Entry
      /\ e[1] = r /\ e[2] = Len(held[r])
  BY <1>1, <1>2, <1>3, CurrentType
<1>6. e \in Users(w) /\ inUse[w] # 0
  BY <1>1, <1>2, <1>3, CurrentEntry
<1>7. \A x \in Run \ {r} : pc'[x] = pc[x] /\ held'[x] = held[x]
  BY <1>3, <1>4, HeldType
<1>8. pc'[r] = (IF Len(held[r]) = 1 THEN "idle" ELSE "release") /\ pc'[r] # "released"
  BY <1>3, <1>4
<1>9. held[r] # << >>
  BY <1>3 DEF TypeInv, Placed
<1>10. /\ SubSeq(held[r], 1, Len(held[r]) - 1) \in Seq(Reservation)
       /\ Len(SubSeq(held[r], 1, Len(held[r]) - 1)) = Len(held[r]) - 1
       /\ \A m \in 1..(Len(held[r]) - 1) : SubSeq(held[r], 1, Len(held[r]) - 1)[m] = held[r][m]
  BY <1>9, HeldType, Shortened
<1>11. /\ held' \in [Run -> Seq(Reservation)]
       /\ Len(held'[r]) = Len(held[r]) - 1
       /\ \A m \in 1..(Len(held[r]) - 1) : held'[r][m] = held[r][m]
  BY <1>3, <1>10, HeldType
<1>12. ASSUME NEW x \in Entry, x # e
       PROVE  /\ Taken(x)' <=> Taken(x)
              /\ Taken(x) => ContOf(x)' = ContOf(x)
              /\ x[1] = r => ~GivenBack(x)' /\ ~GivenBack(x)
  <2>1. x[1] \in Run /\ x[2] \in 1..WorkerRetry /\ x = <<x[1], x[2]>>
    BY DEF Entry
  <2>2. CASE x[1] = r
    <3>1. x[2] \in Nat /\ 1 <= x[2] /\ Len(held[r]) \in Nat
      BY <2>1, Constants, HeldType
    <3>2. x[2] # Len(held[r])
      BY <1>1, <1>12, <2>1, <2>2
    <3>3. Taken(x) <=> x[2] \in 1..(Len(held[r]) - 1)
      BY <2>2, <3>1, <3>2 DEF Taken
    <3>4. Taken(x)' <=> x[2] <= Len(held[r]) - 1
      BY <1>11, <2>2 DEF Taken
    <3>5. Taken(x)' <=> Taken(x)
      BY <3>1, <3>3, <3>4
    <3>6. Taken(x) => ContOf(x)' = ContOf(x)
      BY <1>11, <2>2, <3>3 DEF ContOf
    <3>7. ~GivenBack(x) /\ ~GivenBack(x)'
      BY <1>8, <2>2, <3>2 DEF GivenBack
    <3> QED
      BY <3>5, <3>6, <3>7
  <2>3. CASE x[1] # r
    BY <1>7, <2>1, <2>3 DEF Taken, ContOf, GivenBack
  <2> QED
    BY <2>2, <2>3
<1>13. Taken(e) /\ ContOf(e) = Current(r) /\ GivenBack(e)
  BY <1>3, <1>5, HeldType DEF Taken, ContOf, Current, GivenBack
<1>14. ~Taken(e)'
  <2>1. Len(held[r]) \in Nat
    BY HeldType
  <2> QED
    BY <1>5, <1>11, <2>1 DEF Taken
<1>15. ASSUME NEW x \in Entry, x[1] # r
       PROVE  GivenBack(x)' <=> GivenBack(x)
  <2>1. x[1] \in Run
    BY DEF Entry
  <2> QED
    BY <1>7, <1>15, <2>1 DEF GivenBack
<1>16. \A o \in Object : Holders(o)' = Holders(o)
  BY <1>12, <1>13, <1>14, <1>15 DEF Holders
<1>17. Users(w)' = Users(w) \ {e}
  BY <1>12, <1>14 DEF Users
<1>18. \A v \in Worker \ {w} : Users(v)' = Users(v)
  BY <1>2, <1>12, <1>13, <1>14 DEF Users, WorkerOf
<1>19. IsFiniteSet(Users(w)) /\ inUse[w] = Cardinality(Users(w))
  BY <1>5, Finite DEF Counted
<1>20. Cardinality(Users(w)') = inUse[w] - 1
  BY <1>6, <1>17, <1>19, FS_RemoveElement
<1>21. \A v \in Worker : inUse'[v] = Cardinality(Users(v)')
  BY <1>3, <1>4, <1>18, <1>20 DEF Counted
<1>22. \A o \in Object : conns'[o] = Cardinality(Holders(o)')
  BY <1>3, <1>16 DEF Counted
<1>23. inUse' \in [Worker -> Nat]
  <2>1. inUse[w] - 1 \in Nat
    BY <1>4, <1>5, <1>6
  <2> QED
    BY <1>3, <1>4, <2>1
<1> QED
  BY <1>5, <1>7, <1>8, <1>11, <1>21, <1>22, <1>23 DEF Counted

-----------------------------------------------------------------------------
(* Types, action by action *)

LEMMA TypeParts == TypeOK <=> WorkersType /\ CachesType /\ RunsType
  BY DEF TypeOK, WorkersType, CachesType, RunsType, Reservation

LEMMA PartsNext ==
  ASSUME WorkersType', CachesType', RunsType', Placed', Defined'
  PROVE  TypeInv'
  BY DEF TypeInv, TypeOK, WorkersType, CachesType, RunsType, Reservation

LEMMA InitType == ASSUME Init PROVE TypeInv
<1>1. WorkersType
  BY Constants DEF Init, WorkersType
<1>2. CachesType
  BY DEF Init, CachesType
<1>3. RunsType
  <2>1. << >> \in Seq(Reservation) /\ Len(<< >>) = 0
    OBVIOUS
  <2>2. held \in [Run -> Seq(Reservation)] /\ \A r \in Run : Len(held[r]) <= WorkerRetry
    BY <2>1, Constants DEF Init
  <2> QED
    BY <2>2 DEF Init, RunsType, Labels
<1>4. Placed /\ Defined
  BY DEF Init, Placed, Defined
<1> QED
  BY <1>1, <1>2, <1>3, <1>4, TypeParts DEF TypeInv

\* What Placed says of one run.
PlacedRun(r) ==
  /\ pc[r] = "idle" <=> rdef[r] = None
  /\ pc[r] = "idle" => held[r] = << >>
  /\ pc[r] = "grab" => Len(held[r]) < WorkerRetry
  /\ pc[r] \notin {"idle", "grab"} => held[r] # << >>
  /\ pc[r] = "cache" => answer[r] # None

\* A step of one run that leaves the other runs where they were.
LEMMA OthersPlaced ==
  ASSUME TypeInv, NEW r \in Run, PlacedRun(r)',
         \A x \in Run \ {r} : /\ pc'[x] = pc[x] /\ rdef'[x] = rdef[x] /\ held'[x] = held[x]
                              /\ answer'[x] = answer[x]
  PROVE  Placed'
<1>1. \A x \in Run \ {r} : PlacedRun(x)'
  BY DEF TypeInv, Placed, PlacedRun
<1> QED
  BY <1>1 DEF Placed, PlacedRun

\* Steps of workers leave the runs alone.
LEMMA EnvType ==
  ASSUME TypeInv,
         \/ \E w \in Worker : Register(w) \/ Evict(w) \/ EvictHandler(w) \/ Close(w)
         \/ \E k \in Container : ContainerRemoved(k) \/ RemoveCache(k)
  PROVE  TypeInv' /\ UNCHANGED <<conns, inUse, runVars>>
<1>1. WorkersType /\ CachesType /\ RunsType /\ Placed /\ Defined
  BY TypeParts DEF TypeInv
<1>2. UNCHANGED <<conns, inUse, runVars>>
  BY DEF Register, Evict, EvictHandler, Close, ContainerRemoved, RemoveCache, workerVars, cacheVars
<1>3. RunsType' /\ Placed'
  BY <1>1, <1>2 DEF RunsType, Placed, runVars
<1>4. CASE \E w \in Worker : Register(w)
  <2>1. PICK w \in Worker : Register(w)
    BY <1>4
  <2>2. WorkersType'
    <3>1. /\ workers' = (workers \ RegisteredAs(PoolID[w])) \cup {w}
          /\ evicting' \in {evicting, evicting \cup RegisteredAs(PoolID[w])}
          /\ wst' = [wst EXCEPT ![w] = "alive"] /\ freeCPU' = [freeCPU EXCEPT ![w] = MCPU]
          /\ UNCHANGED <<inUse, errors, conns>>
      BY <2>1 DEF Register
    <3>2. RegisteredAs(PoolID[w]) \subseteq workers
      BY DEF RegisteredAs
    <3> QED
      BY <1>1, <3>1, <3>2, Constants DEF WorkersType
  <2>3. CachesType' /\ Defined'
    <3>1. misled' \in SUBSET Pool
      BY <1>1, <2>1, Constants DEF Register, CachesType
    <3>2. UNCHANGED <<scripts, byIndex, cached, home, hdef, removing>>
      BY <2>1 DEF Register, remoteVars
    <3> QED
      BY <1>1, <3>1, <3>2 DEF CachesType, Defined
  <2> QED
    BY <1>2, <1>3, <2>2, <2>3, PartsNext
<1>5. CASE \E w \in Worker : Evict(w)
  <2>1. PICK w \in Worker : Evict(w)
    BY <1>5
  <2>2. WorkersType'
    BY <1>1, <1>2, <2>1 DEF Evict, Expel, WorkersType
  <2>3. CachesType' /\ Defined'
    BY <1>1, <2>1 DEF Evict, CachesType, Defined, remoteVars, cacheVars
  <2> QED
    BY <1>2, <1>3, <2>2, <2>3, PartsNext
<1>6. CASE \E w \in Worker : EvictHandler(w)
  <2>1. PICK w \in Worker : EvictHandler(w)
    BY <1>6
  <2>2. WorkersType'
    BY <1>1, <1>2, <2>1 DEF EvictHandler, WorkersType
  <2>3. cached' \in [Container -> Object \cup {None}]
    BY <1>1, <2>1 DEF EvictHandler, Forget, CachesType
  <2>4. byIndex' \in [Index -> [Pool -> Nat]]
    BY <1>1, <2>1 DEF EvictHandler, Forget, CachesType
  <2>5. UNCHANGED <<scripts, misled, home, hdef, removing>>
    BY <2>1 DEF EvictHandler, remoteVars
  <2>6. CachesType' /\ Defined'
    BY <1>1, <2>3, <2>4, <2>5 DEF CachesType, Defined
  <2> QED
    BY <1>2, <1>3, <2>2, <2>6, PartsNext
<1>7. CASE \E w \in Worker : Close(w)
  <2>1. PICK w \in Worker : Close(w)
    BY <1>7
  <2>2. WorkersType'
    BY <1>1, <1>2, <2>1, Constants DEF Close, WorkersType
  <2>3. CachesType' /\ Defined'
    BY <1>1, <2>1 DEF Close, CachesType, Defined, remoteVars
  <2> QED
    BY <1>2, <1>3, <2>2, <2>3, PartsNext
<1>8. CASE \E k \in Container : ContainerRemoved(k)
  <2>1. PICK k \in Container : ContainerRemoved(k)
    BY <1>8
  <2>2. WorkersType'
    BY <1>1, <1>2, <2>1 DEF ContainerRemoved, WorkersType, workerVars
  <2>3. ASSUME NEW w \in RegisteredAs(home[k]), removing' = [removing EXCEPT ![k] = w],
               UNCHANGED <<home, hdef, cacheVars>>
        PROVE  TypeInv'
    <3>1. w \in Worker /\ PoolID[w] = home[k]
      BY <1>1 DEF RegisteredAs, WorkersType
    <3>2. CachesType'
      BY <1>1, <2>3, <3>1 DEF CachesType, cacheVars
    <3>3. Defined'
      BY <1>1, <2>3, <3>1 DEF CachesType, Defined
    <3> QED
      BY <1>2, <1>3, <2>2, <3>2, <3>3, PartsNext
  <2>4. CASE /\ home' = [home EXCEPT ![k] = None] /\ hdef' = [hdef EXCEPT ![k] = None]
             /\ removing' = removing /\ UNCHANGED cacheVars
    <3>1. removing[k] = None
      BY <2>1 DEF ContainerRemoved
    <3>2. CachesType'
      BY <1>1, <2>4 DEF CachesType, cacheVars
    <3>3. Defined'
      BY <1>1, <2>4, <3>1 DEF CachesType, Defined
    <3> QED
      BY <1>2, <1>3, <2>2, <3>2, <3>3, PartsNext
  <2> QED
    <3>1. UNCHANGED cacheVars
      BY <2>1 DEF ContainerRemoved
    <3>3. ASSUME NEW w \in RegisteredAs(home[k]), removing' = [removing EXCEPT ![k] = w],
                 UNCHANGED <<home, hdef>>
          PROVE  TypeInv'
      BY <2>3, <3>1, <3>3
    <3>2. \/ /\ \E w \in RegisteredAs(home[k]) : removing' = [removing EXCEPT ![k] = w]
             /\ UNCHANGED <<home, hdef>>
          \/ /\ home' = [home EXCEPT ![k] = None] /\ hdef' = [hdef EXCEPT ![k] = None]
             /\ UNCHANGED removing
      BY <2>1 DEF ContainerRemoved
    <3> QED
      BY <1>2, <2>4, <3>1, <3>2, <3>3
<1>9. CASE \E k \in Container : RemoveCache(k)
  <2>1. PICK k \in Container : RemoveCache(k)
    BY <1>9
  <2>2. WorkersType'
    BY <1>1, <1>2, <2>1 DEF RemoveCache, WorkersType, workerVars
  <2>3. PICK w \in Worker, d \in Def : removing[k] = w /\ hdef[k] = d /\ PoolID[w] \in Pool
    <3>1. PICK w \in Worker : removing[k] = w /\ home[k] = PoolID[w] /\ PoolID[w] \in Pool
      BY <1>1, <2>1, Constants DEF RemoveCache, CachesType, Defined
    <3>2. hdef[k] \in Def
      BY <1>1, <3>1, Constants DEF CachesType, Defined
    <3> QED
      BY <3>1, <3>2
  <2>4. DefIndex[d] \in Index
    BY Constants
  <2>5. \A n \in Nat : Decrement(n) \in Nat
    BY DEF Decrement
  <2>6. scripts' = [scripts EXCEPT ![w][d] = Decrement(@)]
        /\ byIndex' = [byIndex EXCEPT ![DefIndex[d]][PoolID[w]] = Decrement(@)]
    BY <2>1, <2>3 DEF RemoveCache
  <2>7. scripts' \in [Worker -> [Def -> Nat]]
    BY <1>1, <2>5, <2>6 DEF CachesType
  <2>8. byIndex' \in [Index -> [Pool -> Nat]]
    BY <1>1, <2>3, <2>4, <2>5, <2>6 DEF CachesType
  <2>9. /\ cached' \in [Container -> Object \cup {None}]
        /\ misled' \in SUBSET Pool /\ removing' \in [Container -> Worker \cup {None}]
        /\ home' \in [Container -> Pool \cup {None}] /\ hdef' \in [Container -> Def \cup {None}]
    BY <1>1, <2>1, <2>3 DEF RemoveCache, CachesType
  <2>10. Defined'
    BY <1>1, <2>1, Constants DEF RemoveCache, CachesType, Defined
  <2>11. CachesType'
    BY <2>7, <2>8, <2>9 DEF CachesType
  <2> QED
    BY <1>2, <1>3, <2>2, <2>10, <2>11, PartsNext
<1> QED
  BY <1>2, <1>4, <1>5, <1>6, <1>7, <1>8, <1>9

LEMMA StartType ==
  ASSUME TypeInv, Counted, NEW r \in Run, NEW d \in Def, Start(r, d)
  PROVE  TypeInv' /\ Counted'
<1>1. WorkersType /\ CachesType /\ RunsType /\ Placed /\ Defined
  BY TypeParts DEF TypeInv
<1>2. /\ pc[r] = "idle" /\ pc' = [pc EXCEPT ![r] = "grab"] /\ rdef' = [rdef EXCEPT ![r] = d]
      /\ UNCHANGED <<workerVars, cacheVars, conns, remoteVars, held, answer, left, victim>>
  BY DEF Start, Goto
<1>3. WorkersType' /\ CachesType' /\ Defined'
  BY <1>1, <1>2 DEF WorkersType, CachesType, Defined, workerVars, cacheVars, remoteVars
<1>4. RunsType'
  BY <1>1, <1>2 DEF RunsType, Labels
<1>5. held[r] = << >> /\ Len(held[r]) = 0
  BY <1>1, <1>2 DEF Placed
<1>6. PlacedRun(r)'
  BY <1>1, <1>2, <1>5, Constants DEF RunsType, PlacedRun
<1>7. Placed'
  BY <1>1, <1>2, <1>6, OthersPlaced DEF RunsType
<1>8. SameEntries
  BY <1>1, <1>2 DEF SameEntries, RunsType
<1>9. UNCHANGED <<conns, inUse>>
  BY <1>2 DEF workerVars
<1> QED
  BY <1>3, <1>4, <1>7, <1>8, <1>9, PartsNext, SameCounts

LEMMA GrabType ==
  ASSUME TypeInv, Counted, NEW r \in Run, Grab(r)
  PROVE  TypeInv' /\ Counted'
<1>1. WorkersType /\ CachesType /\ RunsType /\ Placed /\ Defined
  BY TypeParts DEF TypeInv
<1>2. /\ pc[r] = "grab"
      /\ UNCHANGED <<workers, evicting, wst, errors, cacheVars, remoteVars>>
  BY DEF Grab
<1>3. rdef[r] \in Def
  BY <1>1, <1>2 DEF RunsType, Placed
<1>4. CachesType' /\ Defined'
  BY <1>1, <1>2 DEF CachesType, Defined, cacheVars, remoteVars
<1>5. ASSUME NEW o \in Object, Reserve(r, o), UNCHANGED <<rdef, answer, left, victim>>
      PROVE  TypeInv' /\ Counted'
  <2>1. Counted'
    BY <1>2, <1>5, ReserveCounts
  <2>2. /\ conns' \in [Object -> Nat] /\ inUse' \in [Worker -> Nat] /\ freeCPU' \in [Worker -> Int]
        /\ held' \in [Run -> Seq(Reservation)]
        /\ Len(held[r]) \in Nat /\ Len(held'[r]) = Len(held[r]) + 1 /\ Len(held[r]) + 1 <= WorkerRetry
        /\ pc' \in [Run -> Labels] /\ pc'[r] \in {"lock", "attempt"}
        /\ \A x \in Run \ {r} : pc'[x] = pc[x] /\ held'[x] = held[x]
    BY <1>2, <1>5, ReserveTypes
  <2>3. WorkersType'
    BY <1>1, <1>2, <2>2 DEF WorkersType
  <2>4. \A x \in Run : Len(held'[x]) <= WorkerRetry
    BY <1>1, <2>2 DEF RunsType
  <2>5. RunsType'
    BY <1>1, <1>5, <2>2, <2>4 DEF RunsType
  <2>6. held'[r] # << >>
    BY <2>2
  <2>7. PlacedRun(r)'
    BY <1>3, <1>5, <2>2, <2>6, Constants DEF PlacedRun
  <2>8. Placed'
    BY <1>5, <2>2, <2>7, OthersPlaced
  <2> QED
    BY <1>4, <2>1, <2>3, <2>5, <2>8, PartsNext
<1>6. ASSUME /\ IF held[r] = << >> THEN Return(r)
                ELSE Goto(r, "release") /\ UNCHANGED <<rdef, answer, left, victim>>
             /\ UNCHANGED <<freeCPU, inUse, conns, held>>
      PROVE  TypeInv' /\ Counted'
  <2>1. WorkersType'
    BY <1>1, <1>2, <1>6 DEF WorkersType
  <2>2. SameEntries
    BY <1>1, <1>2, <1>6 DEF SameEntries, RunsType, Return, Goto
  <2>3. RunsType' /\ Placed'
    <3>1. CASE held[r] = << >>
      <4>1. /\ pc' = [pc EXCEPT ![r] = "idle"] /\ rdef' = [rdef EXCEPT ![r] = None]
            /\ answer' = [answer EXCEPT ![r] = None] /\ left' = [left EXCEPT ![r] = 0]
            /\ victim' = [victim EXCEPT ![r] = None] /\ UNCHANGED held
        BY <1>6, <3>1 DEF Return, Goto
      <4>2. RunsType'
        BY <1>1, <4>1 DEF RunsType, Labels
      <4>3. PlacedRun(r)'
        BY <1>1, <3>1, <4>1 DEF PlacedRun, RunsType
      <4> QED
        BY <1>1, <4>1, <4>2, <4>3, OthersPlaced DEF RunsType
    <3>2. CASE held[r] # << >>
      <4>1. pc' = [pc EXCEPT ![r] = "release"] /\ UNCHANGED <<held, rdef, answer, left, victim>>
        BY <1>6, <3>2 DEF Goto
      <4>2. RunsType'
        BY <1>1, <4>1 DEF RunsType, Labels
      <4>3. PlacedRun(r)'
        BY <1>1, <1>3, <3>2, <4>1, Constants DEF PlacedRun, RunsType
      <4> QED
        BY <1>1, <4>1, <4>2, <4>3, OthersPlaced DEF RunsType
    <3> QED
      BY <3>1, <3>2
  <2>4. Counted'
    BY <1>6, <2>2, SameCounts
  <2> QED
    BY <1>4, <2>1, <2>3, <2>4, PartsNext
<1>7. \A o \in Considered(rdef[r]) : o \in Object
  BY <1>1, <1>3 DEF Considered, CachedFor, CachesType
<1>8. \A w \in FreestWorkers, n \in Copy : <<w, rdef[r], n>> \in Object
  BY <1>1, <1>3 DEF FreestWorkers, WorkersType, Object
<1> QED
  BY <1>5, <1>6, <1>7, <1>8 DEF Grab

LEMMA LockType ==
  ASSUME TypeInv, Counted, NEW r \in Run, Lock(r)
  PROVE  TypeInv' /\ Counted'
<1>1. WorkersType /\ CachesType /\ RunsType /\ Placed /\ Defined
  BY TypeParts DEF TypeInv
<1>2. /\ pc[r] = "lock"
      /\ UNCHANGED <<workerVars, cacheVars, conns, remoteVars, rdef, answer, left, victim>>
  BY DEF Lock
<1>3. PICK l \in {"attempt", "release"} : pc' = [pc EXCEPT ![r] = l]
  BY DEF Lock, Goto
<1>4. held' = held \/ held' = [held EXCEPT ![r][Len(held[r])].locked = TRUE]
  BY DEF Lock
<1>5. WorkersType' /\ CachesType' /\ Defined' /\ UNCHANGED <<conns, inUse>>
  BY <1>1, <1>2 DEF WorkersType, CachesType, Defined, workerVars, cacheVars, remoteVars
<1>6. /\ held' \in [Run -> Seq(Reservation)]
      /\ Len(held'[r]) = Len(held[r])
      /\ \A m \in 1..Len(held[r]) : held'[r][m].cont = held[r][m].cont
      /\ \A x \in Run \ {r} : held'[x] = held[x]
  <2>1. CASE held' = held
    BY <2>1, HeldType
  <2>2. CASE held' = [held EXCEPT ![r][Len(held[r])].locked = TRUE]
    BY <1>2, <2>2, Relocked
  <2> QED
    BY <1>4, <2>1, <2>2
<1>7. \A x \in Run : Len(held'[x]) <= WorkerRetry
  <2>1. \A x \in Run : Len(held[x]) <= WorkerRetry
    BY HeldType
  <2>2. \A x \in Run : Len(held'[x]) = Len(held[x])
    BY <1>6
  <2> QED
    BY <2>1, <2>2
<1>8. RunsType'
  BY <1>1, <1>2, <1>3, <1>6, <1>7 DEF RunsType, Labels
<1>9. held'[r] # << >>
  BY <1>1, <1>2, <1>6, HeldType, LastOf DEF Placed
<1>10. PlacedRun(r)'
  BY <1>1, <1>2, <1>3, <1>9 DEF Placed, PlacedRun, RunsType
<1>11. Placed'
  BY <1>1, <1>2, <1>3, <1>6, <1>10, OthersPlaced DEF RunsType
<1>12. SameEntries
  BY <1>1, <1>2, <1>3, <1>6 DEF SameEntries, RunsType
<1> QED
  BY <1>5, <1>8, <1>11, <1>12, PartsNext, SameCounts

\* A run changes where it is and what answers it waits for, and keeps what it has.
LEMMA MoveType ==
  ASSUME TypeInv, Counted, NEW r \in Run, pc[r] \notin {"idle", "grab", "released"},
         NEW l \in Labels \ {"idle", "released"}, pc' = [pc EXCEPT ![r] = l],
         l = "grab" => Len(held[r]) < WorkerRetry,
         l = "cache" => answer'[r] # None,
         UNCHANGED <<conns, inUse, rdef, held, left>>,
         \A x \in Run \ {r} : answer[x] # None => answer'[x] # None,
         answer' \in [Run -> Container \cup {None}],
         victim' \in [Run -> Worker \cup {None}]
  PROVE  RunsType' /\ Placed' /\ Counted'
<1>1. RunsType /\ Placed
  BY TypeParts DEF TypeInv
<1>2. RunsType'
  BY <1>1 DEF RunsType
<1>3. \A x \in Run : PlacedRun(x)
  BY <1>1 DEF Placed, PlacedRun
<1>4. PlacedRun(r)'
  BY <1>1, <1>3 DEF PlacedRun, RunsType
<1>5. \A x \in Run \ {r} : PlacedRun(x)'
  BY <1>1, <1>3 DEF PlacedRun, RunsType
<1>6. Placed'
  BY <1>4, <1>5 DEF Placed, PlacedRun
<1>7. SameEntries
  BY <1>1 DEF SameEntries, RunsType
<1> QED
  BY <1>2, <1>6, <1>7, SameCounts

LEMMA HandleType ==
  ASSUME TypeInv, NEW r \in Run, pc[r] \notin {"idle", "grab"},
         HandleWorkerError(r) \/ UNCHANGED <<workers, evicting, errors, victim>>
  PROVE  /\ workers' \in SUBSET Worker /\ evicting' \in SUBSET Worker
         /\ errors' \in [Worker -> 0..WorkerErrorThreshold]
         /\ victim' \in [Run -> Worker \cup {None}]
<1>1. WorkersType /\ RunsType
  BY TypeParts DEF TypeInv
<1>2. PICK w \in Worker : w = WorkerOf(r)
  BY CurrentType
<1>3. CASE UNCHANGED <<workers, evicting, errors, victim>>
  BY <1>1, <1>3 DEF WorkersType, RunsType
<1>4. CASE HandleWorkerError(r)
  <2>1. errors' = [errors EXCEPT ![w] = IF @ < WorkerErrorThreshold THEN @ + 1 ELSE @]
    BY <1>2, <1>4 DEF HandleWorkerError
  <2>2. errors' \in [Worker -> 0..WorkerErrorThreshold]
    BY <1>1, <2>1, Constants DEF WorkersType
  <2>3. \/ \E v \in workers : /\ workers' = workers \ {v} /\ evicting' = evicting \cup {v}
                              /\ victim' = [victim EXCEPT ![r] = v]
        \/ UNCHANGED <<workers, evicting, victim>>
    BY <1>4 DEF HandleWorkerError, Expel, RegisteredAs
  <2> QED
    BY <1>1, <2>2, <2>3 DEF WorkersType, RunsType
<1> QED
  BY <1>3, <1>4

LEMMA AttemptType ==
  ASSUME TypeInv, Counted, NEW r \in Run, Attempt(r)
  PROVE  TypeInv' /\ Counted'
<1>1. WorkersType /\ CachesType /\ RunsType /\ Placed /\ Defined
  BY TypeParts DEF TypeInv
<1>2. /\ pc[r] = "attempt"
      /\ UNCHANGED <<wst, freeCPU, inUse, cacheVars, conns, remoteVars, rdef, held, answer, left>>
  BY DEF Attempt
<1>3. PICK l \in {"relay", "grab", "blocked", "release"} :
        pc' = [pc EXCEPT ![r] = l] /\ (l = "grab" => Len(held[r]) < WorkerRetry)
  BY DEF Attempt, Goto
<1>4. HandleWorkerError(r) \/ UNCHANGED <<workers, evicting, errors, victim>>
  BY DEF Attempt
<1>5. /\ workers' \in SUBSET Worker /\ evicting' \in SUBSET Worker
      /\ errors' \in [Worker -> 0..WorkerErrorThreshold]
      /\ victim' \in [Run -> Worker \cup {None}]
  BY <1>2, <1>4, HandleType
<1>6. WorkersType'
  BY <1>1, <1>2, <1>5 DEF WorkersType
<1>7. CachesType' /\ Defined'
  BY <1>1, <1>2 DEF CachesType, Defined, cacheVars, remoteVars
<1>8. l \in Labels \ {"idle", "released"} /\ l # "cache"
  BY <1>3 DEF Labels
<1>9. RunsType' /\ Placed' /\ Counted'
  BY <1>1, <1>2, <1>3, <1>5, <1>8, MoveType DEF RunsType
<1> QED
  BY <1>6, <1>7, <1>9, PartsNext

\* A container that a worker creates belongs to it from then on.
LEMMA CreatedType ==
  ASSUME TypeInv, NEW r \in Run, pc[r] \notin {"idle", "grab"},
         \/ \E k \in Container : Created(r, k)
         \/ UNCHANGED <<home, hdef>>,
         UNCHANGED <<cacheVars, removing>>
  PROVE  CachesType' /\ Defined'
<1>1. CachesType /\ Defined
  BY TypeParts DEF TypeInv
<1>2. CASE UNCHANGED <<home, hdef>>
  BY <1>1, <1>2 DEF CachesType, Defined, cacheVars
<1>3. ASSUME NEW k \in Container, Created(r, k)
      PROVE  CachesType' /\ Defined'
  <2>1. PICK p \in Pool, d \in Def : p = PoolID[WorkerOf(r)] /\ d = rdef[r]
    BY CurrentType, Constants
  <2>2. home[k] = None /\ home' = [home EXCEPT ![k] = p] /\ hdef' = [hdef EXCEPT ![k] = d]
    BY <1>3, <2>1 DEF Created, UnusedContainer
  <2>3. p # None /\ d # None /\ \A w \in Worker : PoolID[w] # None
    BY Constants
  <2>4. CachesType'
    BY <1>1, <2>2 DEF CachesType, cacheVars
  <2>6. removing[k] = None
    BY <1>1, <2>2, <2>3 DEF CachesType, Defined
  <2>5. Defined'
    BY <1>1, <2>2, <2>3, <2>6 DEF CachesType, Defined
  <2> QED
    BY <2>4, <2>5
<1> QED
  BY <1>2, <1>3

LEMMA AnswerType ==
  ASSUME TypeInv, Counted, NEW r \in Run, Answer(r)
  PROVE  TypeInv' /\ Counted'
<1>1. WorkersType /\ CachesType /\ RunsType /\ Placed /\ Defined
  BY TypeParts DEF TypeInv
<1>2. /\ pc[r] = "relay" /\ pc' = [pc EXCEPT ![r] = "answered"]
      /\ UNCHANGED <<removing, workerVars, cacheVars, conns, rdef, held, left, victim>>
  BY DEF Answer, Goto
<1>3. \/ \E k \in Container : Created(r, k)
      \/ UNCHANGED <<home, hdef>>
  BY DEF Answer
<1>4. answer' = answer \/ \E k \in Container : answer' = [answer EXCEPT ![r] = k]
  BY DEF Answer
<1>5. WorkersType'
  BY <1>1, <1>2 DEF WorkersType, workerVars
<1>6. CachesType' /\ Defined'
  BY <1>2, <1>3, CreatedType
<1>7. /\ answer' \in [Run -> Container \cup {None}]
      /\ \A x \in Run \ {r} : answer'[x] = answer[x]
  BY <1>1, <1>4 DEF RunsType
<1>8. "answered" \in Labels \ {"idle", "released"}
  BY DEF Labels
<1>9. UNCHANGED <<conns, inUse, rdef, held, left>> /\ victim' \in [Run -> Worker \cup {None}]
  BY <1>1, <1>2 DEF RunsType, workerVars
<1>10. RunsType' /\ Placed' /\ Counted'
  BY <1>2, <1>7, <1>8, <1>9, MoveType
<1> QED
  BY <1>5, <1>6, <1>10, PartsNext

LEMMA WorkerErrorType ==
  ASSUME TypeInv, Counted, NEW r \in Run, WorkerError(r)
  PROVE  TypeInv' /\ Counted'
<1>1. WorkersType /\ CachesType /\ RunsType /\ Placed /\ Defined
  BY TypeParts DEF TypeInv
<1>2. /\ pc[r] \in {"relay", "answered"}
      /\ UNCHANGED <<removing, wst, freeCPU, inUse, cacheVars, conns, rdef, held, answer, left>>
  BY DEF WorkerError
<1>3. PICK l \in {"release", "settle"} : pc' = [pc EXCEPT ![r] = l]
  BY DEF WorkerError, Goto
<1>4. HandleWorkerError(r) \/ UNCHANGED <<workers, evicting, errors, victim>>
  BY DEF WorkerError
<1>5. \/ \E k \in Container : Created(r, k)
      \/ UNCHANGED <<home, hdef>>
  BY DEF WorkerError
<1>6. /\ workers' \in SUBSET Worker /\ evicting' \in SUBSET Worker
      /\ errors' \in [Worker -> 0..WorkerErrorThreshold]
      /\ victim' \in [Run -> Worker \cup {None}]
  BY <1>2, <1>4, HandleType
<1>7. WorkersType'
  BY <1>1, <1>2, <1>6 DEF WorkersType
<1>8. CachesType' /\ Defined'
  BY <1>2, <1>5, CreatedType
<1>9. l \in Labels \ {"idle", "released"} /\ l # "cache" /\ l # "grab"
  BY <1>3 DEF Labels
<1>10. RunsType' /\ Placed' /\ Counted'
  BY <1>1, <1>2, <1>3, <1>6, <1>9, MoveType DEF RunsType
<1> QED
  BY <1>7, <1>8, <1>10, PartsNext

LEMMA SettleType ==
  ASSUME TypeInv, Counted, NEW r \in Run, Settle(r)
  PROVE  TypeInv' /\ Counted'
<1>1. WorkersType /\ CachesType /\ RunsType /\ Placed /\ Defined
  BY TypeParts DEF TypeInv
<1>2. /\ pc[r] \in {"answered", "settle"}
      /\ UNCHANGED <<workers, evicting, wst, freeCPU, inUse, scripts, byIndex, cached, conns,
                     remoteVars, rdef, held, left, victim>>
  BY DEF Settle
<1>3. PICK w \in Worker : w = WorkerOf(r)
  BY <1>2, CurrentType
<1>4. errors' = [errors EXCEPT ![w] = 0] /\ misled' \in SUBSET Pool
  BY <1>1, <1>3, Constants DEF Settle, CachesType
<1>5. WorkersType'
  BY <1>1, <1>2, <1>4, Constants DEF WorkersType
<1>6. CachesType' /\ Defined'
  BY <1>1, <1>2, <1>4 DEF CachesType, Defined, remoteVars
<1>7. victim' \in [Run -> Worker \cup {None}] /\ UNCHANGED <<conns, inUse, rdef, held, left>>
  BY <1>1, <1>2 DEF RunsType
<1>8. CASE answer[r] = None
  <2>1. pc' = [pc EXCEPT ![r] = "release"] /\ answer' = answer
    BY <1>8 DEF Settle, Goto
  <2>2. "release" \in Labels \ {"idle", "released"}
    BY DEF Labels
  <2>3. answer' \in [Run -> Container \cup {None}]
    BY <1>1, <2>1 DEF RunsType
  <2>4. RunsType' /\ Placed' /\ Counted'
    BY <1>2, <1>7, <2>1, <2>2, <2>3, MoveType
  <2> QED
    BY <1>5, <1>6, <2>4, PartsNext
<1>9. CASE answer[r] # None
  <2>1. /\ pc' = [pc EXCEPT ![r] = "cache"]
        /\ answer' = [q \in Run |-> IF q \in SharingID(r) THEN answer[r] ELSE answer[q]]
    BY <1>9 DEF Settle, Goto
  <2>2. "cache" \in Labels \ {"idle", "released"}
    BY DEF Labels
  <2>3. /\ answer' \in [Run -> Container \cup {None}] /\ answer'[r] # None
        /\ \A x \in Run \ {r} : answer[x] # None => answer'[x] # None
    BY <1>1, <1>9, <2>1 DEF RunsType
  <2>4. RunsType' /\ Placed' /\ Counted'
    BY <1>2, <1>7, <2>1, <2>2, <2>3, MoveType
  <2> QED
    BY <1>5, <1>6, <2>4, PartsNext
<1> QED
  BY <1>8, <1>9

LEMMA AddCacheType ==
  ASSUME TypeInv, Counted, NEW r \in Run, AddCache(r)
  PROVE  TypeInv' /\ Counted'
<1>1. WorkersType /\ CachesType /\ RunsType /\ Placed /\ Defined
  BY TypeParts DEF TypeInv
<1>2. /\ pc[r] = "cache" /\ pc' = [pc EXCEPT ![r] = "release"]
      /\ answer' = [answer EXCEPT ![r] = None]
      /\ UNCHANGED <<workerVars, conns, remoteVars, rdef, held, left, victim>>
  BY DEF AddCache, Goto
<1>3. PICK o \in Object, w \in Worker, d \in Def : o = Current(r) /\ w = Owner(o) /\ d = rdef[r]
  BY <1>2, CurrentType DEF WorkerOf
<1>4. PICK k \in Container : k = answer[r]
  BY <1>1, <1>2 DEF Placed, RunsType
<1>5. /\ scripts' = [scripts EXCEPT ![w][d] = @ + 1]
      /\ byIndex' = [byIndex EXCEPT ![DefIndex[d]][PoolID[w]] = @ + 1]
      /\ cached' = [cached EXCEPT ![k] = o]
      /\ misled' = misled \/ misled' = misled \cup {PoolID[w]}
  BY <1>3, <1>4 DEF AddCache
<1>6. DefIndex[d] \in Index /\ PoolID[w] \in Pool
  BY Constants
<1>7. scripts' \in [Worker -> [Def -> Nat]]
  BY <1>1, <1>5 DEF CachesType
<1>8. byIndex' \in [Index -> [Pool -> Nat]]
  BY <1>1, <1>5, <1>6 DEF CachesType
<1>9. CachesType' /\ Defined'
  BY <1>1, <1>2, <1>5, <1>6, <1>7, <1>8 DEF CachesType, Defined, remoteVars
<1>10. WorkersType'
  BY <1>1, <1>2 DEF WorkersType, workerVars
<1>11. /\ answer' \in [Run -> Container \cup {None}]
       /\ \A x \in Run \ {r} : answer'[x] = answer[x]
  BY <1>1, <1>2 DEF RunsType
<1>12. "release" \in Labels \ {"idle", "released"}
  BY DEF Labels
<1>13. UNCHANGED <<conns, inUse, rdef, held, left>> /\ victim' \in [Run -> Worker \cup {None}]
  BY <1>1, <1>2 DEF RunsType, workerVars
<1>14. RunsType' /\ Placed' /\ Counted'
  BY <1>2, <1>11, <1>12, <1>13, MoveType
<1> QED
  BY <1>9, <1>10, <1>14, PartsNext

LEMMA DisconnectType ==
  ASSUME TypeInv, Counted, NEW r \in Run, Disconnect(r)
  PROVE  TypeInv' /\ Counted'
<1>1. WorkersType /\ CachesType /\ RunsType /\ Placed /\ Defined
  BY TypeParts DEF TypeInv
<1>2. /\ pc[r] = "release" /\ pc' = [pc EXCEPT ![r] = "released"]
      /\ left' = [left EXCEPT ![r] = conns[Current(r)] - 1]
      /\ held' = [held EXCEPT ![r][Len(held[r])].locked = FALSE]
      /\ UNCHANGED <<workerVars, cacheVars, remoteVars, rdef, answer, victim>>
  BY DEF Disconnect, Goto
<1>3. Counted' /\ conns' \in [Object -> Nat] /\ conns[Current(r)] - 1 \in Nat
  BY DisconnectCounts
<1>4. WorkersType' /\ CachesType' /\ Defined'
  BY <1>1, <1>2, <1>3 DEF WorkersType, CachesType, Defined, workerVars, cacheVars, remoteVars
<1>5. /\ held' \in [Run -> Seq(Reservation)]
      /\ Len(held'[r]) = Len(held[r])
      /\ \A x \in Run \ {r} : held'[x] = held[x]
  BY <1>2, Relocked
<1>6. \A x \in Run : Len(held'[x]) <= WorkerRetry
  <2>1. \A x \in Run : Len(held[x]) <= WorkerRetry
    BY HeldType
  <2>2. \A x \in Run : Len(held'[x]) = Len(held[x])
    BY <1>5
  <2> QED
    BY <2>1, <2>2
<1>7. RunsType'
  BY <1>1, <1>2, <1>3, <1>5, <1>6 DEF RunsType, Labels
<1>8. held'[r] # << >>
  BY <1>1, <1>2, <1>5, HeldType, LastOf DEF Placed
<1>9. PlacedRun(r)'
  BY <1>1, <1>2, <1>8 DEF Placed, PlacedRun, RunsType
<1>10. Placed'
  BY <1>1, <1>2, <1>5, <1>9, OthersPlaced DEF RunsType
<1> QED
  BY <1>3, <1>4, <1>7, <1>10, PartsNext

LEMMA ReleaseType ==
  ASSUME TypeInv, Counted, NEW r \in Run, Release(r)
  PROVE  TypeInv' /\ Counted'
<1>1. WorkersType /\ CachesType /\ RunsType /\ Placed /\ Defined
  BY TypeParts DEF TypeInv
<1>2. /\ pc[r] = "released"
      /\ UNCHANGED <<workers, evicting, wst, errors, cacheVars, conns, remoteVars>>
  BY DEF Release
<1>3. /\ Counted' /\ inUse' \in [Worker -> Nat]
      /\ held' \in [Run -> Seq(Reservation)]
      /\ Len(held[r]) \in 1..WorkerRetry /\ Len(held'[r]) = Len(held[r]) - 1
      /\ \A x \in Run \ {r} : pc'[x] = pc[x] /\ held'[x] = held[x]
      /\ pc'[r] = IF Len(held[r]) = 1 THEN "idle" ELSE "release"
  BY ReleaseCounts
<1>4. PICK w \in Worker, d \in Def : w = WorkerOf(r) /\ d = rdef[r]
  BY <1>2, CurrentType
<1>5. freeCPU' \in [Worker -> Int]
  <2>1. freeCPU' = [freeCPU EXCEPT ![w] = IF Refund(r) THEN @ + Mcpu[d] ELSE @]
    BY <1>4 DEF Release
  <2>2. Mcpu[d] \in Nat
    BY Constants
  <2> QED
    BY <1>1, <2>1, <2>2 DEF WorkersType
<1>6. WorkersType' /\ CachesType' /\ Defined'
  BY <1>1, <1>2, <1>3, <1>5 DEF WorkersType, CachesType, Defined, cacheVars, remoteVars
<1>7. \A x \in Run : Len(held'[x]) <= WorkerRetry
  <2>1. Len(held[r]) \in Nat
    BY HeldType
  <2>2. Len(held[r]) - 1 <= WorkerRetry
    BY <1>3, <2>1, Constants
  <2> QED
    BY <1>3, <2>2, HeldType
<1>8. CASE Len(held[r]) = 1
  <2>1. /\ pc' = [pc EXCEPT ![r] = "idle"] /\ rdef' = [rdef EXCEPT ![r] = None]
        /\ answer' = [answer EXCEPT ![r] = None] /\ left' = [left EXCEPT ![r] = 0]
        /\ victim' = [victim EXCEPT ![r] = None]
    BY <1>8 DEF Release, Return, Goto
  <2>2. RunsType'
    BY <1>1, <1>3, <1>7, <2>1 DEF RunsType, Labels
  <2>3. held'[r] = << >>
    BY <1>3, <1>8, NothingLeft
  <2>4. PlacedRun(r)'
    BY <1>1, <2>1, <2>3 DEF PlacedRun, RunsType
  <2>5. Placed'
    BY <1>1, <1>3, <2>1, <2>4, OthersPlaced DEF RunsType
  <2> QED
    BY <1>3, <1>6, <2>2, <2>5, PartsNext
<1>9. CASE Len(held[r]) # 1
  <2>1. /\ pc' = [pc EXCEPT ![r] = "release"] /\ left' = [left EXCEPT ![r] = 0]
        /\ UNCHANGED <<rdef, answer, victim>>
    BY <1>9 DEF Release, Goto
  <2>2. RunsType'
    BY <1>1, <1>3, <1>7, <2>1 DEF RunsType, Labels
  <2>3. held'[r] # << >>
    <3>1. Len(held[r]) \in Nat /\ Len(held'[r]) # 0
      BY <1>3, <1>9, HeldType
    <3> QED
      BY <3>1
  <2>4. PlacedRun(r)'
    BY <1>1, <1>4, <2>1, <2>3, Constants DEF PlacedRun, RunsType
  <2>5. Placed'
    BY <1>1, <1>3, <2>1, <2>4, OthersPlaced DEF RunsType
  <2> QED
    BY <1>3, <1>6, <2>2, <2>5, PartsNext
<1> QED
  BY <1>8, <1>9

\* A run's step keeps the types and the counts.
LEMMA RunStepType ==
  ASSUME TypeInv, Counted, NEW r \in Run, RunStep(r)
  PROVE  TypeInv' /\ Counted'
BY GrabType, LockType, AttemptType, AnswerType, WorkerErrorType, SettleType, AddCacheType,
   DisconnectType, ReleaseType DEF RunStep

-----------------------------------------------------------------------------
(* Registered workers, used workers, shared containers *)

\* Once a worker leaves the cache it does not come back before it is closed.
LEMMA RegisteredStep ==
  ASSUME TypeInv, Registered, [Next]_vars
  PROVE  Registered'
<1>1. workers \in SUBSET Worker /\ evicting \in SUBSET Worker
      /\ wst \in [Worker -> {"alive", "shut", "closed"}]
  BY DEF TypeInv, TypeOK
<1>2. /\ \A w \in workers : wst[w] = "alive"
      /\ workers \cap evicting = {}
      /\ \A v, w \in workers : PoolID[v] = PoolID[w] => v = w
      /\ \A w \in evicting : wst[w] = "alive"
  BY DEF Registered, RegisteredAlive
<1>3. CASE UNCHANGED <<workers, evicting, wst>>
  BY <1>2, <1>3 DEF Registered, RegisteredAlive
<1>4. ASSUME NEW w \in workers, Expel(w), UNCHANGED wst
      PROVE  Registered'
  BY <1>2, <1>4 DEF Expel, Registered, RegisteredAlive
<1>5. ASSUME NEW r \in Run, RunStep(r)
      PROVE  Registered'
  <2>1. ASSUME HandleWorkerError(r), pc[r] \notin {"idle", "grab"}, UNCHANGED wst
        PROVE  Registered'
    <3>1. (\E v \in workers : Expel(v)) \/ UNCHANGED <<workers, evicting>>
      BY <2>1 DEF HandleWorkerError, RegisteredAs
    <3> QED
      BY <1>3, <1>4, <2>1, <3>1
  <2>2. Attempt(r) => Registered'
    BY <1>3, <2>1 DEF Attempt
  <2>3. WorkerError(r) => Registered'
    BY <1>3, <2>1 DEF WorkerError
  <2>4. Grab(r) \/ Lock(r) \/ Answer(r) \/ Settle(r) \/ AddCache(r) \/ Disconnect(r) \/ Release(r)
        => Registered'
    BY <1>3 DEF Grab, Lock, Answer, Settle, AddCache, Disconnect, Release, workerVars
  <2> QED
    BY <1>5, <2>2, <2>3, <2>4 DEF RunStep
<1>6. ASSUME NEW r \in Run, NEW d \in Def, Start(r, d)
      PROVE  Registered'
  BY <1>3, <1>6 DEF Start, workerVars
<1>7. ASSUME NEW w \in Worker, Register(w)
      PROVE  Registered'
  <2>1. PICK S : S = RegisteredAs(PoolID[w])
    OBVIOUS
  <2>2. /\ w \notin evicting /\ wst[w] = "closed" /\ wst' = [wst EXCEPT ![w] = "alive"]
        /\ workers' = (workers \ S) \cup {w}
        /\ evicting' \in {evicting, evicting \cup S}
    BY <1>7, <2>1 DEF Register, UnusedWorker
  <2>3. w \notin S /\ S \subseteq workers /\ \A v \in workers \ S : PoolID[v] # PoolID[w]
    BY <1>2, <2>1, <2>2 DEF RegisteredAs
  <2>4. workers' \cap evicting' = {} /\ \A v \in workers' \cup evicting' : wst'[v] = "alive"
    BY <1>1, <1>2, <2>2, <2>3
  <2>5. \A v, u \in workers' : PoolID[v] = PoolID[u] => v = u
    BY <1>2, <2>2, <2>3
  <2> QED
    BY <2>4, <2>5 DEF Registered, RegisteredAlive
<1>8. ASSUME NEW w \in Worker, Evict(w)
      PROVE  Registered'
  BY <1>4, <1>8 DEF Evict
<1>9. ASSUME NEW w \in Worker, EvictHandler(w)
      PROVE  Registered'
  <2>1. w \in evicting /\ evicting' = evicting \ {w} /\ wst' = [wst EXCEPT ![w] = "shut"]
        /\ UNCHANGED workers
    BY <1>9 DEF EvictHandler
  <2> QED
    BY <1>1, <1>2, <2>1 DEF Registered, RegisteredAlive
<1>10. ASSUME NEW w \in Worker, Close(w)
       PROVE  Registered'
  <2>1. wst[w] = "shut" /\ wst' = [wst EXCEPT ![w] = "closed"] /\ UNCHANGED <<workers, evicting>>
    BY <1>10 DEF Close
  <2> QED
    BY <1>1, <1>2, <2>1 DEF Registered, RegisteredAlive
<1>11. ASSUME NEW k \in Container, ContainerRemoved(k) \/ RemoveCache(k)
       PROVE  Registered'
  BY <1>3, <1>11 DEF ContainerRemoved, RemoveCache, workerVars
<1>12. CASE UNCHANGED vars
  BY <1>3, <1>12 DEF vars, workerVars
<1> QED
  BY <1>5, <1>6, <1>7, <1>8, <1>9, <1>10, <1>11, <1>12 DEF Next

\* A worker that a run has reserved is in use.
LEMMA HeldInUse ==
  ASSUME TypeInv, Counted, NEW r \in Run, NEW o \in HeldBy(r)
  PROVE  o \in Object /\ Owner(o) \in Worker /\ inUse[Owner(o)] # 0
<1>1. held[r] \in Seq(Reservation) /\ Len(held[r]) \in Nat /\ Len(held[r]) <= WorkerRetry
  BY HeldType
<1>2. PICK n \in 1..Len(held[r]) : o = held[r][n].cont
  BY <1>1 DEF HeldBy
<1>3. held[r][n] \in Reservation
  BY <1>1
<1>4. o \in Object
  BY <1>2, <1>3 DEF Reservation
<1>5. Owner(o) \in Worker
  BY <1>4, ObjectType
<1>6. PICK e : e = <<r, n>>
  OBVIOUS
<1>7. n \in 1..WorkerRetry
  BY <1>1, Constants
<1>8. e \in Users(Owner(o))
  BY <1>1, <1>2, <1>6, <1>7 DEF Users, Entry, Taken, ContOf
<1>9. IsFiniteSet(Users(Owner(o))) /\ inUse[Owner(o)] = Cardinality(Users(Owner(o)))
  BY <1>5, Finite DEF Counted
<1> QED
  BY <1>4, <1>5, <1>8, <1>9, FS_EmptySet

\* What a run reserves is on a worker that is alive, and of its definition.  It is
\* cached, or on a registered worker.
LEMMA GrabsAlive ==
  ASSUME TypeInv, Registered, NEW r \in Run, Grab(r)
  PROVE  \/ \E o \in Object :
              /\ Reserve(r, o) /\ wst[Owner(o)] = "alive" /\ DefOf(o) = rdef[r]
              /\ HasConn(o) \/ Async[DefOf(o)] <= 1 \/ UnusedObject(o)
              /\ Owner(o) \in workers \/ \E k \in Container : cached[k] = o
         \/ UNCHANGED <<held, conns>>
<1>1. rdef[r] \in Def
  BY DEF Grab, TypeInv, TypeOK, Placed
<1>2. ASSUME NEW o \in Considered(rdef[r]), Reservable(o), Reserve(r, o)
      PROVE  /\ o \in Object /\ wst[Owner(o)] = "alive" /\ DefOf(o) = rdef[r]
             /\ HasConn(o) \/ Async[DefOf(o)] <= 1
             /\ \E k \in Container : cached[k] = o
  <2>1. o \in Object /\ DefOf(o) = rdef[r] /\ \E k \in Container : cached[k] = o
    BY <1>1 DEF Considered, CachedFor, TypeInv, TypeOK
  <2>2. Async[rdef[r]] \in Nat
    BY <1>1, Constants
  <2>3. HasConn(o) \/ Async[DefOf(o)] <= 1
    BY <2>1, <2>2 DEF Considered
  <2> QED
    BY <1>2, <2>1, <2>3 DEF Reservable
<1>3. ASSUME NEW w \in FreestWorkers, NEW n \in Copy
      PROVE  /\ <<w, rdef[r], n>> \in Object /\ wst[Owner(<<w, rdef[r], n>>)] = "alive"
             /\ DefOf(<<w, rdef[r], n>>) = rdef[r] /\ Owner(<<w, rdef[r], n>>) \in workers
  <2>1. w \in workers /\ w \in Worker
    BY DEF FreestWorkers, TypeInv, TypeOK
  <2>2. wst[w] = "alive"
    BY <2>1 DEF Registered, RegisteredAlive
  <2> QED
    BY <1>1, <2>1, <2>2 DEF Object, Owner, DefOf
<1> QED
  BY <1>2, <1>3 DEF Grab

\* A reservation is all that a run has more.
LEMMA HeldStep ==
  ASSUME TypeInv, Counted, Registered, NEW r \in Run, RunStep(r), NEW x \in Run, NEW o \in HeldBy(x)'
  PROVE  \/ o \in HeldBy(x)
         \/ /\ wst[Owner(o)] = "alive" /\ x = r /\ DefOf(o) = rdef[r]
            /\ Owner(o) \in workers \/ \E k \in Container : cached[k] = o
<1>1. \A y \in Run : held[y] \in Seq(Reservation) /\ Len(held[y]) \in Nat
  BY HeldType
<1>2. CASE UNCHANGED held
  BY <1>2 DEF HeldBy
<1>3. Attempt(r) \/ Answer(r) \/ WorkerError(r) \/ Settle(r) \/ AddCache(r) => UNCHANGED held
  BY DEF Attempt, Answer, WorkerError, Settle, AddCache
<1>4. ASSUME /\ pc[r] \notin {"idle", "grab"} /\ held' \in [Run -> Seq(Reservation)]
             /\ Len(held'[r]) = Len(held[r])
             /\ \A m \in 1..Len(held[r]) : held'[r][m].cont = held[r][m].cont
             /\ \A y \in Run \ {r} : held'[y] = held[y]
      PROVE  o \in HeldBy(x)
  <2>1. held'[r] \in Seq(Reservation)
    BY <1>4
  <2>2. DOMAIN held'[r] = 1..Len(held[r]) /\ DOMAIN held[r] = 1..Len(held[r])
    BY <1>1, <1>4, <2>1
  <2>3. CASE x = r
    BY <1>4, <2>2, <2>3 DEF HeldBy
  <2>4. CASE x # r
    BY <1>4, <2>4 DEF HeldBy
  <2> QED
    BY <2>3, <2>4
<1>5. CASE Lock(r)
  <2>1. pc[r] = "lock" /\ (held' = held \/ held' = [held EXCEPT ![r][Len(held[r])].locked = TRUE])
    BY <1>5 DEF Lock
  <2>2. CASE held' = [held EXCEPT ![r][Len(held[r])].locked = TRUE]
    BY <1>4, <2>1, <2>2, Relocked
  <2> QED
    BY <1>2, <2>1, <2>2
<1>6. CASE Disconnect(r)
  <2>1. pc[r] = "release" /\ held' = [held EXCEPT ![r][Len(held[r])].locked = FALSE]
    BY <1>6 DEF Disconnect
  <2> QED
    BY <1>4, <2>1, Relocked
<1>7. CASE Release(r)
  <2>1. /\ held' \in [Run -> Seq(Reservation)]
        /\ Len(held'[r]) = Len(held[r]) - 1
        /\ \A m \in 1..(Len(held[r]) - 1) : held'[r][m] = held[r][m]
        /\ \A y \in Run \ {r} : held'[y] = held[y]
    BY <1>7, ReleaseCounts
  <2>2. held'[r] \in Seq(Reservation)
    BY <2>1
  <2>3. DOMAIN held'[r] = 1..(Len(held[r]) - 1) /\ DOMAIN held[r] = 1..Len(held[r])
    BY <1>1, <2>1, <2>2
  <2>4. CASE x = r
    <3>1. PICK n \in 1..(Len(held[r]) - 1) : o = held'[r][n].cont
      BY <2>3, <2>4 DEF HeldBy
    <3>2. n \in DOMAIN held[r]
      BY <1>1, <2>3
    <3> QED
      BY <2>1, <2>4, <3>1, <3>2 DEF HeldBy
  <2>5. CASE x # r
    BY <2>1, <2>5 DEF HeldBy
  <2> QED
    BY <2>4, <2>5
<1>8. CASE Grab(r)
  <2>1. CASE UNCHANGED held
    BY <1>2, <2>1
  <2>2. ASSUME NEW p \in Object, Reserve(r, p), wst[Owner(p)] = "alive", DefOf(p) = rdef[r],
               Owner(p) \in workers \/ \E k \in Container : cached[k] = p
        PROVE  \/ o \in HeldBy(x)
               \/ /\ wst[Owner(o)] = "alive" /\ x = r /\ DefOf(o) = rdef[r]
                  /\ Owner(o) \in workers \/ \E k \in Container : cached[k] = o
    <3>1. pc[r] = "grab"
      BY <1>8 DEF Grab
    <3>2. /\ held' \in [Run -> Seq(Reservation)] /\ Len(held'[r]) = Len(held[r]) + 1
          /\ held'[r][Len(held[r]) + 1].cont = p
          /\ \A m \in 1..Len(held[r]) : held'[r][m] = held[r][m]
          /\ \A y \in Run \ {r} : held'[y] = held[y]
      BY <2>2, <3>1, ReserveTypes
    <3>3. held'[r] \in Seq(Reservation)
      BY <3>2
    <3>4. DOMAIN held'[r] = 1..(Len(held[r]) + 1) /\ DOMAIN held[r] = 1..Len(held[r])
      BY <1>1, <3>2, <3>3
    <3>5. CASE x = r
      <4>1. PICK n \in 1..(Len(held[r]) + 1) : o = held'[r][n].cont
        BY <3>4, <3>5 DEF HeldBy
      <4>2. CASE n = Len(held[r]) + 1
        BY <2>2, <3>2, <3>5, <4>1, <4>2
      <4>3. CASE n # Len(held[r]) + 1
        <5>1. n \in 1..Len(held[r])
          BY <1>1, <4>3
        <5> QED
          BY <3>2, <3>4, <3>5, <4>1, <5>1 DEF HeldBy
      <4> QED
        BY <4>2, <4>3
    <3>6. CASE x # r
      BY <3>2, <3>6 DEF HeldBy
    <3> QED
      BY <3>5, <3>6
  <2> QED
    BY <1>8, <2>1, <2>2, GrabsAlive
<1> QED
  BY <1>2, <1>3, <1>5, <1>6, <1>7, <1>8 DEF RunStep

LEMMA OpenStep ==
  ASSUME TypeInv, Counted, Registered, OpenWhileUsed, [Next]_vars
  PROVE  OpenWhileUsed'
<1>1. \A x \in Run : \A o \in HeldBy(x) : wst[Owner(o)] # "closed"
  BY DEF OpenWhileUsed
<1>2. CASE UNCHANGED <<held, wst>>
  BY <1>1, <1>2 DEF OpenWhileUsed, HeldBy
<1>3. ASSUME NEW r \in Run, RunStep(r)
      PROVE  OpenWhileUsed'
  <2>1. UNCHANGED wst
    BY <1>3 DEF RunStep, Grab, Lock, Attempt, Answer, WorkerError, Settle, AddCache, Disconnect,
                Release, workerVars
  <2>2. \A x \in Run : \A o \in HeldBy(x)' : o \in HeldBy(x) \/ wst[Owner(o)] = "alive"
    BY <1>3, HeldStep
  <2> QED
    BY <1>1, <2>1, <2>2 DEF OpenWhileUsed
<1>4. ASSUME UNCHANGED held,
             \A w \in Worker : wst'[w] = "closed" => wst[w] = "closed" \/ inUse[w] = 0
      PROVE  OpenWhileUsed'
  <2>1. \A x \in Run : \A o \in HeldBy(x) : Owner(o) \in Worker /\ inUse[Owner(o)] # 0
    BY HeldInUse
  <2>2. \A x \in Run : HeldBy(x)' = HeldBy(x)
    BY <1>4 DEF HeldBy
  <2> QED
    BY <1>1, <1>4, <2>1, <2>2 DEF OpenWhileUsed
<1>5. wst \in [Worker -> {"alive", "shut", "closed"}]
  BY DEF TypeInv, TypeOK
<1>6. ASSUME NEW w \in Worker, Register(w) \/ EvictHandler(w) \/ Close(w)
      PROVE  OpenWhileUsed'
  <2>1. \/ wst' = [wst EXCEPT ![w] = "alive"]
        \/ wst' = [wst EXCEPT ![w] = "shut"]
        \/ wst' = [wst EXCEPT ![w] = "closed"] /\ inUse[w] = 0
    BY <1>6 DEF Register, EvictHandler, Close
  <2>2. UNCHANGED held
    BY <1>6 DEF Register, EvictHandler, Close, runVars
  <2> QED
    BY <1>4, <1>5, <2>1, <2>2
<1>7. ASSUME NEW w \in Worker, Evict(w)
      PROVE  OpenWhileUsed'
  BY <1>2, <1>7 DEF Evict, runVars
<1>8. ASSUME NEW r \in Run, NEW d \in Def, Start(r, d)
      PROVE  OpenWhileUsed'
  BY <1>2, <1>8 DEF Start, workerVars
<1>9. ASSUME NEW k \in Container, ContainerRemoved(k) \/ RemoveCache(k)
      PROVE  OpenWhileUsed'
  BY <1>2, <1>9 DEF ContainerRemoved, RemoveCache, workerVars, runVars
<1>10. CASE UNCHANGED vars
  BY <1>2, <1>10 DEF vars, workerVars, runVars
<1> QED
  BY <1>3, <1>6, <1>7, <1>8, <1>9, <1>10 DEF Next

\* An object that no run refers to has no connections.
LEMMA UnusedIsFree ==
  ASSUME TypeInv, Counted, NEW o \in Object, UnusedObject(o)
  PROVE  conns[o] = 0
<1>1. Holders(o) = {}
  <2> SUFFICES ASSUME NEW e \in Holders(o) PROVE FALSE
    OBVIOUS
  <2>1. e[1] \in Run /\ e[2] \in 1..WorkerRetry /\ Taken(e) /\ ContOf(e) = o
    BY DEF Holders, Entry
  <2>2. held[e[1]] \in Seq(Reservation) /\ Len(held[e[1]]) \in Nat
    BY <2>1, HeldType
  <2>3. e[2] \in DOMAIN held[e[1]]
    BY <2>1, <2>2, Constants DEF Taken
  <2>4. o \in HeldBy(e[1])
    BY <2>1, <2>3 DEF HeldBy, ContOf
  <2> QED
    BY <2>1, <2>4 DEF UnusedObject
<1> QED
  BY <1>1, FS_EmptySet DEF Counted

LEMMA LimitStep ==
  ASSUME TypeInv, Counted, Registered, AsyncLimited, [Next]_vars
  PROVE  AsyncLimited'
<1>1. conns \in [Object -> Nat]
  BY DEF TypeInv, TypeOK
<1>2. \A o \in Object : Async[DefOf(o)] \in Nat
  BY ObjectType, Constants
<1>3. \A o \in Object : conns[o] > 1 /\ Async[DefOf(o)] > 1 => conns[o] <= Async[DefOf(o)]
  BY DEF AsyncLimited
<1>4. CASE UNCHANGED conns
  BY <1>3, <1>4 DEF AsyncLimited
<1>5. ASSUME NEW r \in Run, Grab(r)
      PROVE  AsyncLimited'
  <2>1. ASSUME NEW p \in Object, Reserve(r, p), HasConn(p) \/ Async[DefOf(p)] <= 1 \/ UnusedObject(p)
        PROVE  AsyncLimited'
    <3>1. conns' = [conns EXCEPT ![p] = @ + 1]
      BY <2>1 DEF Reserve
    <3>2. UnusedObject(p) => conns[p] = 0
      BY UnusedIsFree
    <3>3. conns[p] < Async[DefOf(p)] \/ Async[DefOf(p)] <= 1 \/ conns[p] = 0
      BY <2>1, <3>2 DEF HasConn
    <3>4. conns'[p] > 1 /\ Async[DefOf(p)] > 1 => conns'[p] <= Async[DefOf(p)]
      BY <1>1, <1>2, <3>1, <3>3
    <3>5. \A o \in Object \ {p} : conns'[o] = conns[o]
      BY <1>1, <3>1
    <3> QED
      BY <1>3, <3>4, <3>5 DEF AsyncLimited
  <2> QED
    BY <1>4, <1>5, <2>1, GrabsAlive
<1>6. ASSUME NEW r \in Run, Disconnect(r)
      PROVE  AsyncLimited'
  <2>1. PICK p \in Object : p = Current(r)
    BY <1>6, CurrentType DEF Disconnect
  <2>2. conns' = [conns EXCEPT ![p] = @ - 1]
    BY <1>6, <2>1 DEF Disconnect
  <2>3. conns'[p] > 1 /\ Async[DefOf(p)] > 1 => conns'[p] <= Async[DefOf(p)]
    BY <1>1, <1>2, <1>3, <2>2
  <2>4. \A o \in Object \ {p} : conns'[o] = conns[o]
    BY <1>1, <2>2
  <2> QED
    BY <1>3, <2>3, <2>4 DEF AsyncLimited
<1>7. ASSUME NEW r \in Run, RunStep(r)
      PROVE  AsyncLimited'
  <2>1. Lock(r) \/ Attempt(r) \/ Answer(r) \/ WorkerError(r) \/ Settle(r) \/ AddCache(r) \/ Release(r)
        => UNCHANGED conns
    BY DEF Lock, Attempt, Answer, WorkerError, Settle, AddCache, Release
  <2> QED
    BY <1>4, <1>5, <1>6, <1>7, <2>1 DEF RunStep
<1>8. ASSUME NEW r \in Run, NEW d \in Def, Start(r, d)
      PROVE  AsyncLimited'
  BY <1>4, <1>8 DEF Start
<1>9. CASE \/ \E w \in Worker : Register(w) \/ Evict(w) \/ EvictHandler(w) \/ Close(w)
           \/ \E k \in Container : ContainerRemoved(k) \/ RemoveCache(k)
  BY <1>4, <1>9, EnvType
<1>10. CASE UNCHANGED vars
  BY <1>4, <1>10 DEF vars
<1> QED
  BY <1>7, <1>8, <1>9, <1>10 DEF Next

-----------------------------------------------------------------------------
(* The invariant *)

LEMMA InitHolds == ASSUME Init PROVE BalancerInv
<1>1. TypeInv
  BY InitType
<1>2. \A e \in Entry : ~Taken(e)
  <2>1. Len(<< >>) = 0
    OBVIOUS
  <2>2. \A e \in Entry : e[1] \in Run /\ e[2] \in 1..WorkerRetry /\ held[e[1]] = << >>
    BY DEF Entry, Init
  <2> QED
    BY <2>1, <2>2, Constants DEF Taken
<1>3. /\ \A o \in Object : Holders(o) = {}
      /\ \A w \in Worker : Users(w) = {}
  BY <1>2 DEF Holders, Users
<1>4. Counted
  BY <1>3, FS_EmptySet DEF Init, Counted
<1>5. Registered
  BY DEF Init, Registered, RegisteredAlive
<1>6. OpenWhileUsed
  BY DEF Init, OpenWhileUsed, HeldBy
<1>7. AsyncLimited
  BY DEF Init, AsyncLimited
<1> QED
  BY <1>1, <1>4, <1>5, <1>6, <1>7 DEF BalancerInv

LEMMA StepHolds == ASSUME BalancerInv, [Next]_vars PROVE BalancerInv'
<1>1. TypeInv /\ Counted /\ Registered /\ OpenWhileUsed /\ AsyncLimited
  BY DEF BalancerInv
<1>2. TypeInv' /\ Counted'
  <2>1. ASSUME NEW r \in Run, RunStep(r)
        PROVE  TypeInv' /\ Counted'
    BY <1>1, <2>1, RunStepType
  <2>2. ASSUME NEW r \in Run, NEW d \in Def, Start(r, d)
        PROVE  TypeInv' /\ Counted'
    BY <1>1, <2>2, StartType
  <2>3. SameEntries /\ UNCHANGED <<conns, inUse>> => Counted'
    BY <1>1, SameCounts
  <2>4. CASE \/ \E w \in Worker : Register(w) \/ Evict(w) \/ EvictHandler(w) \/ Close(w)
             \/ \E k \in Container : ContainerRemoved(k) \/ RemoveCache(k)
    <3>1. TypeInv' /\ UNCHANGED <<conns, inUse, runVars>>
      BY <1>1, <2>4, EnvType
    <3>2. SameEntries
      BY <3>1 DEF SameEntries, runVars
    <3> QED
      BY <2>3, <3>1, <3>2
  <2>5. CASE UNCHANGED vars
    <3>1. SameEntries /\ UNCHANGED <<conns, inUse>>
      BY <2>5 DEF SameEntries, vars, workerVars, runVars
    <3>2. TypeOK'
      BY <1>1, <2>5 DEF TypeInv, TypeOK, vars, workerVars, cacheVars, remoteVars, runVars
    <3>3. Placed' /\ Defined'
      BY <1>1, <2>5 DEF TypeInv, Placed, Defined, vars, remoteVars, runVars
    <3> QED
      BY <2>3, <3>1, <3>2, <3>3 DEF TypeInv
  <2> QED
    BY <2>1, <2>2, <2>4, <2>5 DEF Next
<1>3. Registered'
  BY <1>1, RegisteredStep
<1>4. OpenWhileUsed'
  BY <1>1, OpenStep
<1>5. AsyncLimited'
  BY <1>1, LimitStep
<1> QED
  BY <1>2, <1>3, <1>4, <1>5 DEF BalancerInv

LEMMA Invariance == Spec => []BalancerInv
<1>1. Init => BalancerInv
  BY InitHolds
<1>2. BalancerInv /\ [Next]_vars => BalancerInv'
  BY StepHolds
<1> QED
  BY <1>1, <1>2, PTL DEF Spec

-----------------------------------------------------------------------------

\* Every variable keeps its type; in particular neither the connections of a
\* container nor the calls to a worker are ever given back once too often.
THEOREM TypeCorrect == Spec => []TypeOK
<1>1. BalancerInv => TypeOK
  BY DEF BalancerInv, TypeInv
<1> QED
  BY <1>1, Invariance, PTL

\* A registered worker is alive, whoever evicts it and whenever its handler runs.
THEOREM WorkersAlive == Spec => []RegisteredAlive
<1>1. BalancerInv => RegisteredAlive
  BY DEF BalancerInv, Registered
<1> QED
  BY <1>1, Invariance, PTL

\* The connection to a worker stays open as long as a run has reserved it.
THEOREM StaysOpen == Spec => []OpenWhileUsed
<1>1. BalancerInv => OpenWhileUsed
  BY DEF BalancerInv
<1> QED
  BY <1>1, Invariance, PTL

\* Runs never share an async container beyond its number of connections.
THEOREM StaysLimited == Spec => []AsyncLimited
<1>1. BalancerInv => AsyncLimited
  BY DEF BalancerInv
<1> QED
  BY <1>1, Invariance, PTL
=============================================================================
