-------------------------- MODULE UserCacheProofs ---------------------------
(***************************************************************************)
(* What holds of the cache for every number of containers, keys and        *)
(* commands, every limit and every mix of the pipelines in Redis: the      *)
(* bound of the list of evictable values, the replies that the promises of *)
(* the wrapper get, and the recorded size.                                 *)
(***************************************************************************)
EXTENDS UserCache, UnitSets, WellFoundedInduction, SequenceTheorems

-----------------------------------------------------------------------------
(* The list of what can be evicted                                         *)

\* What the wrapper does with a chunk of replies.
Receive(c) == SocketData(c) \/ SplitLength(c) \/ ReadAstray(c)

\* The SETs that have put their key into zset and have yet to run the pop script.
Popping == {c \in Container : pc[c] \in {"hset", "incr", "pop"}}

\* ListBounded with the types that its induction needs: zset stays finite whatever
\* it holds.
BoundInv ==
  /\ pc \in [Container -> {"ready", "zadd", "hset", "incr", "pop", "gone"}]
  /\ unpopped \in Nat
  /\ IsFiniteSet(zset)
  /\ Cardinality(zset) <= CardinalityLimit + unpopped + Cardinality(Popping)

\* Cardinalities are numbers.
LEMMA Counts ==
  ASSUME IsFiniteSet(zset)
  PROVE  /\ IsFiniteSet(Popping) /\ Cardinality(Popping) \in Nat
         /\ Cardinality(zset) \in Nat /\ CardinalityLimit \in Nat
<1>1. IsFiniteSet(Popping)
  BY UserCacheAssumption, FS_Subset DEF Popping
<1> QED
  BY <1>1, UserCacheAssumption, FS_CardinalityType

\* One SET more, or one less, that has yet to pop.
LEMMA JoinsPopping ==
  ASSUME BoundInv, NEW c \in Container, c \notin Popping, Popping' = Popping \cup {c}
  PROVE  Cardinality(Popping') = Cardinality(Popping) + 1
  BY Counts, FS_AddElement DEF BoundInv

LEMMA LeavesPopping ==
  ASSUME BoundInv, NEW c \in Container, c \in Popping, Popping' = Popping \ {c}
  PROVE  Cardinality(Popping') = Cardinality(Popping) - 1
  BY Counts, FS_RemoveElement DEF BoundInv

\* The commands of a SET and the end of a stream.
LEMMA ProcessBound ==
  ASSUME BoundInv, NEW c \in Container, ProcessStep(c) \/ Refuse(c) \/ Cut(c)
  PROVE  BoundInv'
<1>0. /\ IsFiniteSet(Popping) /\ Cardinality(Popping) \in Nat
      /\ Cardinality(zset) \in Nat /\ CardinalityLimit \in Nat
  BY Counts DEF BoundInv
<1>1. CASE Get(c) \/ DecrSize(c) \/ Refuse(c)
  <2>1. /\ pc' \in [Container -> {"ready", "zadd", "hset", "incr", "pop", "gone"}]
        /\ UNCHANGED <<zset, unpopped>>
    BY <1>1 DEF Get, DecrSize, Refuse, BoundInv, redisVars
  <2>2. Popping' = Popping
    BY <1>1 DEF Get, DecrSize, Refuse, Takes, Popping, BoundInv
  <2> QED
    BY <2>1, <2>2 DEF BoundInv
<1>2. CASE ZAdd(c)
  <2> DEFINE k == current(c).key
  <2>1. /\ pc[c] = "zadd" /\ pc' = [pc EXCEPT ![c] = "hset"]
        /\ zset' = zset \cup {k} /\ unpopped' = unpopped
    BY <1>2 DEF ZAdd
  <2> HIDE DEF k
  <2>2. c \notin Popping /\ Popping' = Popping \cup {c}
    BY <2>1 DEF Popping, BoundInv
  <2>3. IsFiniteSet(zset') /\ Cardinality(zset') <= Cardinality(zset) + 1
    BY <1>0, <2>1, FS_AddElement DEF BoundInv
  <2>4. Cardinality(zset') \in Nat
    BY <2>3, FS_CardinalityType
  <2> QED
    BY <1>0, <2>1, <2>2, <2>3, <2>4, JoinsPopping DEF BoundInv
<1>3. CASE HSet(c)
  <2>1. /\ pc[c] = "hset" /\ pc' = [pc EXCEPT ![c] = "incr"]
        /\ UNCHANGED <<zset, unpopped>>
    BY <1>3 DEF HSet
  <2>2. Popping' = Popping
    BY <2>1 DEF Popping, BoundInv
  <2> QED
    BY <2>1, <2>2 DEF BoundInv
<1>4. CASE HIncrBy(c)
  <2>1. CASE c \in erred
    <3>1. /\ pc[c] = "incr" /\ pc' = [pc EXCEPT ![c] = "gone"]
          /\ zset' = zset /\ unpopped' = unpopped + 1
      BY <1>4, <2>1 DEF HIncrBy
    <3>2. c \in Popping /\ Popping' = Popping \ {c}
      BY <3>1 DEF Popping, BoundInv
    <3> QED
      BY <1>0, <3>1, <3>2, LeavesPopping DEF BoundInv
  <2>2. CASE c \notin erred
    <3>1. /\ pc[c] = "incr" /\ pc' = [pc EXCEPT ![c] = "pop"]
          /\ UNCHANGED <<zset, unpopped>>
      BY <1>4, <2>2 DEF HIncrBy
    <3>2. Popping' = Popping
      BY <3>1 DEF Popping, BoundInv
    <3> QED
      BY <3>1, <3>2 DEF BoundInv
  <2> QED
    BY <2>1, <2>2
<1>5. CASE Pop(c)
  <2>1. pc[c] = "pop" /\ unpopped' = unpopped
    BY <1>5 DEF Pop
  <2>2. pc' = [pc EXCEPT ![c] = "ready"] \/ pc' = [pc EXCEPT ![c] = "gone"]
    BY <1>5 DEF Pop
  <2>3. c \in Popping /\ Popping' = Popping \ {c}
    BY <2>1, <2>2 DEF Popping, BoundInv
  <2>4. Cardinality(Popping') = Cardinality(Popping) - 1 /\ Cardinality(Popping') \in Nat
    <3>1. IsFiniteSet(Popping \ {c}) /\ Cardinality(Popping \ {c}) \in Nat
      BY <1>0, FS_RemoveElement, FS_CardinalityType
    <3> QED
      BY <2>3, <3>1, LeavesPopping
  <2>5. CASE Full /\ zset = {}
    <3>1. zset' = {}
      BY <1>5, <2>5 DEF Pop
    <3>2. IsFiniteSet(zset') /\ Cardinality(zset') = 0
      BY <3>1, FS_EmptySet
    <3> QED
      BY <1>0, <2>1, <2>2, <2>4, <3>2 DEF BoundInv
  <2>6. CASE Full /\ zset # {}
    <3>1. PICK k \in zset : zset' = zset \ {k}
      BY <1>5, <2>6 DEF Pop
    <3>2. IsFiniteSet(zset') /\ Cardinality(zset') = Cardinality(zset) - 1
      BY <3>1, FS_RemoveElement DEF BoundInv
    <3> QED
      BY <1>0, <2>1, <2>2, <2>4, <3>2 DEF BoundInv
  <2>7. CASE ~Full
    <3>1. zset' = zset /\ Cardinality(zset) <= CardinalityLimit
      BY <1>0, <1>5, <2>7 DEF Pop, Full
    <3> QED
      BY <1>0, <2>1, <2>2, <2>4, <3>1 DEF BoundInv
  <2> QED
    BY <2>5, <2>6, <2>7
<1>6. CASE NoPop(c)
  <2>1. /\ pc[c] = "pop" /\ pc' = [pc EXCEPT ![c] = "gone"]
        /\ zset' = zset /\ unpopped' = unpopped + 1
    BY <1>6 DEF NoPop, redisVars
  <2>2. c \in Popping /\ Popping' = Popping \ {c}
    BY <2>1 DEF Popping, BoundInv
  <2> QED
    BY <1>0, <2>1, <2>2, LeavesPopping DEF BoundInv
<1>7. CASE Cut(c)
  <2>1. pc' = [pc EXCEPT ![c] = "gone"] /\ zset' = zset
    BY <1>7 DEF Cut, redisVars
  <2>2. CASE c \in Popping
    <3>1. unpopped' = unpopped + 1
      BY <1>7, <2>2 DEF Cut, Popping
    <3>2. Popping' = Popping \ {c}
      BY <2>1 DEF Popping, BoundInv
    <3> QED
      BY <1>0, <2>1, <2>2, <3>1, <3>2, LeavesPopping DEF BoundInv
  <2>3. CASE c \notin Popping
    <3>1. unpopped' = unpopped /\ Popping' = Popping
      BY <1>7, <2>1, <2>3 DEF Cut, Popping, BoundInv
    <3> QED
      BY <2>1, <3>1 DEF BoundInv
  <2> QED
    BY <2>2, <2>3
<1> QED
  BY <1>1, <1>2, <1>3, <1>4, <1>5, <1>6, <1>7 DEF ProcessStep

LEMMA BoundStep == BoundInv /\ [Next]_vars => BoundInv'
<1> SUFFICES ASSUME BoundInv, [Next]_vars PROVE BoundInv'
  OBVIOUS
<1>1. ASSUME NEW c \in Container, ProcessStep(c) \/ Refuse(c) \/ Cut(c) PROVE BoundInv'
  BY <1>1, ProcessBound
<1>2. ASSUME zset' = zset \/ zset' = {}, UNCHANGED <<pc, unpopped>> PROVE BoundInv'
  <2>1. Popping' = Popping /\ IsFiniteSet(zset')
    BY <1>2, FS_EmptySet DEF Popping, BoundInv
  <2>2. Cardinality(zset') <= Cardinality(zset)
    BY <1>2, Counts, FS_EmptySet DEF BoundInv
  <2>3. Cardinality(zset') \in Nat
    BY <2>1, FS_CardinalityType
  <2> QED
    BY <1>2, <2>1, <2>2, <2>3, Counts DEF BoundInv
<1>3. ASSUME NEW c \in Container, SendCommand(c) \/ Receive(c) PROVE BoundInv'
  BY <1>2, <1>3 DEF SendCommand, Receive, SocketData, SplitLength, ReadAstray, redisVars, workerVars
<1>4. CASE Expire \/ Restart \/ UNCHANGED vars
  BY <1>2, <1>4 DEF Expire, Restart, Lose, vars, redisVars, workerVars
<1> QED
  BY <1>1, <1>3, <1>4 DEF Next, Receive

\* However the pipelines of a user's containers are mixed, cut or refused, his list
\* of evictable values exceeds the limit only by SETs that have yet to run the pop
\* script, or have ended before it (processSET in app/script/user_cache.go).
THEOREM ListStaysBounded == Spec => []ListBounded
<1>1. Init => BoundInv
  <2> SUFFICES ASSUME Init PROVE BoundInv
    OBVIOUS
  <2>1. IsFiniteSet(zset) /\ Cardinality(zset) = 0
    BY FS_EmptySet DEF Init
  <2> QED
    BY <2>1, Counts DEF Init, BoundInv
<1>2. BoundInv => ListBounded
  BY DEF BoundInv, ListBounded, Popping
<1> QED
  BY <1>1, <1>2, BoundStep, PTL DEF Spec

-----------------------------------------------------------------------------
(* Induction over the numbers, from the library's facts about well-founded *)
(* relations                                                               *)

LEMMA Least ==
  ASSUME NEW T, T \subseteq Nat, T # {}
  PROVE  \E x \in T : \A y \in T : x <= y
<1>1. PICK R : R = OpToRel(<, Nat)
  OBVIOUS
<1>2. IsWellFoundedOn(R, Nat)
  BY <1>1, NatLessThanWellFounded
<1>3. PICK x \in T : \A y \in T : ~(<<y, x>> \in R)
  BY <1>2, WFMin
<1>4. \A y \in Nat : <<y, x>> \in R <=> y < x
  BY <1>1, <1>3 DEF OpToRel
<1>5. \A y \in T : ~(y < x)
  BY <1>3, <1>4
<1>6. \A y \in T : x <= y
  <2> TAKE y \in T
  <2>1. x \in Nat /\ y \in Nat /\ ~(y < x)
    BY <1>5
  <2> QED
    BY <2>1
<1> QED
  BY <1>6

LEMMA NumberInduction ==
  ASSUME NEW P, 0 \in P, \A n \in Nat : n \in P => n + 1 \in P
  PROVE  Nat \subseteq P
<1> SUFFICES ASSUME Nat \ P # {} PROVE FALSE
  OBVIOUS
<1>1. PICK T : T = Nat \ P
  OBVIOUS
<1>2. PICK x \in T : \A y \in T : x <= y
  BY <1>1, Least
<1>3. x \in Nat /\ x # 0
  BY <1>1
<1>4. x - 1 \in Nat /\ x - 1 \notin T
  BY <1>2, <1>3
<1> QED
  BY <1>1, <1>3, <1>4

-----------------------------------------------------------------------------
(* The parts of replies on their way *)

\* The number of the reply that a part belongs to, or of the next one if the part
\* completes it.
After(p) == IF p[2] = "length" THEN p[1] ELSE p[1] + 1

\* Each part goes on where the one before it ended.
InOrder(w) ==
  /\ \A i \in DOMAIN w : i + 1 \in DOMAIN w => w[i + 1][1] = After(w[i])
  /\ \A i, j \in DOMAIN w : i <= j => After(w[i]) <= After(w[j])

\* The numbers from m on, n - m of them.
From(m, n) == [i \in 1..(n - m) |-> m + i - 1]

LEMMA AfterNumber ==
  ASSUME NEW w \in Seq(Part), NEW i \in DOMAIN w
  PROVE  w[i][1] \in Nat /\ After(w[i]) \in Nat /\ w[i][1] <= After(w[i])
                         /\ After(w[i]) <= w[i][1] + 1
  BY DEF Part, After

\* What Complete computes, without the recursion: the replies from that of the
\* first part to the last one that is complete.
LEMMA CompleteIs ==
  ASSUME NEW w \in Seq(Part), w # <<>>, InOrder(w)
  PROVE  /\ Complete(w) = From(w[1][1], After(w[Len(w)]))
         /\ w[1][1] <= After(w[Len(w)])
<1>1. PICK m : m = w[1][1]
  OBVIOUS
<1>2. Len(w) \in Nat \ {0} /\ DOMAIN w = 1..Len(w) /\ 1 \in DOMAIN w
  OBVIOUS
<1>3. \A i \in DOMAIN w : /\ w[i][1] \in Nat /\ After(w[i]) \in Nat
                          /\ w[i][1] <= After(w[i])
  BY AfterNumber
<1>4. m \in Nat
  BY <1>1, <1>2, <1>3
<1>5. \A i \in DOMAIN w : m <= After(w[i])
  BY <1>1, <1>2, <1>3 DEF InOrder
<1>6. m <= After(w[Len(w)])
  BY <1>2, <1>5
<1> DEFINE Body(g, n) ==
      IF n = 0 THEN <<>>
      ELSE IF w[n][2] = "length" THEN g[n - 1] ELSE Append(g[n - 1], w[n][1])
<1> DEFINE h == [n \in 0..Len(w) |-> IF n = 0 THEN <<>> ELSE From(m, After(w[n]))]
<1>7. h = [n \in 0..Len(w) |-> Body(h, n)]
  <2> SUFFICES ASSUME NEW n \in 0..Len(w) PROVE h[n] = Body(h, n)
    OBVIOUS
  <2>1. CASE n = 0
    BY <2>1
  <2>2. CASE n = 1
    <3>1. w[n][1] = m /\ h[n - 1] = <<>> /\ h[n] = From(m, After(w[n]))
      BY <1>1, <1>2, <2>2
    <3>2. CASE w[n][2] = "length"
      <4>1. After(w[n]) = m
        BY <3>1, <3>2 DEF After
      <4>2. From(m, m) = <<>>
        BY <1>4 DEF From
      <4> QED
        BY <2>2, <3>1, <3>2, <4>1, <4>2
    <3>3. CASE w[n][2] # "length"
      <4>1. After(w[n]) = m + 1
        BY <3>1, <3>3 DEF After
      <4>2. From(m, m + 1) = Append(<<>>, m)
        BY <1>4 DEF From
      <4> QED
        BY <2>2, <3>1, <3>3, <4>1, <4>2
    <3> QED
      BY <3>2, <3>3
  <2>3. CASE n > 1
    <3>1. n - 1 \in DOMAIN w /\ n \in DOMAIN w /\ (n - 1) + 1 = n
      BY <1>2, <2>3
    <3>2. w[n][1] = After(w[n - 1])
      BY <3>1 DEF InOrder
    <3>3. h[n - 1] = From(m, w[n][1]) /\ h[n] = From(m, After(w[n]))
      BY <1>2, <2>3, <3>1, <3>2
    <3>4. w[n][1] \in Nat /\ m <= w[n][1]
      BY <1>3, <1>5, <3>1, <3>2
    <3>5. CASE w[n][2] = "length"
      <4>1. After(w[n]) = w[n][1]
        BY <3>5 DEF After
      <4> QED
        BY <2>3, <3>3, <3>5, <4>1
    <3>6. CASE w[n][2] # "length"
      <4>1. After(w[n]) = w[n][1] + 1
        BY <3>6 DEF After
      <4>2. \A k \in Nat : m <= k => From(m, k + 1) = Append(From(m, k), k)
        BY <1>4 DEF From
      <4>3. From(m, w[n][1] + 1) = Append(From(m, w[n][1]), w[n][1])
        BY <3>4, <4>2
      <4>4. h[n] = Append(h[n - 1], w[n][1])
        BY <3>3, <4>1, <4>3
      <4> QED
        BY <2>3, <3>6, <4>4
    <3> QED
      BY <3>5, <3>6
  <2> QED
    BY <2>1, <2>2, <2>3
<1> HIDE DEF h
<1>8. PICK f : /\ f = CHOOSE g : g = [n \in 0..Len(w) |-> Body(g, n)]
               /\ Complete(w) = f[Len(w)]
  BY DEF Complete
<1>9. f = [n \in 0..Len(w) |-> Body(f, n)]
  BY <1>7, <1>8
<1>10. \A n \in 0..Len(w) : f[n] = h[n]
  <2> DEFINE P == {n \in Nat : n <= Len(w) => f[n] = h[n]}
  <2>1. 0 \in P
    BY <1>2, <1>7, <1>9
  <2>2. ASSUME NEW n \in Nat, n \in P PROVE n + 1 \in P
    <3> SUFFICES ASSUME n + 1 <= Len(w) PROVE f[n + 1] = h[n + 1]
      OBVIOUS
    <3>1. f[n] = h[n] /\ n + 1 \in 0..Len(w) /\ (n + 1) - 1 = n
      BY <1>2, <2>2
    <3>2. f[n + 1] = Body(f, n + 1) /\ h[n + 1] = Body(h, n + 1)
      BY <1>7, <1>9, <3>1
    <3> QED
      BY <3>1, <3>2
  <2> HIDE DEF P
  <2>3. Nat \subseteq P
    BY <2>1, <2>2, NumberInduction
  <2> QED
    BY <1>2, <2>3 DEF P
<1>11. h[Len(w)] = From(m, After(w[Len(w)]))
  BY <1>2 DEF h
<1> QED
  BY <1>1, <1>2, <1>6, <1>8, <1>10, <1>11

\* Of a chunk, Read returns a beginning that ends with its first nil, or all of it.
LEMMA ReadIs ==
  ASSUME NEW w \in Seq(Part), w # <<>>
  PROVE  \E m \in 1..Len(w) : Read(w) = SubSeq(w, 1, m) /\ (Read(w) = w \/ m < Len(w))
<1>1. DOMAIN w = 1..Len(w) /\ Len(w) \in Nat \ {0} /\ SubSeq(w, 1, Len(w)) = w
  OBVIOUS
<1>2. PICK nils : nils = {i \in DOMAIN w : w[i][2] = "nil"}
  OBVIOUS
<1>3. Read(w) = IF nils = {} THEN w ELSE SubSeq(w, 1, Min(nils))
  BY <1>2 DEF Read
<1>4. CASE nils = {}
  <2>1. Read(w) = w /\ Len(w) \in 1..Len(w)
    BY <1>1, <1>3, <1>4
  <2>2. Read(w) = SubSeq(w, 1, Len(w))
    BY <1>1, <2>1
  <2> QED
    BY <2>1, <2>2
<1>5. CASE nils # {}
  <2>1. PICK x \in nils : \A y \in nils : x <= y
    BY <1>1, <1>2, <1>5, Least
  <2>2. Min(nils) \in nils
    BY <2>1 DEF Min
  <2>3. Min(nils) \in 1..Len(w)
    BY <1>1, <1>2, <2>2
  <2> QED
    BY <1>1, <1>3, <1>5, <2>3
<1> QED
  BY <1>4, <1>5

\* A chunk and what is left of a stream are in order, and so are two streams of
\* which the second goes on where the first ends.
LEMMA PiecesInOrder ==
  ASSUME NEW w \in Seq(Part), InOrder(w), NEW m \in 1..(Len(w) + 1), NEW n \in 0..Len(w),
         m <= n + 1
  PROVE  SubSeq(w, m, n) \in Seq(Part) /\ InOrder(SubSeq(w, m, n))
<1>1. Len(w) \in Nat /\ DOMAIN w = 1..Len(w)
  OBVIOUS
<1>2. PICK s : s = SubSeq(w, m, n)
  OBVIOUS
<1>3. /\ s \in Seq(Part) /\ DOMAIN s = 1..(n - m + 1)
      /\ \A i \in DOMAIN s : s[i] = w[m + i - 1] /\ m + i - 1 \in DOMAIN w
  BY <1>1, <1>2
<1>4. ASSUME NEW i \in DOMAIN s, i + 1 \in DOMAIN s PROVE s[i + 1][1] = After(s[i])
  <2>1. /\ s[i] = w[m + i - 1] /\ m + i - 1 \in DOMAIN w
        /\ s[i + 1] = w[m + (i + 1) - 1] /\ m + (i + 1) - 1 \in DOMAIN w
    BY <1>3, <1>4
  <2>2. m + (i + 1) - 1 = (m + i - 1) + 1
    BY <1>3
  <2> QED
    BY <2>1, <2>2 DEF InOrder
<1>5. ASSUME NEW i \in DOMAIN s, NEW j \in DOMAIN s, i <= j PROVE After(s[i]) <= After(s[j])
  <2>1. /\ s[i] = w[m + i - 1] /\ m + i - 1 \in DOMAIN w
        /\ s[j] = w[m + j - 1] /\ m + j - 1 \in DOMAIN w
    BY <1>3
  <2>2. m + i - 1 <= m + j - 1
    BY <1>3, <1>5
  <2> QED
    BY <2>1, <2>2 DEF InOrder
<1>6. InOrder(s)
  BY <1>4, <1>5 DEF InOrder
<1> QED
  BY <1>2, <1>3, <1>6

LEMMA JoinInOrder ==
  ASSUME NEW w \in Seq(Part), InOrder(w), NEW t \in Seq(Part), InOrder(t), t # <<>>,
         w # <<>> => After(w[Len(w)]) = t[1][1]
  PROVE  /\ w \o t \in Seq(Part) /\ w \o t # <<>> /\ InOrder(w \o t)
         /\ (w \o t)[1] = IF w = <<>> THEN t[1] ELSE w[1]
         /\ (w \o t)[Len(w \o t)] = t[Len(t)]
<1>1. /\ Len(w) \in Nat /\ DOMAIN w = 1..Len(w)
      /\ Len(t) \in Nat \ {0} /\ DOMAIN t = 1..Len(t)
  OBVIOUS
<1>2. PICK s : s = w \o t
  OBVIOUS
<1>3. /\ s \in Seq(Part) /\ Len(s) = Len(w) + Len(t) /\ DOMAIN s = 1..(Len(w) + Len(t))
      /\ \A i \in DOMAIN w : s[i] = w[i]
      /\ \A i \in DOMAIN s \ DOMAIN w : s[i] = t[i - Len(w)] /\ i - Len(w) \in DOMAIN t
  BY <1>1, <1>2
<1>4. ASSUME NEW i \in DOMAIN s, i + 1 \in DOMAIN s PROVE s[i + 1][1] = After(s[i])
  <2>1. CASE i + 1 \in DOMAIN w
    <3>1. i \in DOMAIN w
      BY <1>1, <1>3, <2>1
    <3> QED
      BY <1>3, <2>1, <3>1 DEF InOrder
  <2>2. CASE i = Len(w)
    <3>1. i \in DOMAIN w /\ w # <<>> /\ i + 1 \notin DOMAIN w /\ (i + 1) - Len(w) = 1
      BY <1>1, <1>3, <2>2
    <3> QED
      BY <1>3, <1>4, <2>2, <3>1
  <2>3. CASE i > Len(w)
    <3>1. /\ i \notin DOMAIN w /\ i + 1 \notin DOMAIN w
          /\ (i + 1) - Len(w) = (i - Len(w)) + 1
      BY <1>1, <1>3, <2>3
    <3>2. s[i] = t[i - Len(w)] /\ s[i + 1] = t[(i - Len(w)) + 1]
          /\ i - Len(w) \in DOMAIN t /\ (i - Len(w)) + 1 \in DOMAIN t
      BY <1>3, <1>4, <3>1
    <3> QED
      BY <3>2 DEF InOrder
  <2> QED
    BY <1>1, <1>3, <2>1, <2>2, <2>3
<1>5. ASSUME NEW i \in DOMAIN s, NEW j \in DOMAIN s, i <= j PROVE After(s[i]) <= After(s[j])
  <2>1. CASE j \in DOMAIN w
    <3>1. i \in DOMAIN w
      BY <1>1, <1>3, <1>5, <2>1
    <3> QED
      BY <1>3, <1>5, <2>1, <3>1 DEF InOrder
  <2>2. CASE i \notin DOMAIN w
    <3>1. j \notin DOMAIN w /\ i - Len(w) <= j - Len(w)
      BY <1>1, <1>3, <1>5, <2>2
    <3>2. /\ s[i] = t[i - Len(w)] /\ i - Len(w) \in DOMAIN t
          /\ s[j] = t[j - Len(w)] /\ j - Len(w) \in DOMAIN t
      BY <1>3, <2>2, <3>1
    <3> QED
      BY <3>1, <3>2 DEF InOrder
  <2>3. CASE i \in DOMAIN w /\ j \notin DOMAIN w
    <3>1. /\ s[i] = w[i] /\ s[j] = t[j - Len(w)]
          /\ j - Len(w) \in DOMAIN t /\ 1 \in DOMAIN t /\ 1 <= j - Len(w)
          /\ Len(w) \in DOMAIN w /\ i <= Len(w) /\ w # <<>>
      BY <1>1, <1>3, <2>3
    <3>2. After(w[i]) <= After(w[Len(w)])
      BY <2>3, <3>1 DEF InOrder
    <3>3. After(t[1]) <= After(t[j - Len(w)])
      BY <3>1 DEF InOrder
    <3>4. After(w[Len(w)]) <= After(t[1])
      BY <3>1, AfterNumber
    <3>5. /\ After(w[i]) \in Nat /\ After(w[Len(w)]) \in Nat /\ After(t[1]) \in Nat
          /\ After(t[j - Len(w)]) \in Nat
      BY <2>3, <3>1, AfterNumber
    <3> QED
      BY <3>1, <3>2, <3>3, <3>4, <3>5
  <2> QED
    BY <2>1, <2>2, <2>3
<1>6. InOrder(s)
  BY <1>4, <1>5 DEF InOrder
<1>7. s[1] = IF w = <<>> THEN t[1] ELSE w[1]
  <2>1. CASE w = <<>>
    BY <1>1, <1>3, <2>1
  <2>2. CASE w # <<>>
    BY <1>1, <1>3, <2>2
  <2> QED
    BY <2>1, <2>2
<1>8. s[Len(s)] = t[Len(t)] /\ s # <<>>
  BY <1>1, <1>3
<1> QED
  BY <1>2, <1>3, <1>6, <1>7, <1>8

\* The parts of one reply.
LEMMA ReplyParts ==
  ASSUME NEW c, NEW n \in Nat, NEW len, Reply(c, n, len)
  PROVE  \E t \in Seq(Part) :
           /\ wire' = [wire EXCEPT ![c] = @ \o t]
           /\ t # <<>> /\ InOrder(t) /\ t[1][1] = n /\ After(t[Len(t)]) = n + 1
<1>1. CASE len = None
  <2>1. PICK t : t = << <<n, "nil">> >>
    OBVIOUS
  <2>2. t \in Seq(Part) /\ t # <<>> /\ Len(t) = 1 /\ t[1] = <<n, "nil">>
    BY <2>1 DEF Part
  <2>3. InOrder(t) /\ t[1][1] = n /\ After(t[Len(t)]) = n + 1
    BY <2>2 DEF InOrder, After
  <2>4. wire' = [wire EXCEPT ![c] = @ \o t]
    <3>1. len # 0
      BY <1>1, UserCacheAssumption
    <3> QED
      BY <1>1, <2>1, <3>1 DEF Reply
  <2> QED
    BY <2>2, <2>3, <2>4
<1>2. CASE len # None /\ len = 0
  <2>1. PICK t : t = << <<n, "empty">> >>
    OBVIOUS
  <2>2. t \in Seq(Part) /\ t # <<>> /\ Len(t) = 1 /\ t[1] = <<n, "empty">>
    BY <2>1 DEF Part
  <2>3. InOrder(t) /\ t[1][1] = n /\ After(t[Len(t)]) = n + 1
    BY <2>2 DEF InOrder, After
  <2>4. wire' = [wire EXCEPT ![c] = @ \o t]
    BY <1>2, <2>1 DEF Reply
  <2> QED
    BY <2>2, <2>3, <2>4
<1>3. CASE len # None /\ len # 0
  <2>1. PICK t : t = << <<n, "length">>, <<n, "value">> >>
    OBVIOUS
  <2>2. /\ t \in Seq(Part) /\ t # <<>> /\ Len(t) = 2
        /\ t[1] = <<n, "length">> /\ t[2] = <<n, "value">>
    BY <2>1 DEF Part
  <2>3. /\ t[1][1] = n /\ After(t[1]) = n /\ After(t[2]) = n + 1 /\ t[2][1] = n
        /\ After(t[Len(t)]) = n + 1 /\ DOMAIN t = 1..2
    BY <2>2 DEF After
  <2>4. InOrder(t)
    BY <2>2, <2>3 DEF InOrder
  <2>5. wire' = [wire EXCEPT ![c] = @ \o t]
    BY <1>3, <2>1 DEF Reply
  <2> QED
    BY <2>2, <2>3, <2>4, <2>5
<1> QED
  BY <1>1, <1>2, <1>3

-----------------------------------------------------------------------------
(* The types, and that a pipeline is that of a SET which has been read     *)

Piping == {"zadd", "hset", "incr", "pop"}

RedisTypes ==
  /\ hset \in [Key -> Nat \cup {None}]
  /\ size \in Int
  /\ zset \in SUBSET Key
  /\ scripts \in BOOLEAN
  /\ drifted \in BOOLEAN
  /\ unpopped \in Nat

WorkerTypes ==
  /\ pc \in [Container -> {"ready", "zadd", "hset", "incr", "pop", "gone"}]
  /\ taken \in [Container -> Nat]
  /\ erred \in SUBSET Container
  /\ issued \in [Container -> Seq(Command)]
  /\ \A c \in Container : taken[c] <= Len(issued[c])
  /\ \A c \in Container : pc[c] \in Piping => taken[c] > 0 /\ current(c).op = "SET"

ClientTypes ==
  /\ wire \in [Container -> Seq(Part)]
  /\ answered \in [Container -> Seq(Nat)]
  /\ inValue \in SUBSET Container /\ dropped \in SUBSET Container
  /\ astray \in SUBSET dropped

LEMMA CommandTypes ==
  ASSUME NEW command \in Command
  PROVE  /\ command.op \in {"GET", "SET"} /\ command.key \in Key
         /\ command.op = "SET" => command.len \in Nat
  BY UserCacheAssumption DEF Command

LEMMA CurrentTypes ==
  ASSUME WorkerTypes, NEW c \in Container, pc[c] \in Piping
  PROVE  current(c).key \in Key /\ current(c).len \in Nat
<1>1. taken[c] \in 1..Len(issued[c])
  BY DEF WorkerTypes
<1>2. current(c) \in Command /\ current(c).op = "SET"
  BY <1>1 DEF WorkerTypes, current
<1> QED
  BY <1>2, CommandTypes

\* What Process does when it reads a command.
LEMMA TakesTypes ==
  ASSUME WorkerTypes, NEW c \in Container, NEW op, Takes(c, op)
  PROVE  /\ taken' = [taken EXCEPT ![c] = taken[c] + 1] /\ taken'[c] = taken[c] + 1
         /\ taken' \in [Container -> Nat] /\ taken'[c] <= Len(issued[c])
         /\ pc[c] = "ready"
         /\ issued[c][taken'[c]] \in Command /\ issued[c][taken'[c]].op = op
         /\ issued[c][taken'[c]].key \in Key
<1>1. /\ pc[c] = "ready" /\ taken[c] < Len(issued[c])
      /\ issued[c][taken[c] + 1].op = op
      /\ taken' = [taken EXCEPT ![c] = taken[c] + 1]
  BY DEF Takes
<1>2. taken[c] \in Nat /\ issued[c] \in Seq(Command)
  BY DEF WorkerTypes
<1>3. taken[c] + 1 \in 1..Len(issued[c])
  BY <1>1, <1>2
<1>4. taken'[c] = taken[c] + 1 /\ taken' \in [Container -> Nat]
  BY <1>1, <1>2 DEF WorkerTypes
<1>5. issued[c][taken'[c]] \in Command
  BY <1>2, <1>3, <1>4
<1>6. issued[c][taken'[c]].key \in Key
  BY <1>5, CommandTypes
<1> QED
  BY <1>1, <1>3, <1>4, <1>5, <1>6

LEMMA WorkerStep ==
  ASSUME WorkerTypes, [Next]_vars
  PROVE  WorkerTypes'
<1>1. ASSUME NEW c \in Container, SendCommand(c) PROVE WorkerTypes'
  <2>1. Commands[c] \in Seq(SUBSET Command) /\ Len(issued[c]) \in Nat
    BY UserCacheAssumption DEF WorkerTypes
  <2>2. Len(issued[c]) + 1 \in 1..Len(Commands[c])
    BY <1>1, <2>1 DEF SendCommand
  <2>3. PICK command \in Commands[c][Len(issued[c]) + 1] :
          issued' = [issued EXCEPT ![c] = Append(@, command)]
    BY <1>1 DEF SendCommand
  <2>4. command \in Command
    BY <2>1, <2>2, <2>3
  <2>5. UNCHANGED <<pc, taken, erred>>
    BY <1>1 DEF SendCommand, workerVars
  <2>6. issued' \in [Container -> Seq(Command)]
    BY <2>3, <2>4 DEF WorkerTypes
  <2>7. ASSUME NEW d \in Container
        PROVE  /\ Len(issued[d]) <= Len(issued'[d]) /\ Len(issued'[d]) \in Nat
               /\ \A i \in 1..Len(issued[d]) : issued'[d][i] = issued[d][i]
    <3>1. CASE d = c
      <4>1. issued'[d] = Append(issued[d], command) /\ issued[d] \in Seq(Command)
        BY <2>3, <3>1 DEF WorkerTypes
      <4> QED
        BY <2>4, <4>1
    <3>2. CASE d # c
      BY <2>3, <3>2 DEF WorkerTypes
    <3> QED
      BY <3>1, <3>2
  <2>8. ASSUME NEW d \in Container PROVE taken'[d] <= Len(issued'[d])
    <3>1. taken[d] \in Nat /\ Len(issued[d]) \in Nat /\ taken[d] <= Len(issued[d])
      BY DEF WorkerTypes
    <3> QED
      BY <2>5, <2>7, <3>1
  <2>9. ASSUME NEW d \in Container, pc'[d] \in Piping
        PROVE  taken'[d] > 0 /\ current(d)'.op = "SET"
    <3>1. /\ taken[d] \in 1..Len(issued[d]) /\ current(d).op = "SET" /\ taken'[d] = taken[d]
          /\ taken[d] > 0
      BY <2>5, <2>9 DEF WorkerTypes
    <3> QED
      BY <2>7, <3>1 DEF current
  <2> QED
    BY <2>5, <2>6, <2>8, <2>9 DEF WorkerTypes
<1>2. ASSUME NEW c \in Container, NEW op, Takes(c, op), issued' = issued,
             NEW next \in {"ready", "zadd", "gone"}, pc' = [pc EXCEPT ![c] = next],
             next = "zadd" => op = "SET", erred' \in SUBSET Container
      PROVE  WorkerTypes'
  <2>1. /\ taken' = [taken EXCEPT ![c] = taken[c] + 1] /\ taken'[c] = taken[c] + 1
        /\ taken' \in [Container -> Nat] /\ taken'[c] <= Len(issued[c])
        /\ issued[c][taken'[c]].op = op
    BY <1>2, TakesTypes
  <2>2. pc' \in [Container -> {"ready", "zadd", "hset", "incr", "pop", "gone"}]
    BY <1>2 DEF WorkerTypes
  <2>3. ASSUME NEW d \in Container
        PROVE  /\ taken'[d] <= Len(issued'[d])
               /\ pc'[d] \in Piping => taken'[d] > 0 /\ current(d)'.op = "SET"
    <3>1. CASE d = c
      <4>1. pc'[c] = next /\ taken[c] \in Nat
        BY <1>2 DEF WorkerTypes
      <4> QED
        BY <1>2, <2>1, <3>1, <4>1 DEF Piping, current
    <3>2. CASE d # c
      <4>1. pc'[d] = pc[d] /\ taken'[d] = taken[d]
        BY <1>2, <2>1, <3>2 DEF WorkerTypes
      <4> QED
        BY <1>2, <4>1 DEF WorkerTypes, current
    <3> QED
      BY <3>1, <3>2
  <2> QED
    BY <1>2, <2>1, <2>2, <2>3 DEF WorkerTypes
<1>3. ASSUME NEW c \in Container, UNCHANGED <<taken, issued>>, erred' = erred,
             NEW next \in Piping \cup {"ready", "gone"}, pc' = [pc EXCEPT ![c] = next],
             next \in Piping => pc[c] \in Piping
      PROVE  WorkerTypes'
  <2>1. pc' \in [Container -> {"ready", "zadd", "hset", "incr", "pop", "gone"}]
    BY <1>3 DEF WorkerTypes, Piping
  <2>2. ASSUME NEW d \in Container, pc'[d] \in Piping
        PROVE  taken'[d] > 0 /\ current(d)'.op = "SET"
    <3>1. pc[d] \in Piping
      BY <1>3, <2>2 DEF WorkerTypes
    <3> QED
      BY <1>3, <3>1 DEF WorkerTypes, current
  <2> QED
    BY <1>3, <2>1, <2>2 DEF WorkerTypes
<1>4. ASSUME NEW c \in Container, ProcessStep(c) \/ Refuse(c) \/ Cut(c) PROVE WorkerTypes'
  <2>1. CASE Get(c)
    <3>1. /\ Takes(c, "GET") /\ UNCHANGED <<pc, erred, issued>>
      BY <2>1 DEF Get
    <3>2. pc[c] = "ready" /\ pc' = [pc EXCEPT ![c] = "ready"] /\ erred' \in SUBSET Container
      BY <3>1 DEF Takes, WorkerTypes
    <3> QED
      BY <1>2, <3>1, <3>2
  <2>2. CASE DecrSize(c)
    <3>1. /\ Takes(c, "SET") /\ issued' = issued /\ pc' = [pc EXCEPT ![c] = "zadd"]
          /\ erred' \in SUBSET Container
      BY <2>2 DEF DecrSize, clientVars, WorkerTypes
    <3> QED
      BY <1>2, <3>1
  <2>3. CASE Refuse(c)
    <3>1. PICK op : Takes(c, op)
      BY <2>3 DEF Refuse
    <3>2. issued' = issued /\ pc' = [pc EXCEPT ![c] = "gone"] /\ erred' \in SUBSET Container
      BY <2>3 DEF Refuse, clientVars, WorkerTypes
    <3> QED
      BY <1>2, <3>1, <3>2
  <2>4. CASE ZAdd(c)
    <3>1. /\ UNCHANGED <<taken, issued>> /\ erred' = erred /\ pc[c] = "zadd"
          /\ pc' = [pc EXCEPT ![c] = "hset"] /\ "hset" \in Piping /\ pc[c] \in Piping
      BY <2>4 DEF ZAdd, clientVars, Piping
    <3> QED
      BY <1>3, <3>1
  <2>5. CASE HSet(c)
    <3>1. /\ UNCHANGED <<taken, issued>> /\ erred' = erred /\ pc[c] = "hset"
          /\ pc' = [pc EXCEPT ![c] = "incr"] /\ "incr" \in Piping /\ pc[c] \in Piping
      BY <2>5 DEF HSet, clientVars, Piping
    <3> QED
      BY <1>3, <3>1
  <2>6. CASE HIncrBy(c)
    <3>1. PICK next : next = IF c \in erred THEN "gone" ELSE "pop"
      OBVIOUS
    <3>2. /\ UNCHANGED <<taken, issued>> /\ erred' = erred /\ pc[c] \in Piping
          /\ pc' = [pc EXCEPT ![c] = next] /\ next \in Piping \cup {"ready", "gone"}
      BY <2>6, <3>1 DEF HIncrBy, clientVars, Piping
    <3> QED
      BY <1>3, <3>2
  <2>7. CASE Pop(c) \/ NoPop(c) \/ Cut(c)
    <3>1. PICK next : next \in {"ready", "gone"} /\ pc' = [pc EXCEPT ![c] = next]
      BY <2>7 DEF Pop, NoPop, Cut
    <3>2. UNCHANGED <<taken, issued>> /\ erred' = erred /\ next \notin Piping
      BY <2>7, <3>1 DEF Pop, NoPop, Cut, clientVars, Piping
    <3> QED
      BY <1>3, <3>1, <3>2
  <2> QED
    BY <1>4, <2>1, <2>2, <2>3, <2>4, <2>5, <2>6, <2>7 DEF ProcessStep
<1>5. CASE UNCHANGED <<pc, taken, erred, issued>>
  BY <1>5 DEF WorkerTypes, current
<1>6. ASSUME NEW c \in Container, Receive(c) PROVE WorkerTypes'
  <2>1. UNCHANGED <<pc, taken, erred, issued>>
    BY <1>6 DEF Receive, SocketData, SplitLength, ReadAstray, workerVars
  <2> QED
    BY <1>5, <2>1
<1>7. CASE Expire \/ Restart \/ UNCHANGED vars
  <2>1. UNCHANGED <<pc, taken, erred, issued>>
    BY <1>7 DEF Expire, Restart, vars, workerVars, clientVars
  <2> QED
    BY <1>5, <2>1
<1> QED
  BY <1>1, <1>4, <1>6, <1>7 DEF Next, Receive

LEMMA RedisStep ==
  ASSUME RedisTypes, WorkerTypes, [Next]_vars
  PROVE  RedisTypes'
<1>1. ASSUME NEW k \in Key PROVE StrLen(k) \in Nat
  BY DEF RedisTypes, StrLen
<1>2. ASSUME NEW c \in Container, DecrSize(c) PROVE RedisTypes'
  <2>1. PICK k : k = issued[c][taken'[c]].key
    OBVIOUS
  <2>2. k \in Key
    BY <1>2, <2>1, TakesTypes DEF DecrSize
  <2>3. /\ size' = IF scripts THEN size - StrLen(k) ELSE size
        /\ drifted' \in BOOLEAN
        /\ UNCHANGED <<hset, zset, scripts, unpopped>>
    BY <1>2, <2>1 DEF DecrSize
  <2> QED
    BY <1>1, <2>2, <2>3 DEF RedisTypes
<1>3. ASSUME NEW c \in Container, ZAdd(c) \/ HSet(c) \/ HIncrBy(c) PROVE RedisTypes'
  <2>1. current(c).key \in Key /\ current(c).len \in Nat
    BY <1>3, CurrentTypes DEF ZAdd, HSet, HIncrBy, Piping
  <2>2. CASE ZAdd(c)
    BY <2>1, <2>2 DEF ZAdd, RedisTypes
  <2>3. CASE HSet(c)
    BY <2>1, <2>3 DEF HSet, RedisTypes
  <2>4. CASE HIncrBy(c)
    BY <2>1, <2>4 DEF HIncrBy, RedisTypes
  <2> QED
    BY <1>3, <2>2, <2>3, <2>4
<1>4. ASSUME NEW c \in Container, Pop(c) PROVE RedisTypes'
  <2>1. zset' \subseteq zset /\ UNCHANGED <<hset, size, scripts, drifted, unpopped>>
    BY <1>4 DEF Pop
  <2> QED
    BY <2>1 DEF RedisTypes
<1>5. ASSUME NEW c \in Container, NoPop(c) \/ Cut(c) \/ Refuse(c) \/ Get(c) PROVE RedisTypes'
  <2>1. UNCHANGED <<hset, size, zset, scripts>> /\ drifted' \in BOOLEAN
    BY <1>5 DEF NoPop, Cut, Refuse, Get, redisVars, RedisTypes
  <2>2. unpopped' \in {unpopped, unpopped + 1}
    BY <1>5 DEF NoPop, Cut, Refuse, Get
  <2> QED
    BY <2>1, <2>2 DEF RedisTypes
<1>6. ASSUME NEW c \in Container, SendCommand(c) \/ Receive(c) PROVE RedisTypes'
  BY <1>6 DEF SendCommand, Receive, SocketData, SplitLength, ReadAstray, redisVars, RedisTypes
<1>7. CASE Expire \/ Restart
  <2>1. scripts' \in BOOLEAN /\ unpopped' = unpopped /\ zset' \in SUBSET Key
    BY <1>7 DEF Expire, Restart, RedisTypes
  <2>2. CASE Lose
    BY <2>1, <2>2 DEF Lose, RedisTypes
  <2>3. CASE UNCHANGED <<hset, size, zset, drifted>>
    BY <2>1, <2>3 DEF RedisTypes
  <2> QED
    BY <1>7, <2>2, <2>3 DEF Expire, Restart
<1>8. CASE UNCHANGED vars
  BY <1>8 DEF vars, redisVars, RedisTypes
<1> QED
  BY <1>2, <1>3, <1>4, <1>5, <1>6, <1>7, <1>8 DEF Next, ProcessStep, Receive

-----------------------------------------------------------------------------
(* Which replies are on their way                                          *)

\* The number of the next reply that arrives, r being that of the last one sent.
First(w, r) == IF w = <<>> THEN r + 1 ELSE w[1][1]

\* Process has answered the commands up to the r-th, which are those it has read but
\* for one in a pipeline; the parts on their way are those of the replies that the
\* wrapper has not had, or not all of; and if it lost none, the next of them is the
\* one its first waiting promise is for.
Answering(c, r) ==
  /\ r <= taken[c]
  /\ pc[c] = "ready" => r = taken[c]
  /\ pc[c] \in Piping => r = taken[c] - 1
  /\ InOrder(wire[c])
  /\ wire[c] # <<>> => After(wire[c][Len(wire[c])]) = r + 1
  /\ First(wire[c], r) <= r + 1
  /\ c \notin astray => Len(answered[c]) + 1 <= First(wire[c], r)
  /\ c \notin dropped => Len(answered[c]) + 1 = First(wire[c], r)

InTurn(c) == \A i \in DOMAIN answered[c] : answered[c][i] = i

StreamInv ==
  /\ \A c \in Container : \E r \in Nat : Answering(c, r)
  /\ \A c \in Container : c \notin dropped => InTurn(c)

\* Nothing happens to the stream of d and its promises.
Apart(d) ==
  /\ wire'[d] = wire[d] /\ answered'[d] = answered[d] /\ taken'[d] = taken[d] /\ pc'[d] = pc[d]
  /\ (d \notin dropped' <=> d \notin dropped) /\ (d \notin astray' <=> d \notin astray)

\* Process sends the reply to a command that it has read or has in its pipeline.
LEMMA ReplyAnswers ==
  ASSUME ClientTypes, WorkerTypes, NEW c \in Container, NEW r \in Nat, Answering(c, r),
         NEW len, Reply(c, r + 1, len), taken'[c] = r + 1, pc'[c] = "ready",
         UNCHANGED <<answered, dropped, astray, inValue>>
  PROVE  ClientTypes' /\ Answering(c, r + 1)' /\ \A d \in Container : d # c => wire'[d] = wire[d]
<1>1. PICK t \in Seq(Part) :
        /\ wire' = [wire EXCEPT ![c] = @ \o t]
        /\ t # <<>> /\ InOrder(t) /\ t[1][1] = r + 1 /\ After(t[Len(t)]) = (r + 1) + 1
  <2>1. PICK n \in Nat : n = r + 1
    OBVIOUS
  <2>2. Reply(c, n, len)
    BY <2>1
  <2>3. \E t \in Seq(Part) :
          /\ wire' = [wire EXCEPT ![c] = @ \o t]
          /\ t # <<>> /\ InOrder(t) /\ t[1][1] = n /\ After(t[Len(t)]) = n + 1
    BY <2>2, ReplyParts
  <2> QED
    BY <2>1, <2>3
<1>2. PICK w : w = wire[c]
  OBVIOUS
<1>3. w \in Seq(Part) /\ InOrder(w) /\ (w # <<>> => After(w[Len(w)]) = t[1][1])
  BY <1>1, <1>2 DEF ClientTypes, Answering
<1>4. /\ w \o t \in Seq(Part) /\ w \o t # <<>> /\ InOrder(w \o t)
      /\ (w \o t)[1] = IF w = <<>> THEN t[1] ELSE w[1]
      /\ (w \o t)[Len(w \o t)] = t[Len(t)]
  BY <1>1, <1>3, JoinInOrder
<1>5. wire'[c] = w \o t /\ wire' \in [Container -> Seq(Part)]
  BY <1>1, <1>2, <1>4 DEF ClientTypes
<1>6. First(wire'[c], r + 1) = First(w, r)
  BY <1>1, <1>4, <1>5 DEF First
<1>7. /\ First(w, r) <= r + 1 /\ (c \notin astray => Len(answered[c]) + 1 <= First(w, r))
      /\ c \notin dropped => Len(answered[c]) + 1 = First(w, r)
  BY <1>2 DEF Answering
<1>8. First(w, r) \in Int
  BY <1>2, <1>3, AfterNumber DEF First
<1>9. First(w, r) <= (r + 1) + 1
  BY <1>7, <1>8
<1>10. \A d \in Container : d # c => wire'[d] = wire[d]
  BY <1>1 DEF ClientTypes
<1>11. "ready" \notin Piping
  BY DEF Piping
<1>12. Answering(c, r + 1)'
  <2>1. /\ r + 1 <= taken'[c]
        /\ pc'[c] = "ready" => r + 1 = taken'[c]
        /\ pc'[c] \notin Piping
    BY <1>11
  <2>2. InOrder(wire'[c]) /\ After(wire'[c][Len(wire'[c])]) = (r + 1) + 1
    BY <1>1, <1>4, <1>5
  <2>3. /\ First(wire'[c], r + 1) <= (r + 1) + 1
        /\ c \notin astray' => Len(answered'[c]) + 1 <= First(wire'[c], r + 1)
        /\ c \notin dropped' => Len(answered'[c]) + 1 = First(wire'[c], r + 1)
    BY <1>6, <1>7, <1>9
  <2> QED
    BY <2>1, <2>2, <2>3 DEF Answering
<1> QED
  BY <1>5, <1>10, <1>12 DEF ClientTypes

\* The replies that a chunk of n parts completes are those up to its m-th part, the
\* last one if Read does not ignore any.
LEMMA ChunkCompletes ==
  ASSUME NEW w \in Seq(Part), InOrder(w), NEW n \in DOMAIN w
  PROVE  \E m \in 1..n :
           /\ Complete(Read(SubSeq(w, 1, n))) = From(w[1][1], After(w[m]))
           /\ Read(SubSeq(w, 1, n)) = SubSeq(w, 1, n) => m = n
           /\ w[1][1] \in Nat /\ After(w[m]) \in Nat /\ After(w[n]) \in Nat
           /\ w[1][1] <= After(w[m]) /\ After(w[m]) <= After(w[n])
<1>1. Len(w) \in Nat \ {0} /\ DOMAIN w = 1..Len(w) /\ w # <<>>
  OBVIOUS
<1>2. PICK chunk : chunk = SubSeq(w, 1, n)
  OBVIOUS
<1>3. /\ chunk \in Seq(Part) /\ InOrder(chunk) /\ Len(chunk) = n /\ chunk # <<>>
      /\ \A i \in 1..n : chunk[i] = w[i]
  <2>1. 1 \in 1..(Len(w) + 1) /\ n \in 0..Len(w) /\ 1 <= n + 1 /\ n >= 1
    BY <1>1
  <2>2. chunk \in Seq(Part) /\ InOrder(chunk)
    BY <1>2, <2>1, PiecesInOrder
  <2>3. Len(chunk) = n /\ \A i \in 1..n : chunk[i] = w[i]
    BY <1>1, <1>2, <2>1
  <2> QED
    BY <2>1, <2>2, <2>3
<1>4. PICK m \in 1..n : /\ Read(chunk) = SubSeq(chunk, 1, m)
                        /\ Read(chunk) = chunk \/ m < n
  BY <1>3, ReadIs
<1>5. PICK read : read = Read(chunk)
  OBVIOUS
<1>6. /\ read \in Seq(Part) /\ InOrder(read) /\ Len(read) = m /\ read # <<>>
      /\ read[1] = w[1] /\ read[Len(read)] = w[m]
  <2>1. /\ 1 \in 1..(Len(chunk) + 1) /\ m \in 0..Len(chunk) /\ 1 <= m + 1
        /\ m >= 1 /\ m <= n /\ 1 \in 1..m /\ m \in 1..n
    BY <1>1, <1>3
  <2>2. read = SubSeq(chunk, 1, m)
    BY <1>4, <1>5
  <2>3. read \in Seq(Part) /\ InOrder(read)
    BY <1>3, <2>1, <2>2, PiecesInOrder
  <2>4. Len(read) = m /\ \A i \in 1..m : read[i] = chunk[i]
    BY <1>3, <2>1, <2>2
  <2>5. read[1] = chunk[1] /\ read[m] = chunk[m] /\ read # <<>>
    BY <2>1, <2>3, <2>4
  <2> QED
    BY <1>3, <2>1, <2>3, <2>4, <2>5
<1>7. Complete(read) = From(w[1][1], After(w[m])) /\ w[1][1] <= After(w[m])
  BY <1>6, CompleteIs
<1>8. m \in DOMAIN w /\ 1 \in DOMAIN w /\ m <= n
  BY <1>1
<1>9. After(w[m]) <= After(w[n])
  BY <1>8 DEF InOrder
<1>10. w[1][1] \in Nat /\ After(w[m]) \in Nat /\ After(w[n]) \in Nat
  BY <1>8, AfterNumber
<1>11. read = chunk => m = n
  BY <1>3, <1>6
<1> QED
  BY <1>2, <1>5, <1>7, <1>9, <1>10, <1>11

\* The promises that have been called after a chunk of n parts.
LEMMA ChunkCalls ==
  ASSUME NEW w \in Seq(Part), InOrder(w), NEW n \in DOMAIN w, NEW a \in Seq(Nat),
         Len(a) + 1 <= w[1][1]
  PROVE  LET b == a \o Complete(Read(SubSeq(w, 1, n)))
         IN  /\ b \in Seq(Nat) /\ Len(b) + 1 <= After(w[n])
             /\ Read(SubSeq(w, 1, n)) = SubSeq(w, 1, n) /\ Len(a) + 1 = w[1][1] =>
                  /\ Len(b) + 1 = After(w[n])
                  /\ (\A i \in DOMAIN a : a[i] = i) => \A i \in DOMAIN b : b[i] = i
<1>1. PICK f : f = w[1][1]
  OBVIOUS
<1>2. PICK read : read = Read(SubSeq(w, 1, n))
  OBVIOUS
<1>3. PICK m \in 1..n :
        /\ Complete(read) = From(f, After(w[m]))
        /\ read = SubSeq(w, 1, n) => m = n
        /\ f \in Nat /\ After(w[m]) \in Nat /\ After(w[n]) \in Nat
        /\ f <= After(w[m]) /\ After(w[m]) <= After(w[n])
  BY <1>1, <1>2, ChunkCompletes
<1>4. PICK t : t = From(f, After(w[m]))
  OBVIOUS
<1>5. /\ t \in Seq(Nat) /\ Len(t) = After(w[m]) - f
      /\ \A i \in 1..(After(w[m]) - f) : t[i] = f + i - 1
  <2>1. PICK e : e = After(w[m])
    OBVIOUS
  <2>2. f \in Nat /\ e \in Nat /\ f <= e /\ t = From(f, e)
    BY <1>3, <1>4, <2>1
  <2>3. /\ t \in Seq(Nat) /\ Len(t) = e - f
        /\ \A i \in 1..(e - f) : t[i] = f + i - 1
    BY <2>2 DEF From
  <2> QED
    BY <2>1, <2>3
<1>6. /\ a \o t \in Seq(Nat) /\ Len(a) \in Nat
      /\ Len(a \o t) = Len(a) + (After(w[m]) - f) /\ DOMAIN (a \o t) = 1..Len(a \o t)
  <2> t \in Seq(Nat)
    BY <1>5
  <2>1. a \o t \in Seq(Nat) /\ Len(a \o t) = Len(a) + Len(t) /\ Len(a) \in Nat
    OBVIOUS
  <2> QED
    BY <1>5, <2>1
<1>7. Len(a \o t) + 1 <= After(w[n])
  BY <1>1, <1>3, <1>6
<1>8. ASSUME read = SubSeq(w, 1, n), Len(a) + 1 = f
      PROVE  Len(a \o t) + 1 = After(w[n])
  BY <1>3, <1>6, <1>8
<1>9. ASSUME Len(a) + 1 = f, \A i \in DOMAIN a : a[i] = i, NEW i \in DOMAIN (a \o t)
      PROVE  (a \o t)[i] = i
  <2>1. i \in 1..Len(a \o t)
    BY <1>6
  <2>2. CASE i <= Len(a)
    BY <1>5, <1>9, <2>1, <2>2
  <2>3. CASE i > Len(a)
    <3>1. i \in Nat /\ Len(a) < i /\ i <= Len(a) + Len(t)
      BY <1>5, <1>6, <2>1, <2>3
    <3>2. (a \o t)[i] = t[i - Len(a)]
      BY <1>5, <3>1
    <3>3. i - Len(a) \in 1..(After(w[m]) - f)
      BY <1>5, <1>6, <3>1
    <3> QED
      BY <1>3, <1>5, <1>6, <1>9, <3>1, <3>2, <3>3
  <2> QED
    BY <1>6, <2>1, <2>2, <2>3
<1> QED
  BY <1>1, <1>2, <1>3, <1>4, <1>6, <1>7, <1>8, <1>9

\* What is left of a stream after n parts, with the number of the next reply.
LEMMA RestOfStream ==
  ASSUME NEW w \in Seq(Part), InOrder(w), NEW n \in 0..Len(w), NEW r \in Nat,
         w # <<>> => After(w[Len(w)]) = r + 1, First(w, r) <= r + 1
  PROVE  LET rest == SubSeq(w, n + 1, Len(w))
         IN  /\ rest \in Seq(Part) /\ InOrder(rest)
             /\ rest # <<>> => After(rest[Len(rest)]) = r + 1
             /\ First(rest, r) = IF n = 0 THEN First(w, r) ELSE After(w[n])
             /\ First(rest, r) <= r + 1
<1>1. PICK rest : rest = SubSeq(w, n + 1, Len(w))
  OBVIOUS
<1>2. Len(w) \in Nat /\ DOMAIN w = 1..Len(w)
  OBVIOUS
<1>3. rest \in Seq(Part) /\ InOrder(rest)
  <2>1. n + 1 \in 1..(Len(w) + 1) /\ Len(w) \in 0..Len(w) /\ n + 1 <= Len(w) + 1
    BY <1>2
  <2> QED
    BY <1>1, <2>1, PiecesInOrder
<1>4. Len(rest) = Len(w) - n /\ \A i \in 1..(Len(w) - n) : rest[i] = w[n + i]
  <2>1. n + 1 \in 1..(Len(w) + 1)
    BY <1>2
  <2>2. Len(rest) = Len(w) - n
    <3>1. n \in Nat /\ n + 1 \in Int /\ Len(w) \in Nat /\ n <= Len(w)
      BY <1>2
    <3>2. Len(rest) = IF n + 1 <= Len(w) THEN Len(w) - (n + 1) + 1 ELSE 0
      BY <1>1, <3>1
    <3>3. CASE n < Len(w)
      BY <3>1, <3>2, <3>3
    <3>4. CASE n = Len(w)
      BY <3>1, <3>2, <3>4
    <3> QED
      BY <3>1, <3>3, <3>4
  <2>3. ASSUME NEW i \in 1..(Len(w) - n) PROVE rest[i] = w[n + i]
    BY <1>1, <1>2, <2>1
  <2> QED
    BY <2>2, <2>3
<1>5. rest # <<>> => After(rest[Len(rest)]) = r + 1
  <2>1. rest # <<>> => w # <<>> /\ rest[Len(rest)] = w[Len(w)]
    BY <1>2, <1>3, <1>4
  <2> QED
    BY <2>1
<1>6. CASE n = 0
  <2>1. Len(rest) = Len(w) /\ \A i \in 1..Len(w) : rest[i] = w[i]
    BY <1>2, <1>4, <1>6
  <2>2. First(rest, r) = First(w, r)
    BY <1>2, <1>3, <2>1 DEF First
  <2> QED
    BY <1>1, <1>3, <1>5, <1>6, <2>2
<1>7. CASE n # 0
  <2>1. n \in DOMAIN w /\ Len(w) \in DOMAIN w /\ n <= Len(w) /\ w # <<>>
    BY <1>2, <1>7
  <2>2. First(rest, r) = After(w[n])
    <3>1. CASE n = Len(w)
      BY <1>3, <1>4, <2>1, <3>1 DEF First
    <3>2. CASE n # Len(w)
      <4>1. n + 1 \in DOMAIN w /\ 1 \in 1..(Len(w) - n) /\ rest # <<>>
        BY <1>2, <1>3, <1>4, <2>1, <3>2
      <4>2. rest[1] = w[n + 1] /\ w[n + 1][1] = After(w[n])
        BY <1>4, <2>1, <4>1 DEF InOrder
      <4> QED
        BY <4>1, <4>2 DEF First
    <3> QED
      BY <3>1, <3>2
  <2>3. After(w[n]) <= r + 1
    BY <2>1 DEF InOrder
  <2> QED
    BY <1>1, <1>3, <1>5, <1>7, <2>2, <2>3
<1> QED
  BY <1>6, <1>7

\* The wrapper reads a chunk: the replies that it completes are those its next
\* promises wait for.
LEMMA ChunkAnswers ==
  ASSUME ClientTypes, NEW c \in Container, NEW r \in Nat, Answering(c, r), SocketData(c),
         c \notin dropped => InTurn(c)
  PROVE  /\ ClientTypes' /\ Answering(c, r)' /\ (c \notin dropped' => InTurn(c)')
         /\ \A d \in Container : d # c => Apart(d)
<1>1. PICK w : w = wire[c]
  OBVIOUS
<1>2. w \in Seq(Part) /\ w # <<>> /\ InOrder(w) /\ c \notin astray
  BY <1>1 DEF ClientTypes, SocketData, Answering, Misread
<1>3. Len(w) \in Nat \ {0} /\ DOMAIN w = 1..Len(w)
  BY <1>2
<1>4. PICK n \in DOMAIN w :
        /\ wire' = [wire EXCEPT ![c] = SubSeq(w, n + 1, Len(w))]
        /\ answered' = [answered EXCEPT ![c] = @ \o Complete(Read(SubSeq(w, 1, n)))]
        /\ inValue' \in {inValue \cup {c}, inValue \ {c}}
        /\ dropped' = IF Read(SubSeq(w, 1, n)) # SubSeq(w, 1, n) THEN dropped \cup {c}
                      ELSE dropped
  <2>1. PICK n \in DOMAIN wire[c] :
          LET chunk == SubSeq(wire[c], 1, n)
              read  == Read(chunk)
          IN  /\ wire' = [wire EXCEPT ![c] = SubSeq(@, n + 1, Len(@))]
              /\ answered' = [answered EXCEPT ![c] = @ \o Complete(read)]
              /\ inValue' = IF read[Len(read)][2] = "length"
                            THEN inValue \cup {c} ELSE inValue \ {c}
              /\ dropped' = IF read # chunk THEN dropped \cup {c} ELSE dropped
    BY DEF SocketData
  <2>2. wire' = [wire EXCEPT ![c] = SubSeq(w, n + 1, Len(w))]
    BY <1>1, <2>1
  <2>3. /\ answered' = [answered EXCEPT ![c] = @ \o Complete(Read(SubSeq(w, 1, n)))]
        /\ dropped' = IF Read(SubSeq(w, 1, n)) # SubSeq(w, 1, n) THEN dropped \cup {c}
                      ELSE dropped
    BY <1>1, <2>1
  <2>4. inValue' \in {inValue \cup {c}, inValue \ {c}}
    BY <2>1
  <2> QED
    BY <1>1, <2>2, <2>3, <2>4
<1>5. astray' = astray /\ UNCHANGED <<pc, taken>>
  BY DEF SocketData, workerVars
<1>6. PICK rest : rest = SubSeq(w, n + 1, Len(w))
  OBVIOUS
<1>7. PICK a : a = answered[c]
  OBVIOUS
<1>8. PICK b : b = a \o Complete(Read(SubSeq(w, 1, n)))
  OBVIOUS
<1>9. /\ a \in Seq(Nat) /\ Len(a) + 1 <= w[1][1] /\ (c \notin dropped => Len(a) + 1 = w[1][1])
      /\ (w # <<>> => After(w[Len(w)]) = r + 1) /\ First(w, r) <= r + 1
  BY <1>1, <1>2, <1>7 DEF ClientTypes, Answering, First
<1>10. /\ b \in Seq(Nat) /\ Len(b) + 1 <= After(w[n])
       /\ Read(SubSeq(w, 1, n)) = SubSeq(w, 1, n) /\ Len(a) + 1 = w[1][1] =>
            /\ Len(b) + 1 = After(w[n])
            /\ (\A i \in DOMAIN a : a[i] = i) => \A i \in DOMAIN b : b[i] = i
  BY <1>2, <1>8, <1>9, ChunkCalls
<1>11. /\ rest \in Seq(Part) /\ InOrder(rest)
       /\ rest # <<>> => After(rest[Len(rest)]) = r + 1
       /\ First(rest, r) = After(w[n]) /\ First(rest, r) <= r + 1
  <2>1. n \in 0..Len(w) /\ n # 0
    BY <1>3
  <2> QED
    BY <1>2, <1>6, <1>9, <2>1, RestOfStream
<1>12. /\ answered'[c] = b /\ wire'[c] = rest
       /\ \A d \in Container : d # c => wire'[d] = wire[d] /\ answered'[d] = answered[d]
       /\ answered' \in [Container -> Seq(Nat)] /\ wire' \in [Container -> Seq(Part)]
  BY <1>4, <1>6, <1>7, <1>8, <1>10, <1>11 DEF ClientTypes
<1>13. /\ inValue' \in SUBSET Container /\ dropped' \in SUBSET Container
       /\ dropped \subseteq dropped' /\ \A d \in Container : d # c => (d \in dropped' <=> d \in dropped)
  BY <1>4 DEF ClientTypes
<1>14. ClientTypes'
  BY <1>5, <1>12, <1>13 DEF ClientTypes
<1>15. c \notin dropped' => c \notin dropped /\ Read(SubSeq(w, 1, n)) = SubSeq(w, 1, n)
  BY <1>4
<1>16. Answering(c, r)'
  <2>1. /\ r <= taken'[c]
        /\ pc'[c] = "ready" => r = taken'[c]
        /\ pc'[c] \in Piping => r = taken'[c] - 1
    BY <1>5 DEF Answering
  <2>2. /\ Len(answered'[c]) + 1 <= First(wire'[c], r)
        /\ c \notin dropped' => Len(answered'[c]) + 1 = First(wire'[c], r)
        /\ First(wire'[c], r) <= r + 1
    BY <1>9, <1>10, <1>11, <1>12, <1>15
  <2>3. InOrder(wire'[c]) /\ (wire'[c] # <<>> => After(wire'[c][Len(wire'[c])]) = r + 1)
    BY <1>11, <1>12
  <2> QED
    BY <2>1, <2>2, <2>3 DEF Answering
<1>17. c \notin dropped' => InTurn(c)'
  BY <1>7, <1>9, <1>10, <1>12, <1>15 DEF InTurn
<1>18. \A d \in Container : d # c => Apart(d)
  BY <1>5, <1>12, <1>13 DEF Apart
<1> QED
  BY <1>14, <1>16, <1>17, <1>18

\* The wrapper loses n parts, and calls promises for whatever reason: it is astray.
LEMMA LossAnswers ==
  ASSUME ClientTypes, NEW c \in Container, NEW r \in Nat, Answering(c, r),
         NEW n \in 0..Len(wire[c]),
         wire' = [wire EXCEPT ![c] = SubSeq(@, n + 1, Len(@))],
         NEW b \in Seq(Nat), answered' = [answered EXCEPT ![c] = b],
         inValue' = inValue \ {c}, astray' = astray \cup {c}, dropped' = dropped \cup {c},
         UNCHANGED <<pc, taken>>
  PROVE  /\ ClientTypes' /\ Answering(c, r)' /\ c \in dropped'
         /\ \A d \in Container : d # c => Apart(d)
<1>1. PICK rest : rest = SubSeq(wire[c], n + 1, Len(wire[c]))
  OBVIOUS
<1>2. /\ wire[c] \in Seq(Part) /\ InOrder(wire[c]) /\ First(wire[c], r) <= r + 1
      /\ wire[c] # <<>> => After(wire[c][Len(wire[c])]) = r + 1
  BY DEF ClientTypes, Answering
<1>3. /\ rest \in Seq(Part) /\ InOrder(rest)
      /\ rest # <<>> => After(rest[Len(rest)]) = r + 1
      /\ First(rest, r) <= r + 1
  BY <1>1, <1>2, RestOfStream
<1>4. /\ wire'[c] = rest
      /\ \A d \in Container : d # c => wire'[d] = wire[d] /\ answered'[d] = answered[d]
      /\ answered' \in [Container -> Seq(Nat)] /\ wire' \in [Container -> Seq(Part)]
  BY <1>1, <1>3 DEF ClientTypes
<1>5. ClientTypes'
  BY <1>4 DEF ClientTypes
<1>6. Answering(c, r)'
  BY <1>3, <1>4 DEF Answering
<1>7. \A d \in Container : d # c => Apart(d)
  BY <1>4 DEF Apart
<1> QED
  BY <1>5, <1>6, <1>7

\* No parts, no replies.
LEMMA CompleteNone == Read(<<>>) = <<>> /\ Complete(<<>>) = <<>>
<1>1. Read(<<>>) = <<>>
  BY DEF Read
<1> DEFINE Body(g, n) ==
      IF n = 0 THEN <<>>
      ELSE IF <<>>[n][2] = "length" THEN g[n - 1] ELSE Append(g[n - 1], <<>>[n][1])
<1>2. PICK f : /\ f = CHOOSE g : g = [n \in 0..Len(<<>>) |-> Body(g, n)]
               /\ Complete(<<>>) = f[Len(<<>>)]
  BY DEF Complete
<1>3. Len(<<>>) = 0 /\ 0..0 = {0}
  OBVIOUS
<1>4. PICK h : h = [n \in 0..Len(<<>>) |-> <<>>]
  OBVIOUS
<1>5. h = [n \in 0..Len(<<>>) |-> Body(h, n)]
  BY <1>3, <1>4
<1>6. f = [n \in 0..Len(<<>>) |-> Body(f, n)]
  BY <1>2, <1>5
<1>7. f[0] = <<>>
  BY <1>3, <1>6
<1> QED
  BY <1>1, <1>2, <1>3, <1>7

\* A chunk ends in a length.
LEMMA SplitAnswers ==
  ASSUME ClientTypes, NEW c \in Container, NEW r \in Nat, Answering(c, r), SplitLength(c)
  PROVE  /\ ClientTypes' /\ Answering(c, r)' /\ c \in dropped' /\ Len(answered'[c]) <= r
         /\ \A d \in Container : d # c => Apart(d)
<1>1. PICK w : w = wire[c]
  OBVIOUS
<1>2. w \in Seq(Part) /\ w # <<>> /\ InOrder(w) /\ c \notin astray
  BY <1>1 DEF ClientTypes, SplitLength, Answering, Misread
<1>3. Len(w) \in Nat \ {0} /\ DOMAIN w = 1..Len(w)
  BY <1>2
<1>4. PICK n \in DOMAIN w :
        /\ wire' = [wire EXCEPT ![c] = SubSeq(@, n, Len(@))]
        /\ answered' = [answered EXCEPT ![c] = @ \o Complete(Read(SubSeq(w, 1, n - 1)))]
  BY <1>1 DEF SplitLength
<1>5. PICK a : a = answered[c]
  OBVIOUS
<1>6. PICK b : b = a \o Complete(Read(SubSeq(w, 1, n - 1)))
  OBVIOUS
<1>7. /\ a \in Seq(Nat) /\ Len(a) \in Nat /\ Len(a) + 1 <= w[1][1] /\ w[1][1] <= r + 1
      /\ After(w[Len(w)]) = r + 1
  BY <1>1, <1>2, <1>5 DEF ClientTypes, Answering, First
<1>8. w[1][1] \in Nat
  BY <1>2, <1>3, AfterNumber
<1>9. b \in Seq(Nat) /\ Len(b) <= r
  <2>1. CASE n = 1
    <3>1. SubSeq(w, 1, n - 1) = <<>>
      BY <1>2, <2>1
    <3>2. b = a \o <<>>
      BY <1>6, <3>1, CompleteNone
    <3>3. b = a
      BY <1>7, <3>2, ConcatEmptySeq
    <3> QED
      BY <1>7, <1>8, <3>3
  <2>2. CASE n # 1
    <3>1. PICK m : m = n - 1
      OBVIOUS
    <3>2. m \in DOMAIN w /\ Len(w) \in DOMAIN w /\ m <= Len(w)
      BY <1>3, <2>2, <3>1
    <3>3. b \in Seq(Nat) /\ Len(b) + 1 <= After(w[m])
      BY <1>2, <1>6, <1>7, <3>1, <3>2, ChunkCalls
    <3>4. After(w[m]) <= r + 1 /\ After(w[m]) \in Nat
      BY <1>2, <1>7, <3>2, AfterNumber DEF InOrder
    <3>5. Len(b) \in Nat
      BY <3>3
    <3> QED
      BY <3>3, <3>4, <3>5
  <2> QED
    BY <2>1, <2>2
<1>10. PICK m : m = n - 1
  OBVIOUS
<1>11. /\ m \in 0..Len(wire[c]) /\ m + 1 = n
       /\ wire' = [wire EXCEPT ![c] = SubSeq(@, m + 1, Len(@))]
       /\ answered' = [answered EXCEPT ![c] = b] /\ answered'[c] = b
  <2>1. m \in 0..Len(wire[c]) /\ m + 1 = n
    BY <1>1, <1>3, <1>10
  <2>2. answered' = [answered EXCEPT ![c] = b]
    BY <1>4, <1>5, <1>6
  <2>3. answered'[c] = b
    BY <2>2 DEF ClientTypes
  <2> QED
    BY <1>4, <2>1, <2>2, <2>3
<1>12. /\ inValue' = inValue \ {c} /\ astray' = astray \cup {c} /\ dropped' = dropped \cup {c}
       /\ UNCHANGED <<pc, taken>>
  BY DEF SplitLength, workerVars
<1>13. /\ ClientTypes' /\ Answering(c, r)' /\ c \in dropped'
       /\ \A d \in Container : d # c => Apart(d)
  BY <1>9, <1>11, <1>12, LossAnswers
<1> QED
  BY <1>9, <1>11, <1>13

\* The wrapper reads on.
LEMMA AstrayAnswers ==
  ASSUME ClientTypes, NEW c \in Container, NEW r \in Nat, Answering(c, r), ReadAstray(c)
  PROVE  /\ ClientTypes' /\ Answering(c, r)' /\ c \in dropped'
         /\ \A d \in Container : d # c => Apart(d)
<1>1. PICK n \in DOMAIN wire[c] : wire' = [wire EXCEPT ![c] = SubSeq(@, n + 1, Len(@))]
  BY DEF ReadAstray
<1>2. PICK m \in 0..(Len(issued[c]) - Len(answered[c])) :
        answered' = [answered EXCEPT ![c] = @ \o [i \in 1..m |-> 0]]
  BY DEF ReadAstray
<1>3. PICK b : b = answered[c] \o [i \in 1..m |-> 0]
  OBVIOUS
<1>4. b \in Seq(Nat) /\ answered' = [answered EXCEPT ![c] = b]
  <2>1. answered[c] \in Seq(Nat) /\ [i \in 1..m |-> 0] \in Seq(Nat)
    BY DEF ClientTypes
  <2> QED
    BY <1>2, <1>3, <2>1
<1>5. n \in 0..Len(wire[c])
  BY DEF ClientTypes
<1>6. /\ inValue' = inValue \ {c} /\ astray' = astray \cup {c} /\ dropped' = dropped \cup {c}
      /\ UNCHANGED <<pc, taken>>
  BY DEF ReadAstray, workerVars
<1> QED
  BY <1>1, <1>4, <1>5, <1>6, LossAnswers

\* The stream of a container of which nothing changes, or whose Process ends.
LEMMA AnsweringSame ==
  ASSUME NEW c \in Container, NEW r \in Nat, Answering(c, r),
         wire'[c] = wire[c], answered'[c] = answered[c],
         c \notin dropped' <=> c \notin dropped, c \notin astray' <=> c \notin astray,
         \/ taken'[c] = taken[c] /\ pc'[c] = pc[c]
         \/ taken'[c] = taken[c] /\ pc[c] \in Piping /\ pc'[c] \in Piping
         \/ r <= taken'[c] /\ pc'[c] = "gone"
         \/ r + 1 = taken'[c] /\ pc'[c] = "zadd"
  PROVE  Answering(c, r)'
<1>1. /\ r <= taken'[c]
      /\ pc'[c] = "ready" => r = taken'[c]
      /\ pc'[c] \in Piping => r = taken'[c] - 1
  BY DEF Answering, Piping
<1>2. /\ InOrder(wire'[c])
      /\ wire'[c] # <<>> => After(wire'[c][Len(wire'[c])]) = r + 1
      /\ First(wire'[c], r) <= r + 1
      /\ c \notin astray' => Len(answered'[c]) + 1 <= First(wire'[c], r)
      /\ c \notin dropped' => Len(answered'[c]) + 1 = First(wire'[c], r)
  BY DEF Answering
<1> QED
  BY <1>1, <1>2 DEF Answering

AnswerInv == ClientTypes /\ StreamInv

\* The steps of a container that leave replies and promises alone.
LEMMA QuietStream ==
  ASSUME AnswerInv, WorkerTypes, NEW c \in Container,
         UNCHANGED <<wire, inValue, astray, answered, dropped>>,
         \A d \in Container : d # c => taken'[d] = taken[d] /\ pc'[d] = pc[d],
         \/ taken'[c] = taken[c] /\ pc'[c] = pc[c]
         \/ taken'[c] = taken[c] /\ pc[c] \in Piping /\ pc'[c] \in Piping
         \/ taken'[c] = taken[c] /\ pc'[c] = "gone"
         \/ taken'[c] = taken[c] + 1 /\ pc[c] = "ready" /\ pc'[c] \in {"zadd", "gone"}
  PROVE  AnswerInv'
<1>1. ASSUME NEW d \in Container PROVE \E r \in Nat : Answering(d, r)'
  <2>1. PICK r \in Nat : Answering(d, r)
    BY DEF AnswerInv, StreamInv
  <2>2. CASE d # c
    <3>1. taken'[d] = taken[d] /\ pc'[d] = pc[d]
      BY <2>2
    <3> QED
      BY <2>1, <3>1, AnsweringSame
  <2>3. CASE d = c
    <3>1. taken[c] \in Nat /\ r <= taken[c] /\ (pc[c] = "ready" => r = taken[c])
      BY <2>1, <2>3 DEF WorkerTypes, Answering
    <3>2. \/ taken'[c] = taken[c] /\ pc'[c] = pc[c]
          \/ taken'[c] = taken[c] /\ pc[c] \in Piping /\ pc'[c] \in Piping
          \/ r <= taken'[c] /\ pc'[c] = "gone"
          \/ r + 1 = taken'[c] /\ pc'[c] = "zadd"
      BY <3>1
    <3> QED
      BY <2>1, <2>3, <3>2, AnsweringSame
  <2> QED
    BY <2>2, <2>3
<1>2. \A d \in Container : d \notin dropped' => InTurn(d)'
  BY DEF AnswerInv, StreamInv, InTurn
<1> QED
  BY <1>1, <1>2 DEF AnswerInv, StreamInv, ClientTypes

\* The steps that send a reply.
LEMMA ReplyStream ==
  ASSUME AnswerInv, WorkerTypes, NEW c \in Container, NEW len, Reply(c, taken'[c], len),
         pc'[c] = "ready", UNCHANGED <<inValue, astray, answered, dropped>>,
         \A d \in Container : d # c => taken'[d] = taken[d] /\ pc'[d] = pc[d],
         \/ taken'[c] = taken[c] /\ pc[c] \in Piping
         \/ taken'[c] = taken[c] + 1 /\ pc[c] = "ready"
  PROVE  AnswerInv'
<1>1. PICK r \in Nat : Answering(c, r)
  BY DEF AnswerInv, StreamInv
<1>2. taken'[c] = r + 1
  BY <1>1 DEF Answering, WorkerTypes
<1>3. Reply(c, r + 1, len)
  BY <1>2
<1>4. /\ ClientTypes' /\ Answering(c, r + 1)'
      /\ \A d \in Container : d # c => wire'[d] = wire[d]
  BY <1>1, <1>2, <1>3, ReplyAnswers DEF AnswerInv
<1>5. ASSUME NEW d \in Container PROVE \E q \in Nat : Answering(d, q)'
  <2>1. CASE d = c
    BY <1>4, <2>1
  <2>2. CASE d # c
    <3>1. PICK q \in Nat : Answering(d, q)
      BY DEF AnswerInv, StreamInv
    <3>2. taken'[d] = taken[d] /\ pc'[d] = pc[d] /\ wire'[d] = wire[d]
      BY <1>4, <2>2
    <3> QED
      BY <3>1, <3>2, AnsweringSame
  <2> QED
    BY <2>1, <2>2
<1>6. \A d \in Container : d \notin dropped' => InTurn(d)'
  BY DEF AnswerInv, StreamInv, InTurn
<1> QED
  BY <1>4, <1>5, <1>6 DEF AnswerInv, StreamInv

LEMMA AnswerStep ==
  ASSUME AnswerInv, WorkerTypes, [Next]_vars
  PROVE  AnswerInv'
<1>1. ASSUME NEW c \in Container, Receive(c) PROVE AnswerInv'
  <2>1. PICK r \in Nat : Answering(c, r)
    BY DEF AnswerInv, StreamInv
  <2>2. /\ ClientTypes' /\ Answering(c, r)' /\ (c \notin dropped' => InTurn(c)')
        /\ \A d \in Container : d # c => Apart(d)
    <3>1. CASE SocketData(c)
      BY <2>1, <3>1, ChunkAnswers DEF AnswerInv, StreamInv
    <3>2. CASE SplitLength(c)
      BY <2>1, <3>2, SplitAnswers DEF AnswerInv
    <3>3. CASE ReadAstray(c)
      BY <2>1, <3>3, AstrayAnswers DEF AnswerInv
    <3> QED
      BY <1>1, <3>1, <3>2, <3>3 DEF Receive
  <2>3. ASSUME NEW d \in Container
        PROVE  (\E q \in Nat : Answering(d, q)') /\ (d \notin dropped' => InTurn(d)')
    <3>1. CASE d = c
      BY <2>2, <3>1
    <3>2. CASE d # c
      <4>1. PICK q \in Nat : Answering(d, q)
        BY DEF AnswerInv, StreamInv
      <4>2. Apart(d)
        BY <2>2, <3>2
      <4>3. Answering(d, q)'
        BY <4>1, <4>2, AnsweringSame DEF Apart
      <4>4. d \notin dropped' => InTurn(d)'
        BY <4>2 DEF AnswerInv, StreamInv, InTurn, Apart
      <4> QED
        BY <4>3, <4>4
    <3> QED
      BY <3>1, <3>2
  <2> QED
    BY <2>2, <2>3 DEF AnswerInv, StreamInv
<1>2. ASSUME NEW c \in Container, NEW op, Takes(c, op)
      PROVE  /\ taken'[c] = taken[c] + 1 /\ pc[c] = "ready"
             /\ \A d \in Container : d # c => taken'[d] = taken[d]
  BY <1>2, TakesTypes
<1>3. ASSUME NEW c \in Container, NEW next, pc' = [pc EXCEPT ![c] = next]
      PROVE  pc'[c] = next /\ \A d \in Container : d # c => pc'[d] = pc[d]
  BY <1>3 DEF WorkerTypes
<1>4. ASSUME NEW c \in Container, Get(c) PROVE AnswerInv'
  <2>1. /\ Takes(c, "GET") /\ UNCHANGED <<pc, inValue, astray, answered, dropped>>
        /\ Reply(c, taken'[c], hset[issued[c][taken'[c]].key])
    BY <1>4 DEF Get
  <2>2. /\ taken'[c] = taken[c] + 1 /\ pc[c] = "ready"
        /\ \A d \in Container : d # c => taken'[d] = taken[d]
    BY <1>2, <2>1
  <2>3. pc'[c] = "ready" /\ \A d \in Container : d # c => pc'[d] = pc[d]
    BY <2>1, <2>2
  <2> QED
    BY <2>1, <2>2, <2>3, ReplyStream
<1>5. ASSUME NEW c \in Container, Pop(c), ~Full PROVE AnswerInv'
  <2>1. /\ Reply(c, taken[c], 2) /\ pc' = [pc EXCEPT ![c] = "ready"] /\ pc[c] = "pop"
        /\ UNCHANGED <<taken, inValue, astray, answered, dropped>>
    BY <1>5 DEF Pop
  <2>2. /\ Reply(c, taken'[c], 2) /\ pc[c] \in Piping
        /\ \A d \in Container : taken'[d] = taken[d]
    BY <2>1 DEF Piping
  <2>3. pc'[c] = "ready" /\ \A d \in Container : d # c => pc'[d] = pc[d]
    BY <1>3, <2>1
  <2> QED
    BY <2>1, <2>2, <2>3, ReplyStream
<1>6. ASSUME NEW c \in Container, DecrSize(c) \/ Refuse(c) PROVE AnswerInv'
  <2>1. PICK op : Takes(c, op)
    BY <1>6 DEF DecrSize, Refuse
  <2>2. PICK next \in {"zadd", "gone"} : pc' = [pc EXCEPT ![c] = next]
    BY <1>6 DEF DecrSize, Refuse
  <2>3. UNCHANGED <<wire, inValue, astray, answered, dropped>>
    BY <1>6 DEF DecrSize, Refuse, clientVars
  <2>4. /\ taken'[c] = taken[c] + 1 /\ pc[c] = "ready"
        /\ \A d \in Container : d # c => taken'[d] = taken[d]
    BY <1>2, <2>1
  <2>5. pc'[c] = next /\ \A d \in Container : d # c => pc'[d] = pc[d]
    BY <1>3, <2>2
  <2> QED
    BY <2>2, <2>3, <2>4, <2>5, QuietStream
<1>7. ASSUME NEW c \in Container,
             ZAdd(c) \/ HSet(c) \/ HIncrBy(c) \/ (Pop(c) /\ Full) \/ NoPop(c) \/ Cut(c)
      PROVE  AnswerInv'
  <2>1. PICK next \in {"hset", "incr", "pop", "gone"} : pc' = [pc EXCEPT ![c] = next]
    BY <1>7 DEF ZAdd, HSet, HIncrBy, Pop, NoPop, Cut
  <2>2. next # "gone" => pc[c] \in Piping /\ next \in Piping
    <3>1. next # "gone" => ZAdd(c) \/ HSet(c) \/ HIncrBy(c)
      <4>1. pc'[c] = next
        BY <1>3, <2>1
      <4>2. (Pop(c) /\ Full) \/ NoPop(c) \/ Cut(c) => pc' = [pc EXCEPT ![c] = "gone"]
        BY DEF Pop, NoPop, Cut
      <4>3. (Pop(c) /\ Full) \/ NoPop(c) \/ Cut(c) => pc'[c] = "gone"
        BY <1>3, <4>2
      <4> QED
        BY <1>7, <4>1, <4>3
    <3> QED
      BY <2>1, <3>1 DEF ZAdd, HSet, HIncrBy, Piping
  <2>3. UNCHANGED <<taken, wire, inValue, astray, answered, dropped>>
    BY <1>7 DEF ZAdd, HSet, HIncrBy, Pop, NoPop, Cut, clientVars
  <2>4. pc'[c] = next /\ \A d \in Container : d # c => pc'[d] = pc[d]
    BY <1>3, <2>1
  <2>5. \A d \in Container : taken'[d] = taken[d]
    BY <2>3
  <2> QED
    BY <2>1, <2>2, <2>3, <2>4, <2>5, QuietStream
<1>8. ASSUME UNCHANGED <<pc, taken, wire, inValue, astray, answered, dropped>> PROVE AnswerInv'
  <2>1. CASE Container = {}
    BY <1>8, <2>1 DEF AnswerInv, StreamInv, ClientTypes
  <2>2. CASE Container # {}
    <3>1. PICK c : c \in Container
      BY <2>2
    <3> QED
      BY <1>8, <3>1, QuietStream
  <2> QED
    BY <2>1, <2>2
<1>9. ASSUME NEW c \in Container, SendCommand(c) PROVE AnswerInv'
  BY <1>8, <1>9 DEF SendCommand, workerVars
<1>10. CASE Expire \/ Restart \/ UNCHANGED vars
  BY <1>8, <1>10 DEF Expire, Restart, vars, workerVars, clientVars
<1> QED
  BY <1>1, <1>4, <1>5, <1>6, <1>7, <1>9, <1>10 DEF Next, ProcessStep, Receive

\* Also a wrapper that is astray calls no more promises than it has.
AstrayBounded == \A c \in astray : Len(answered[c]) <= Len(issued[c])

LEMMA BoundedStep ==
  ASSUME AstrayBounded, AnswerInv, AnswerInv', WorkerTypes, WorkerTypes', [Next]_vars
  PROVE  AstrayBounded'
<1>1. astray \subseteq Container /\ answered \in [Container -> Seq(Nat)]
      /\ issued \in [Container -> Seq(Command)]
  BY DEF AnswerInv, ClientTypes, WorkerTypes
<1>2. ASSUME NEW c \in Container, SplitLength(c) PROVE AstrayBounded'
  <2>1. PICK r \in Nat : Answering(c, r)
    BY DEF AnswerInv, StreamInv
  <2>2. Len(answered'[c]) <= r /\ \A d \in Container : d # c => Apart(d)
    BY <1>2, <2>1, SplitAnswers DEF AnswerInv
  <2>3. astray' = astray \cup {c} /\ issued' = issued
    BY <1>2 DEF SplitLength
  <2>4. r <= taken[c] /\ taken[c] <= Len(issued[c]) /\ taken[c] \in Nat /\ Len(issued[c]) \in Nat
    BY <2>1 DEF Answering, WorkerTypes
  <2>5. Len(answered'[c]) \in Nat
    BY DEF AnswerInv, ClientTypes
  <2>6. Len(answered'[c]) <= Len(issued'[c])
    BY <2>2, <2>3, <2>4, <2>5
  <2> QED
    BY <1>1, <2>2, <2>3, <2>6 DEF AstrayBounded, Apart
<1>3. ASSUME NEW c \in Container, ReadAstray(c) PROVE AstrayBounded'
  <2>1. PICK m \in 0..(Len(issued[c]) - Len(answered[c])) :
          answered' = [answered EXCEPT ![c] = @ \o [i \in 1..m |-> 0]]
    BY <1>3 DEF ReadAstray
  <2>2. astray' = astray \cup {c} /\ issued' = issued
    BY <1>3 DEF ReadAstray
  <2>3. PICK a : a = answered[c]
    OBVIOUS
  <2>4. a \in Seq(Nat) /\ [i \in 1..m |-> 0] \in Seq(Nat) /\ Len([i \in 1..m |-> 0]) = m
        /\ Len(issued[c]) \in Nat
    BY <1>1, <2>3
  <2>5. Len(a \o [i \in 1..m |-> 0]) = Len(a) + m
    BY <2>4
  <2>6. Len(answered'[c]) <= Len(issued'[c])
    BY <1>1, <2>1, <2>2, <2>3, <2>4, <2>5
  <2>7. \A d \in Container : d # c => answered'[d] = answered[d]
    BY <1>1, <2>1
  <2> QED
    BY <1>1, <2>2, <2>6, <2>7 DEF AstrayBounded
<1>4. ASSUME astray' = astray, \A d \in astray : answered'[d] = answered[d] /\ issued'[d] = issued[d]
      PROVE  AstrayBounded'
  BY <1>4 DEF AstrayBounded
<1>5. ASSUME NEW c \in Container, SocketData(c) PROVE AstrayBounded'
  <2>1. c \notin astray /\ astray' = astray /\ issued' = issued
    BY <1>5 DEF SocketData, Misread
  <2>2. PICK b : answered' = [answered EXCEPT ![c] = b]
    BY <1>5 DEF SocketData
  <2>3. \A d \in astray : answered'[d] = answered[d]
    BY <1>1, <2>1, <2>2
  <2> QED
    BY <1>4, <2>1, <2>3
<1>6. ASSUME NEW c \in Container, SendCommand(c) PROVE AstrayBounded'
  <2>1. PICK command : issued' = [issued EXCEPT ![c] = Append(@, command)]
    BY <1>6 DEF SendCommand
  <2>2. UNCHANGED <<astray, answered>>
    BY <1>6 DEF SendCommand
  <2>3. ASSUME NEW d \in astray PROVE Len(issued[d]) <= Len(issued'[d])
    <3>1. CASE d = c
      <4>1. issued'[d] = Append(issued[d], command) /\ issued[d] \in Seq(Command)
            /\ issued'[d] \in Seq(Command)
        BY <1>1, <2>1, <3>1 DEF WorkerTypes
      <4>2. Len(issued'[d]) = Len(issued[d]) + 1 /\ Len(issued[d]) \in Nat
        BY <4>1
      <4> QED
        BY <4>2
    <3>2. CASE d # c
      <4>1. issued'[d] = issued[d] /\ issued[d] \in Seq(Command)
        BY <1>1, <2>1, <3>2
      <4> QED
        BY <4>1
    <3> QED
      BY <3>1, <3>2
  <2>4. ASSUME NEW d \in astray PROVE Len(answered[d]) \in Nat /\ Len(issued[d]) \in Nat
                                      /\ Len(issued'[d]) \in Nat
    BY <1>1 DEF WorkerTypes
  <2> QED
    BY <2>2, <2>3, <2>4 DEF AstrayBounded
<1>7. ASSUME NEW c \in Container, ProcessStep(c) \/ Refuse(c) \/ Cut(c) PROVE AstrayBounded'
  <2>1. UNCHANGED <<astray, answered, issued>>
    BY <1>7 DEF ProcessStep, Get, DecrSize, ZAdd, HSet, HIncrBy, Pop, NoPop, Refuse, Cut, clientVars
  <2> QED
    BY <1>4, <2>1
<1>8. CASE Expire \/ Restart \/ UNCHANGED vars
  <2>1. UNCHANGED <<astray, answered, issued>>
    BY <1>8 DEF Expire, Restart, vars, clientVars
  <2> QED
    BY <1>4, <2>1
<1> QED
  BY <1>2, <1>3, <1>5, <1>6, <1>7, <1>8 DEF Next

Inv == RedisTypes /\ WorkerTypes /\ AnswerInv /\ AstrayBounded

LEMMA InvHolds == Spec => []Inv
<1>1. Init => Inv
  <2> SUFFICES ASSUME Init PROVE Inv
    OBVIOUS
  <2>1. RedisTypes
    <3>1. scripts \in BOOLEAN /\ drifted \in BOOLEAN
      BY DEF Init
    <3>2. /\ hset \in [Key -> Nat \cup {None}] /\ size \in Int /\ zset \in SUBSET Key
          /\ unpopped \in Nat
      BY DEF Init
    <3> QED
      BY <3>1, <3>2 DEF RedisTypes
  <2>2. WorkerTypes
    BY DEF Init, WorkerTypes, Piping
  <2>3. ClientTypes
    BY DEF Init, ClientTypes
  <2>4. ASSUME NEW c \in Container PROVE Answering(c, 0) /\ InTurn(c)
    <3>1. /\ wire[c] = <<>> /\ answered[c] = <<>> /\ taken[c] = 0 /\ pc[c] = "ready"
      BY DEF Init
    <3>2. InOrder(<<>>) /\ Len(answered[c]) = 0
      BY <3>1 DEF InOrder
    <3>3. First(wire[c], 0) = 1
      BY <3>1 DEF First
    <3> QED
      BY <3>1, <3>2, <3>3 DEF Answering, InTurn, Piping
  <2>5. AstrayBounded
    BY DEF Init, AstrayBounded
  <2> QED
    BY <2>1, <2>2, <2>3, <2>4, <2>5 DEF Inv, AnswerInv, StreamInv
<1>2. Inv /\ [Next]_vars => Inv'
  <2> SUFFICES ASSUME Inv, [Next]_vars PROVE Inv'
    OBVIOUS
  <2>1. RedisTypes' /\ WorkerTypes' /\ AnswerInv'
    BY RedisStep, WorkerStep, AnswerStep DEF Inv
  <2> QED
    BY <2>1, BoundedStep DEF Inv
<1> QED
  BY <1>1, <1>2, PTL DEF Spec

\* Every variable has its type, and no promise is answered before Process has read
\* its command, unless a chunk has ended within a length (Process in
\* app/script/user_cache.go, class Cache in assets/wrappers/node.js).
THEOREM TypeCorrect == Spec => []TypeOK
<1>1. Inv => TypeOK
  <2> SUFFICES ASSUME Inv PROVE TypeOK
    OBVIOUS
  <2>1. ASSUME NEW c \in Container \ astray PROVE Len(answered[c]) <= taken[c]
    <3>1. PICK r \in Nat : Answering(c, r)
      BY DEF Inv, AnswerInv, StreamInv
    <3>2. wire[c] \in Seq(Part) /\ answered[c] \in Seq(Nat) /\ taken[c] \in Nat
      BY DEF Inv, AnswerInv, ClientTypes, WorkerTypes
    <3>3. First(wire[c], r) \in Int
      <4>1. CASE wire[c] = <<>>
        BY <4>1 DEF First
      <4>2. CASE wire[c] # <<>>
        <5>1. 1 \in DOMAIN wire[c]
          BY <3>2, <4>2
        <5> QED
          BY <3>2, <4>2, <5>1, AfterNumber DEF First
      <4> QED
        BY <4>1, <4>2
    <3>4. /\ Len(answered[c]) + 1 <= First(wire[c], r) /\ First(wire[c], r) <= r + 1
          /\ r <= taken[c] /\ Len(answered[c]) \in Nat
      BY <3>1, <3>2 DEF Answering
    <3> QED
      BY <3>2, <3>3, <3>4
  <2>2. ASSUME NEW c \in Container PROVE Len(answered[c]) <= Len(issued[c])
    <3>1. CASE c \in astray
      BY <3>1 DEF Inv, AstrayBounded
    <3>2. CASE c \notin astray
      <4>1. Len(answered[c]) <= taken[c] /\ taken[c] <= Len(issued[c])
        BY <2>1, <3>2 DEF Inv, WorkerTypes
      <4>2. Len(answered[c]) \in Nat /\ taken[c] \in Nat /\ Len(issued[c]) \in Nat
        BY DEF Inv, AnswerInv, ClientTypes, WorkerTypes
      <4> QED
        BY <4>1, <4>2
    <3> QED
      BY <3>1, <3>2
  <2> QED
    BY <2>1, <2>2 DEF Inv, RedisTypes, WorkerTypes, AnswerInv, ClientTypes, TypeOK
<1> QED
  BY <1>1, InvHolds, PTL

\* A promise of the wrapper gets the reply to its own command, however many commands
\* are on their way and however their replies are cut into chunks, as long as none
\* was dropped behind a nil and no chunk has ended within the length of a reply
\* (_socketData and _processResponse in assets/wrappers/node.js).
THEOREM OwnAnswer == Spec => []OwnReply
<1>1. Inv => OwnReply
  BY DEF Inv, AnswerInv, StreamInv, InTurn, OwnReply
<1> QED
  BY <1>1, InvHolds, PTL

-----------------------------------------------------------------------------
(* The recorded size                                                       *)

\* No two SETs are replacing the same value.
Single == \A k \in Key : \A c, d \in Replacing(k) : c = d

\* SizeAccounted with what its induction needs.  If two SETs of a key overlapped, the
\* first to store its value would change what the second still owes.
Sized ==
  ~drifted =>
    /\ Single
    /\ IsFiniteSet(StoredBytes) /\ IsFiniteSet(OwedBytes)
    /\ size + Cardinality(OwedBytes) = Cardinality(StoredBytes)

LEMMA StrLenNumber ==
  ASSUME RedisTypes, NEW k \in Key
  PROVE  StrLen(k) \in Nat
  BY DEF RedisTypes, StrLen

LEMMA OwedNumber ==
  ASSUME RedisTypes, WorkerTypes, NEW c \in Container
  PROVE  Owed(c) \in Nat
<1>1. pc[c] \in {"ready", "zadd", "hset", "incr", "pop", "gone"}
  BY DEF WorkerTypes
<1>2. pc[c] \in Piping => StrLen(current(c).key) \in Nat /\ current(c).len \in Nat
  BY CurrentTypes, StrLenNumber
<1> QED
  BY <1>1, <1>2 DEF Owed, Piping

\* A step that changes what one value holds, or what one SET owes, or neither.
LEMMA StoredChange ==
  ASSUME RedisTypes, RedisTypes', IsFiniteSet(StoredBytes), NEW k \in Key,
         \A l \in Key \ {k} : hset'[l] = hset[l]
  PROVE  /\ IsFiniteSet(StoredBytes')
         /\ Cardinality(StoredBytes') = Cardinality(StoredBytes) - StrLen(k) + StrLen(k)'
         /\ Cardinality(StoredBytes) \in Nat
<1>1. PICK m : m = [l \in Key |-> StrLen(l)]
  OBVIOUS
<1>2. PICK n : n = [l \in Key |-> StrLen(l)']
  OBVIOUS
<1>3. StoredBytes = UnitsIn(Key, m) /\ StoredBytes' = UnitsIn(Key, n)
  BY <1>1, <1>2 DEF StoredBytes, UnitsIn, UnitsOf
<1>4. /\ \A l \in Key \ {k} : n[l] = m[l]
      /\ m[k] = StrLen(k) /\ n[k] = StrLen(k)'
  BY <1>1, <1>2 DEF StrLen
<1>5. m[k] \in Nat /\ n[k] \in Nat
  BY <1>4 DEF StrLen, RedisTypes
<1>6. /\ IsFiniteSet(UnitsIn(Key, n))
      /\ Cardinality(UnitsIn(Key, n)) = Cardinality(UnitsIn(Key, m)) - m[k] + n[k]
      /\ Cardinality(UnitsIn(Key, m)) \in Nat
  BY <1>3, <1>4, <1>5, UnitsChange
<1> QED
  BY <1>3, <1>4, <1>6

LEMMA OwedChange ==
  ASSUME NEW c \in Container, \A d \in Container \ {c} : Owed(d)' = Owed(d),
         Owed(c) \in Nat, Owed(c)' \in Nat, IsFiniteSet(OwedBytes)
  PROVE  /\ IsFiniteSet(OwedBytes')
         /\ Cardinality(OwedBytes') = Cardinality(OwedBytes) - Owed(c) + Owed(c)'
         /\ Cardinality(OwedBytes) \in Nat
<1>1. PICK m : m = [d \in Container |-> Owed(d)]
  OBVIOUS
<1>2. PICK n : n = [d \in Container |-> Owed(d)']
  OBVIOUS
<1>3. OwedBytes = UnitsIn(Container, m) /\ OwedBytes' = UnitsIn(Container, n)
  BY <1>1, <1>2 DEF OwedBytes, UnitsIn, UnitsOf
<1>4. /\ \A d \in Container \ {c} : n[d] = m[d]
      /\ m[c] = Owed(c) /\ n[c] = Owed(c)' /\ m[c] \in Nat /\ n[c] \in Nat
  BY <1>1, <1>2
<1>5. /\ IsFiniteSet(UnitsIn(Container, n))
      /\ Cardinality(UnitsIn(Container, n)) = Cardinality(UnitsIn(Container, m)) - m[c] + n[c]
      /\ Cardinality(UnitsIn(Container, m)) \in Nat
  BY <1>3, <1>4, UnitsChange
<1> QED
  BY <1>3, <1>4, <1>5

LEMMA SizedSame ==
  ASSUME Sized, ~drifted' => ~drifted, UNCHANGED <<hset, size>>,
         \A d \in Container : Owed(d)' = Owed(d),
         \A k \in Key : Replacing(k)' \subseteq Replacing(k)
  PROVE  Sized'
<1>1. StoredBytes' = StoredBytes
  BY DEF StoredBytes, StrLen
<1>2. OwedBytes' = OwedBytes
  BY DEF OwedBytes
<1> QED
  BY <1>1, <1>2 DEF Sized, Single

\* A container that keeps its command and the place in its pipeline.
LEMMA SameCommand ==
  ASSUME NEW d \in Container, pc'[d] = pc[d], pc[d] \in Piping => current(d)' = current(d)
  PROVE  /\ \A k \in Key : d \in Replacing(k)' <=> d \in Replacing(k)
         /\ hset' = hset => Owed(d)' = Owed(d)
  BY DEF Owed, Replacing, StrLen, Piping

\* Redis loses the values.
LEMMA LoseSized ==
  ASSUME RedisTypes, WorkerTypes, Lose, UNCHANGED <<pc, taken, issued>>
  PROVE  Sized'
<1> SUFFICES ASSUME ~drifted'
             PROVE  /\ Single' /\ IsFiniteSet(StoredBytes') /\ IsFiniteSet(OwedBytes')
                    /\ size' + Cardinality(OwedBytes') = Cardinality(StoredBytes')
  BY DEF Sized
<1>1. /\ hset' = [k \in Key |-> None] /\ size' = 0
      /\ \A c \in Container : pc[c] # "incr"
      /\ \A k \in Key : ~(Cardinality(Replacing(k)) > 1)
  BY DEF Lose
<1>2. \A k \in Key : Replacing(k)' = Replacing(k)
  BY DEF Replacing, current
<1>3. ASSUME NEW k \in Key, NEW c \in Replacing(k), NEW d \in Replacing(k) PROVE c = d
  <2>1. IsFiniteSet(Replacing(k))
    BY UserCacheAssumption, FS_Subset DEF Replacing
  <2>2. Cardinality(Replacing(k)) \in Nat /\ Cardinality(Replacing(k)) <= 1
    BY <1>1, <2>1, FS_CardinalityType
  <2> SUFFICES ASSUME c # d PROVE FALSE
    OBVIOUS
  <2>3. IsFiniteSet({c}) /\ Cardinality({c}) = 1
    BY FS_Singleton
  <2>4. IsFiniteSet({c} \cup {d}) /\ Cardinality({c} \cup {d}) = 2
    <3>1. d \notin {c}
      OBVIOUS
    <3>2. Cardinality({c} \cup {d}) = Cardinality({c}) + 1
      BY <2>3, <3>1, FS_AddElement
    <3> QED
      BY <2>3, <3>2, FS_AddElement
  <2>5. {c} \cup {d} \subseteq Replacing(k)
    OBVIOUS
  <2>6. Cardinality({c} \cup {d}) <= Cardinality(Replacing(k))
    BY <2>1, <2>5, FS_Subset
  <2> QED
    BY <2>2, <2>4, <2>6
<1>4. ASSUME NEW c \in Container PROVE Owed(c)' = 0
  <2>1. pc[c] \in {"zadd", "hset"} => hset'[current(c).key] = None
    BY <1>1, CurrentTypes DEF Piping
  <2> QED
    BY <1>1, <2>1 DEF Owed, StrLen, current
<1>5. \A k \in Key : StrLen(k)' = 0
  BY <1>1 DEF StrLen
<1>6. PICK m : m = [k \in Key |-> StrLen(k)']
  OBVIOUS
<1>7. PICK n : n = [c \in Container |-> Owed(c)']
  OBVIOUS
<1>8. /\ StoredBytes' = UnitsIn(Key, m) /\ \A k \in Key : m[k] = 0
      /\ OwedBytes' = UnitsIn(Container, n) /\ \A c \in Container : n[c] = 0
  BY <1>4, <1>5, <1>6, <1>7 DEF StoredBytes, OwedBytes, UnitsIn, UnitsOf
<1>9. /\ IsFiniteSet(StoredBytes') /\ Cardinality(StoredBytes') = 0
      /\ IsFiniteSet(OwedBytes') /\ Cardinality(OwedBytes') = 0
  BY <1>8, UnitsNone
<1>10. Single'
  BY <1>2, <1>3 DEF Single
<1> QED
  BY <1>1, <1>9, <1>10

\* A SET subtracts the length of the old value, which it owes from then on.
LEMMA DecrSized ==
  ASSUME Sized, RedisTypes, RedisTypes', WorkerTypes, WorkerTypes',
         NEW c \in Container, DecrSize(c)
  PROVE  Sized'
<1> SUFFICES ASSUME ~drifted'
             PROVE  /\ Single' /\ IsFiniteSet(StoredBytes') /\ IsFiniteSet(OwedBytes')
                    /\ size' + Cardinality(OwedBytes') = Cardinality(StoredBytes')
  BY DEF Sized
<1>1. PICK k : k = issued[c][taken'[c]].key
  OBVIOUS
<1>2. /\ Takes(c, "SET") /\ pc' = [pc EXCEPT ![c] = "zadd"]
      /\ UNCHANGED <<hset, issued>> /\ ~drifted /\ Replacing(k) = {}
      /\ size' = IF scripts THEN size - StrLen(k) ELSE size
      /\ ~(~scripts /\ StrLen(k) > 0)
  BY <1>1 DEF DecrSize, clientVars
<1>3. /\ k \in Key /\ taken' = [taken EXCEPT ![c] = taken[c] + 1] /\ pc[c] = "ready"
  BY <1>1, <1>2, TakesTypes
<1>4. StrLen(k) \in Nat /\ size' = size - StrLen(k)
  BY <1>2, <1>3, StrLenNumber DEF RedisTypes
<1>5. pc'[c] = "zadd" /\ current(c)'.key = k
  BY <1>1, <1>2 DEF WorkerTypes, current
<1>6. ASSUME NEW d \in Container \ {c}
      PROVE  /\ \A l \in Key : d \in Replacing(l)' <=> d \in Replacing(l)
             /\ Owed(d)' = Owed(d)
  <2>1. pc'[d] = pc[d] /\ current(d)' = current(d)
    BY <1>2, <1>3 DEF WorkerTypes, current
  <2> QED
    BY <1>2, <2>1, SameCommand
<1>7. Owed(c) = 0 /\ Owed(c)' = StrLen(k)
  <2>1. Owed(c) = 0
    BY <1>3 DEF Owed
  <2>2. Owed(c)' = StrLen(current(c).key)'
    BY <1>5 DEF Owed
  <2>3. StrLen(current(c).key)' = StrLen(k)
    BY <1>2, <1>5 DEF StrLen
  <2> QED
    BY <2>1, <2>2, <2>3
<1>8. StoredBytes' = StoredBytes
  BY <1>2 DEF StoredBytes, StrLen
<1>9. /\ IsFiniteSet(OwedBytes')
      /\ Cardinality(OwedBytes') = Cardinality(OwedBytes) - Owed(c) + Owed(c)'
      /\ Cardinality(OwedBytes) \in Nat
  BY <1>2, <1>4, <1>6, <1>7, OwedChange DEF Sized
<1>10. Single'
  <2>1. \A d \in Replacing(k)' : d = c
    BY <1>2, <1>3, <1>6 DEF Replacing
  <2>2. \A l \in Key : c \in Replacing(l)' => l = k
    BY <1>5 DEF Replacing
  <2>3. \A l \in Key : Replacing(l)' \subseteq Container
    BY DEF Replacing
  <2> SUFFICES ASSUME NEW l \in Key, NEW d \in Replacing(l)', NEW e \in Replacing(l)'
               PROVE  d = e
    BY DEF Single
  <2>4. CASE l = k
    BY <2>1, <2>4
  <2>5. CASE l # k
    <3>1. d # c /\ e # c /\ d \in Container /\ e \in Container
      BY <2>2, <2>3, <2>5
    <3>2. d \in Replacing(l) /\ e \in Replacing(l)
      BY <1>6, <3>1
    <3> QED
      BY <1>2, <3>2 DEF Sized, Single
  <2> QED
    BY <2>4, <2>5
<1>11. size + Cardinality(OwedBytes) = Cardinality(StoredBytes) /\ IsFiniteSet(StoredBytes)
  BY <1>2 DEF Sized
<1>12. size' + Cardinality(OwedBytes') = size + Cardinality(OwedBytes)
  BY <1>4, <1>7, <1>9 DEF RedisTypes
<1> QED
  BY <1>8, <1>9, <1>10, <1>11, <1>12

\* It stores its value, and owes the length of that one instead.
LEMMA HSetSized ==
  ASSUME Sized, RedisTypes, RedisTypes', WorkerTypes, NEW c \in Container, HSet(c)
  PROVE  Sized'
<1> SUFFICES ASSUME ~drifted'
             PROVE  /\ Single' /\ IsFiniteSet(StoredBytes') /\ IsFiniteSet(OwedBytes')
                    /\ size' + Cardinality(OwedBytes') = Cardinality(StoredBytes')
  BY DEF Sized
<1>1. PICK k : k = current(c).key
  OBVIOUS
<1>2. PICK len : len = current(c).len
  OBVIOUS
<1>3. /\ hset' = [hset EXCEPT ![k] = len] /\ pc[c] = "hset"
      /\ pc' = [pc EXCEPT ![c] = "incr"]
      /\ UNCHANGED <<size, taken, issued>> /\ ~drifted
  BY <1>1, <1>2 DEF HSet, clientVars
<1>4. k \in Key /\ len \in Nat
  BY <1>1, <1>2, <1>3, CurrentTypes DEF Piping
<1>5. /\ Single /\ IsFiniteSet(StoredBytes) /\ IsFiniteSet(OwedBytes)
      /\ size + Cardinality(OwedBytes) = Cardinality(StoredBytes)
  BY <1>3 DEF Sized
<1>6. /\ c \in Replacing(k) /\ \A d \in Replacing(k) : d = c
  BY <1>1, <1>3, <1>4, <1>5 DEF Replacing, Single
<1>7. pc'[c] = "incr" /\ \A d \in Container : current(d)' = current(d)
  BY <1>3 DEF WorkerTypes, current
<1>8. StrLen(k)' = len /\ StrLen(k) \in Nat
  BY <1>3, <1>4, UserCacheAssumption, StrLenNumber DEF RedisTypes, StrLen
<1>9. Owed(c) = StrLen(k) /\ Owed(c)' = len
  BY <1>1, <1>2, <1>3, <1>7 DEF Owed
<1>10. ASSUME NEW d \in Container \ {c}
       PROVE  /\ Owed(d)' = Owed(d)
              /\ \A l \in Key : d \in Replacing(l)' <=> d \in Replacing(l)
  <2>1. pc'[d] = pc[d] /\ current(d)' = current(d)
    BY <1>3, <1>7 DEF WorkerTypes
  <2>2. \A l \in Key : d \in Replacing(l)' <=> d \in Replacing(l)
    BY <2>1, SameCommand
  <2>3. pc[d] \in {"zadd", "hset"} => StrLen(current(d).key)' = StrLen(current(d).key)
    <3>1. ASSUME pc[d] \in {"zadd", "hset"} PROVE current(d).key # k /\ current(d).key \in Key
      BY <1>6, <3>1, CurrentTypes DEF Replacing, Piping
    <3>2. ASSUME NEW l \in Key, l # k PROVE hset'[l] = hset[l]
      BY <1>3, <3>2 DEF RedisTypes
    <3>3. ASSUME pc[d] \in {"zadd", "hset"}
          PROVE  hset'[current(d).key] = hset[current(d).key]
      BY <3>1, <3>2, <3>3
    <3> QED
      BY <2>1, <3>3 DEF StrLen
  <2> QED
    BY <2>1, <2>2, <2>3 DEF Owed
<1>11. /\ IsFiniteSet(OwedBytes')
       /\ Cardinality(OwedBytes') = Cardinality(OwedBytes) - Owed(c) + Owed(c)'
       /\ Cardinality(OwedBytes) \in Nat
  BY <1>4, <1>5, <1>8, <1>9, <1>10, OwedChange
<1>12. /\ IsFiniteSet(StoredBytes')
       /\ Cardinality(StoredBytes') = Cardinality(StoredBytes) - StrLen(k) + StrLen(k)'
       /\ Cardinality(StoredBytes) \in Nat
  <2>1. \A l \in Key \ {k} : hset'[l] = hset[l]
    BY <1>3 DEF RedisTypes
  <2> QED
    BY <1>4, <1>5, <2>1, StoredChange
<1>13. Single'
  <2>1. \A l \in Key : Replacing(l)' \subseteq Replacing(l)
    BY <1>7, <1>10 DEF Replacing
  <2> QED
    BY <1>5, <2>1 DEF Single
<1>14. size' + Cardinality(OwedBytes') = Cardinality(StoredBytes')
  BY <1>3, <1>4, <1>5, <1>8, <1>9, <1>11, <1>12 DEF RedisTypes
<1> QED
  BY <1>11, <1>12, <1>13, <1>14

\* It adds what it owes.
LEMMA HIncrBySized ==
  ASSUME Sized, RedisTypes, WorkerTypes, NEW c \in Container, HIncrBy(c)
  PROVE  Sized'
<1> SUFFICES ASSUME ~drifted'
             PROVE  /\ Single' /\ IsFiniteSet(StoredBytes') /\ IsFiniteSet(OwedBytes')
                    /\ size' + Cardinality(OwedBytes') = Cardinality(StoredBytes')
  BY DEF Sized
<1>1. PICK next : next = IF c \in erred THEN "gone" ELSE "pop"
  OBVIOUS
<1>2. /\ size' = size + current(c).len /\ pc[c] = "incr"
      /\ pc' = [pc EXCEPT ![c] = next] /\ next \in {"gone", "pop"}
      /\ UNCHANGED <<hset, taken, issued>> /\ ~drifted
  BY <1>1 DEF HIncrBy, clientVars
<1>3. current(c).len \in Nat
  BY <1>2, CurrentTypes DEF Piping
<1>4. /\ Single /\ IsFiniteSet(StoredBytes) /\ IsFiniteSet(OwedBytes)
      /\ size + Cardinality(OwedBytes) = Cardinality(StoredBytes)
  BY <1>2 DEF Sized
<1>5. pc'[c] = next /\ \A d \in Container : current(d)' = current(d)
  BY <1>2 DEF WorkerTypes, current
<1>6. Owed(c) = current(c).len /\ Owed(c)' = 0
  BY <1>2, <1>5 DEF Owed
<1>7. ASSUME NEW d \in Container \ {c}
      PROVE  /\ Owed(d)' = Owed(d)
             /\ \A l \in Key : d \in Replacing(l)' <=> d \in Replacing(l)
  <2>1. pc'[d] = pc[d] /\ current(d)' = current(d)
    BY <1>2, <1>5 DEF WorkerTypes
  <2> QED
    BY <1>2, <2>1, SameCommand
<1>8. StoredBytes' = StoredBytes
  BY <1>2 DEF StoredBytes, StrLen
<1>9. /\ IsFiniteSet(OwedBytes')
      /\ Cardinality(OwedBytes') = Cardinality(OwedBytes) - Owed(c) + Owed(c)'
      /\ Cardinality(OwedBytes) \in Nat
  BY <1>3, <1>4, <1>6, <1>7, OwedChange
<1>10. Single'
  <2>1. \A l \in Key : Replacing(l)' \subseteq Replacing(l)
    BY <1>2, <1>5, <1>7 DEF Replacing
  <2> QED
    BY <1>4, <2>1 DEF Single
<1>11. size' + Cardinality(OwedBytes') = size + Cardinality(OwedBytes)
  BY <1>2, <1>3, <1>6, <1>9 DEF RedisTypes
<1> QED
  BY <1>4, <1>8, <1>9, <1>10, <1>11

\* The steps of one container, of which only its place in the pipeline changes.
LEMMA PlaceSized ==
  ASSUME Sized, WorkerTypes, NEW c \in Container, NEW next, pc' = [pc EXCEPT ![c] = next],
         UNCHANGED <<hset, size>>, ~drifted' => ~drifted,
         \A d \in Container : d # c => current(d)' = current(d),
         ~drifted' => Owed(c)' = Owed(c),
         \A k \in Key : c \in Replacing(k)' => c \in Replacing(k)
  PROVE  Sized'
<1>1. ASSUME NEW d \in Container, d # c
      PROVE  /\ Owed(d)' = Owed(d)
             /\ \A k \in Key : d \in Replacing(k)' <=> d \in Replacing(k)
  <2>1. pc'[d] = pc[d]
    BY <1>1 DEF WorkerTypes
  <2> QED
    BY <1>1, <2>1, SameCommand
<1>2. \A k \in Key : Replacing(k)' \subseteq Replacing(k)
  BY <1>1 DEF Replacing
<1>3. CASE ~drifted'
  <2>1. \A d \in Container : Owed(d)' = Owed(d)
    BY <1>1, <1>3
  <2> QED
    BY <1>2, <2>1, SizedSame
<1>4. CASE drifted'
  BY <1>4 DEF Sized
<1> QED
  BY <1>3, <1>4

LEMMA SizedStep ==
  ASSUME Sized, Inv, Inv', [Next]_vars
  PROVE  Sized'
<1>0. RedisTypes /\ RedisTypes' /\ WorkerTypes /\ WorkerTypes'
  BY DEF Inv
<1>1. ASSUME NEW c \in Container, ZAdd(c) PROVE Sized'
  <2>1. /\ pc[c] = "zadd" /\ pc' = [pc EXCEPT ![c] = "hset"]
        /\ UNCHANGED <<hset, size, drifted, taken, issued>>
    BY <1>1 DEF ZAdd, clientVars
  <2>2. pc'[c] = "hset" /\ \A d \in Container : current(d)' = current(d)
    BY <1>0, <2>1 DEF WorkerTypes, current
  <2>3. Owed(c)' = Owed(c)
    BY <2>1, <2>2 DEF Owed, StrLen
  <2>4. \A k \in Key : c \in Replacing(k)' => c \in Replacing(k)
    BY <2>1, <2>2 DEF Replacing
  <2> QED
    BY <1>0, <2>1, <2>2, <2>3, <2>4, PlaceSized
<1>2. ASSUME NEW c \in Container, Pop(c) \/ NoPop(c) PROVE Sized'
  <2>1. PICK next \in {"ready", "gone"} : pc' = [pc EXCEPT ![c] = next]
    BY <1>2 DEF Pop, NoPop
  <2>2. /\ pc[c] = "pop" /\ UNCHANGED <<hset, size, drifted, taken, issued>>
    BY <1>2 DEF Pop, NoPop, redisVars, clientVars
  <2>3. pc'[c] = next /\ \A d \in Container : current(d)' = current(d)
    BY <1>0, <2>1, <2>2 DEF WorkerTypes, current
  <2>4. Owed(c)' = Owed(c) /\ \A k \in Key : c \notin Replacing(k)'
    BY <2>2, <2>3 DEF Owed, Replacing
  <2> QED
    BY <1>0, <2>1, <2>2, <2>3, <2>4, PlaceSized
<1>3. ASSUME NEW c \in Container, Cut(c) PROVE Sized'
  <2>1. /\ pc' = [pc EXCEPT ![c] = "gone"] /\ UNCHANGED <<hset, size, taken, issued>>
        /\ ~drifted' => ~drifted /\ Owed(c) = 0
    BY <1>3 DEF Cut, redisVars, clientVars
  <2>2. pc'[c] = "gone" /\ \A d \in Container : current(d)' = current(d)
    BY <1>0, <2>1 DEF WorkerTypes, current
  <2>3. Owed(c)' = 0 /\ \A k \in Key : c \notin Replacing(k)'
    BY <2>2 DEF Owed, Replacing
  <2>4. ~drifted' => Owed(c)' = Owed(c)
    BY <2>1, <2>3
  <2> QED
    BY <1>0, <2>1, <2>2, <2>3, <2>4, PlaceSized
<1>4. ASSUME NEW c \in Container, Refuse(c) PROVE Sized'
  <2>1. /\ pc' = [pc EXCEPT ![c] = "gone"] /\ UNCHANGED <<hset, size, drifted, issued>>
    BY <1>4 DEF Refuse, redisVars, clientVars
  <2>2. PICK op : Takes(c, op)
    BY <1>4 DEF Refuse
  <2>3. pc[c] = "ready" /\ taken' = [taken EXCEPT ![c] = taken[c] + 1]
    BY <1>0, <2>2, TakesTypes
  <2>4. pc'[c] = "gone" /\ \A d \in Container : d # c => current(d)' = current(d)
    BY <1>0, <2>1, <2>3 DEF WorkerTypes, current
  <2>5. Owed(c)' = Owed(c) /\ \A k \in Key : c \notin Replacing(k)'
    BY <2>3, <2>4 DEF Owed, Replacing
  <2> QED
    BY <1>0, <2>1, <2>4, <2>5, PlaceSized
<1>5. ASSUME NEW c \in Container, Get(c) PROVE Sized'
  <2>1. pc' = pc /\ UNCHANGED <<hset, size, drifted, issued>> /\ Takes(c, "GET")
    BY <1>5 DEF Get, redisVars
  <2>2. pc[c] = "ready" /\ taken' = [taken EXCEPT ![c] = taken[c] + 1]
    BY <1>0, <2>1, TakesTypes
  <2>3. pc' = [pc EXCEPT ![c] = "ready"]
    BY <1>0, <2>1, <2>2 DEF WorkerTypes
  <2>4. pc'[c] = "ready" /\ \A d \in Container : d # c => current(d)' = current(d)
    BY <1>0, <2>1, <2>2 DEF WorkerTypes, current
  <2>5. Owed(c)' = Owed(c) /\ \A k \in Key : c \notin Replacing(k)'
    BY <2>2, <2>4 DEF Owed, Replacing
  <2> QED
    BY <1>0, <2>1, <2>3, <2>4, <2>5, PlaceSized
<1>6. ASSUME UNCHANGED <<hset, size, drifted, pc>>,
             \A d \in Container : pc[d] \in Piping => current(d)' = current(d)
      PROVE  Sized'
  <2>1. ASSUME NEW d \in Container
        PROVE  /\ Owed(d)' = Owed(d)
               /\ \A k \in Key : d \in Replacing(k)' <=> d \in Replacing(k)
    BY <1>6, SameCommand
  <2>2. \A k \in Key : Replacing(k)' \subseteq Replacing(k)
    BY <2>1 DEF Replacing
  <2> QED
    BY <1>6, <2>1, <2>2, SizedSame
<1>7. ASSUME NEW c \in Container, SendCommand(c) PROVE Sized'
  <2>1. PICK command : issued' = [issued EXCEPT ![c] = Append(@, command)]
    BY <1>7 DEF SendCommand
  <2>2. UNCHANGED <<hset, size, drifted, pc, taken>>
    BY <1>7 DEF SendCommand, redisVars, workerVars
  <2>3. ASSUME NEW d \in Container, pc[d] \in Piping PROVE current(d)' = current(d)
    <3>1. taken[d] \in 1..Len(issued[d]) /\ issued[d] \in Seq(Command)
      BY <1>0, <2>3 DEF WorkerTypes
    <3>2. CASE d = c
      <4>1. issued'[d] = Append(issued[d], command)
        BY <1>0, <2>1, <3>2 DEF WorkerTypes
      <4>2. Append(issued[d], command)[taken[d]] = issued[d][taken[d]]
        BY <3>1
      <4> QED
        BY <2>2, <4>1, <4>2 DEF current
    <3>3. CASE d # c
      BY <1>0, <2>1, <2>2, <3>3 DEF WorkerTypes, current
    <3> QED
      BY <3>2, <3>3
  <2> QED
    BY <1>6, <2>2, <2>3
<1>8. ASSUME NEW c \in Container, Receive(c) PROVE Sized'
  <2>1. UNCHANGED <<hset, size, drifted, pc, taken, issued>>
    BY <1>8 DEF Receive, SocketData, SplitLength, ReadAstray, redisVars, workerVars
  <2> QED
    BY <1>6, <2>1 DEF current
<1>9. CASE Expire \/ Restart
  <2>1. UNCHANGED <<pc, taken, issued>>
    BY <1>9 DEF Expire, Restart, workerVars, clientVars
  <2>2. CASE Lose
    BY <1>0, <2>1, <2>2, LoseSized
  <2>3. CASE UNCHANGED <<hset, size, zset, drifted>>
    BY <1>6, <2>1, <2>3 DEF current
  <2> QED
    BY <1>9, <2>2, <2>3 DEF Expire, Restart
<1>10. CASE UNCHANGED vars
  <2>1. UNCHANGED <<hset, size, drifted, pc, taken, issued>>
    BY <1>10 DEF vars, redisVars, workerVars, clientVars
  <2> QED
    BY <1>6, <2>1 DEF current
<1>11. ASSUME NEW c \in Container, DecrSize(c) \/ HSet(c) \/ HIncrBy(c) PROVE Sized'
  BY <1>0, <1>11, DecrSized, HSetSized, HIncrBySized
<1> QED
  BY <1>1, <1>2, <1>3, <1>4, <1>5, <1>7, <1>8, <1>9, <1>10, <1>11 DEF Next, ProcessStep, Receive

\* The recorded size is that of the stored values but for what the SETs on their way
\* have yet to add, for every number of containers, keys and commands, as long as no
\* two SETs of a key overlap, no pipeline is cut and no values are lost under a SET
\* (processSET and redisDecrSizeScript in app/script/user_cache.go).
THEOREM SizeTrue == Spec => []SizeAccounted
<1>1. Init => Sized
  <2> SUFFICES ASSUME Init PROVE Sized
    OBVIOUS
  <2>1. Single
    BY DEF Init, Single, Replacing
  <2>2. PICK m : m = [k \in Key |-> StrLen(k)]
    OBVIOUS
  <2>3. PICK n : n = [c \in Container |-> Owed(c)]
    OBVIOUS
  <2>4. /\ StoredBytes = UnitsIn(Key, m) /\ OwedBytes = UnitsIn(Container, n)
    BY <2>2, <2>3 DEF StoredBytes, OwedBytes, UnitsIn, UnitsOf
  <2>5. (\A k \in Key : m[k] = 0) /\ (\A c \in Container : n[c] = 0)
    BY <2>2, <2>3 DEF Init, StrLen, Owed
  <2>6. /\ IsFiniteSet(StoredBytes) /\ Cardinality(StoredBytes) = 0
        /\ IsFiniteSet(OwedBytes) /\ Cardinality(OwedBytes) = 0
    BY <2>4, <2>5, UnitsNone
  <2>7. size = 0
    BY DEF Init
  <2> QED
    BY <2>1, <2>6, <2>7 DEF Sized
<1>2. Sized /\ Inv /\ Inv' /\ [Next]_vars => Sized'
  BY SizedStep
<1>3. Sized => SizeAccounted
  BY DEF Sized, SizeAccounted
<1> QED
  BY <1>1, <1>2, <1>3, InvHolds, PTL DEF Spec
=============================================================================
