------------------------------ MODULE UnitSets ------------------------------
(***************************************************************************)
(* Counting the units of a resource that several holders have: a set of    *)
(* pairs of a holder and a number, for which no sum has to be defined.     *)
(***************************************************************************)
EXTENDS Integers, FiniteSets, FiniteSetTheorems, TLAPS

\* n units of x, and m[x] units of each x of S.
UnitsOf(x, n) == {x} \X (1..n)
UnitsIn(S, m) == UNION {UnitsOf(x, m[x]) : x \in S}

LEMMA UnitsOfNumber ==
  ASSUME NEW x, NEW n \in Nat
  PROVE  IsFiniteSet(UnitsOf(x, n)) /\ Cardinality(UnitsOf(x, n)) = n
<1>1. IsFiniteSet({x}) /\ Cardinality({x}) = 1
  BY FS_Singleton
<1>2. IsFiniteSet(1..n) /\ Cardinality(1..n) = n
  BY FS_Interval
<1> DEFINE S == {x}
           T == 1..n
<1>3. IsFiniteSet(S) /\ IsFiniteSet(T)
  BY <1>1, <1>2
<1> HIDE DEF S, T
<1>4. IsFiniteSet(S \X T) /\ Cardinality(S \X T) = Cardinality(S) * Cardinality(T)
  BY <1>3, FS_Product
<1>5. Cardinality(S) = 1 /\ Cardinality(T) = n
  BY <1>1, <1>2 DEF S, T
<1>6. Cardinality(S \X T) = n
  BY <1>4, <1>5
<1> QED
  BY <1>4, <1>6 DEF UnitsOf, S, T

-----------------------------------------------------------------------------
(* One holder's units are added to a set of units, or taken from it *)

LEMMA GainUnits ==
  ASSUME NEW U, IsFiniteSet(U), NEW x, NEW n \in Nat, U \cap UnitsOf(x, n) = {}
  PROVE  Cardinality(U \cup UnitsOf(x, n)) = Cardinality(U) + n
<1>1. Cardinality(U \cup UnitsOf(x, n)) =
        Cardinality(U) + Cardinality(UnitsOf(x, n)) - Cardinality(U \cap UnitsOf(x, n))
  BY UnitsOfNumber, FS_Union
<1>2. Cardinality(U \cap UnitsOf(x, n)) = 0
  BY FS_EmptySet
<1>3. Cardinality(U) \in Nat /\ Cardinality(UnitsOf(x, n)) = n
  BY UnitsOfNumber, FS_CardinalityType
<1> QED
  BY <1>1, <1>2, <1>3

LEMMA LoseUnits ==
  ASSUME NEW U, IsFiniteSet(U), NEW x, NEW n \in Nat, UnitsOf(x, n) \subseteq U
  PROVE  /\ Cardinality(U \ UnitsOf(x, n)) = Cardinality(U) - n
         /\ n <= Cardinality(U)
<1>1. U \cap UnitsOf(x, n) = UnitsOf(x, n)
  OBVIOUS
<1>2. Cardinality(U \ UnitsOf(x, n)) = Cardinality(U) - Cardinality(U \cap UnitsOf(x, n))
  BY FS_Difference
<1>3. Cardinality(UnitsOf(x, n)) <= Cardinality(U)
  BY FS_Subset
<1> QED
  BY <1>1, <1>2, <1>3, UnitsOfNumber

-----------------------------------------------------------------------------
(* The units of several holders: S gains a holder, loses one, or one of    *)
(* its holders has another number of units                                 *)

LEMMA UnitsMember ==
  ASSUME NEW S, NEW m, NEW u
  PROVE  u \in UnitsIn(S, m) <=> \E x \in S : \E i \in 1..m[x] : u = <<x, i>>
  BY DEF UnitsIn, UnitsOf

LEMMA UnitsSame ==
  ASSUME NEW S, NEW m, NEW n, \A x \in S : n[x] = m[x]
  PROVE  UnitsIn(S, n) = UnitsIn(S, m)
<1>1. \A u : u \in UnitsIn(S, n) <=> u \in UnitsIn(S, m)
  BY UnitsMember
<1> QED
  BY <1>1

LEMMA UnitsNone ==
  ASSUME NEW S, NEW m, \A x \in S : m[x] = 0
  PROVE  /\ UnitsIn(S, m) = {}
         /\ IsFiniteSet(UnitsIn(S, m)) /\ Cardinality(UnitsIn(S, m)) = 0
<1>1. 1..0 = {}
  OBVIOUS
<1>2. \A u : u \notin UnitsIn(S, m)
  BY <1>1, UnitsMember
<1> QED
  BY <1>2, FS_EmptySet

LEMMA UnitsGain ==
  ASSUME NEW S, NEW x, x \notin S, NEW m, NEW n, \A y \in S : n[y] = m[y], n[x] \in Nat,
         IsFiniteSet(UnitsIn(S, m))
  PROVE  /\ IsFiniteSet(UnitsIn(S \cup {x}, n))
         /\ Cardinality(UnitsIn(S \cup {x}, n)) = Cardinality(UnitsIn(S, m)) + n[x]
         /\ Cardinality(UnitsIn(S, m)) \in Nat
<1>1. PICK U : U = UnitsOf(x, n[x])
  OBVIOUS
<1>2. \A u : u \in U <=> \E i \in 1..n[x] : u = <<x, i>>
  BY <1>1 DEF UnitsOf
<1>3. UnitsIn(S \cup {x}, n) = UnitsIn(S, m) \cup U
  <2>1. \A u : u \in UnitsIn(S \cup {x}, n) <=> u \in UnitsIn(S, m) \/ u \in U
    BY <1>2, UnitsMember
  <2> QED
    BY <2>1
<1>4. UnitsIn(S, m) \cap U = {}
  BY <1>2, UnitsMember
<1>5. IsFiniteSet(U) /\ Cardinality(UnitsIn(S, m) \cup U) = Cardinality(UnitsIn(S, m)) + n[x]
  BY <1>1, <1>4, UnitsOfNumber, GainUnits
<1>6. IsFiniteSet(UnitsIn(S, m) \cup U) /\ Cardinality(UnitsIn(S, m)) \in Nat
  BY <1>5, FS_Union, FS_CardinalityType
<1> QED
  BY <1>3, <1>5, <1>6

LEMMA UnitsLose ==
  ASSUME NEW S, NEW x \in S, NEW m, NEW n, \A y \in S \ {x} : n[y] = m[y], m[x] \in Nat,
         IsFiniteSet(UnitsIn(S, m))
  PROVE  /\ IsFiniteSet(UnitsIn(S \ {x}, n))
         /\ Cardinality(UnitsIn(S, m)) = Cardinality(UnitsIn(S \ {x}, n)) + m[x]
         /\ Cardinality(UnitsIn(S \ {x}, n)) \in Nat
<1>1. PICK T : T = S \ {x}
  OBVIOUS
<1>2. S = T \cup {x} /\ x \notin T
  BY <1>1
<1>3. UnitsIn(T, n) \subseteq UnitsIn(S, m)
  BY <1>1, UnitsMember
<1>4. IsFiniteSet(UnitsIn(T, n))
  BY <1>3, FS_Subset
<1>5. \A y \in T : m[y] = n[y]
  BY <1>1
<1>6. /\ Cardinality(UnitsIn(T \cup {x}, m)) = Cardinality(UnitsIn(T, n)) + m[x]
      /\ Cardinality(UnitsIn(T, n)) \in Nat
  BY <1>2, <1>4, <1>5, UnitsGain
<1> QED
  BY <1>1, <1>2, <1>4, <1>6

LEMMA UnitsChange ==
  ASSUME NEW S, NEW x \in S, NEW m, NEW n, \A y \in S \ {x} : n[y] = m[y],
         m[x] \in Nat, n[x] \in Nat, IsFiniteSet(UnitsIn(S, m))
  PROVE  /\ IsFiniteSet(UnitsIn(S, n))
         /\ Cardinality(UnitsIn(S, n)) = Cardinality(UnitsIn(S, m)) - m[x] + n[x]
         /\ Cardinality(UnitsIn(S, m)) \in Nat
<1>1. PICK T : T = S \ {x}
  OBVIOUS
<1>2. S = T \cup {x} /\ x \notin T /\ \A y \in T : n[y] = m[y]
  BY <1>1
<1>3. /\ IsFiniteSet(UnitsIn(T, n)) /\ UnitsIn(T, n) = UnitsIn(T, m)
      /\ Cardinality(UnitsIn(S, m)) = Cardinality(UnitsIn(T, n)) + m[x]
      /\ Cardinality(UnitsIn(T, n)) \in Nat
  BY <1>1, <1>2, UnitsLose, UnitsSame
<1>4. /\ IsFiniteSet(UnitsIn(T \cup {x}, n))
      /\ Cardinality(UnitsIn(T \cup {x}, n)) = Cardinality(UnitsIn(T, n)) + n[x]
  BY <1>2, <1>3, UnitsGain
<1>5. Cardinality(UnitsIn(T, n)) + n[x] = Cardinality(UnitsIn(S, m)) - m[x] + n[x]
  BY <1>3
<1> QED
  BY <1>2, <1>3, <1>4, <1>5, FS_CardinalityType
=============================================================================
