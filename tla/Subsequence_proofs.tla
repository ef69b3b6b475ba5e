------------------------- MODULE Subsequence_proofs -------------------------
(* What InOrder and Picked return, for every finite set of positions. *)
EXTENDS Subsequence, Integers, FiniteSetTheorems, FunctionTheorems, TLAPS

Rank(I, i) == Cardinality({j \in I : j < i})

LEMMA RankRises ==
    ASSUME NEW I, I \subseteq Nat, IsFiniteSet(I), NEW a \in I, NEW b \in I, a < b
    PROVE  Rank(I, a) < Rank(I, b)
<1> DEFINE A == {j \in I : j < a}
           B == {j \in I : j < b}
<1>0. a \in Nat /\ b \in Nat
  OBVIOUS
<1>1. A \in SUBSET B /\ a \in B /\ a \notin A /\ B \in SUBSET I
  <2>1. ASSUME NEW j \in I, j < a PROVE j < b
    <3>1. j \in Nat
      OBVIOUS
    <3> QED BY <1>0, <2>1, <3>1
  <2>2. a \notin A
    BY <1>0
  <2> QED BY <2>1, <2>2
<1>2. IsFiniteSet(B)
  BY <1>1, FS_Subset
<1> HIDE DEF A, B
<1>3. /\ IsFiniteSet(A) /\ Cardinality(A) <= Cardinality(B)
      /\ Cardinality(B) = Cardinality(A) => B = A
  BY <1>1, <1>2, FS_Subset
<1>4. Cardinality(A) \in Nat /\ Cardinality(B) \in Nat
  BY <1>2, <1>3, FS_CardinalityType
<1>5. Cardinality(A) < Cardinality(B)
  BY <1>1, <1>3, <1>4
<1> QED BY <1>5 DEF Rank, A, B

LEMMA RankBound ==
    ASSUME NEW I, I \subseteq Nat, IsFiniteSet(I), NEW a \in I
    PROVE  Rank(I, a) \in 0..(Cardinality(I) - 1) /\ Cardinality(I) \in Nat
<1> DEFINE A == {j \in I : j < a}
<1>1. A \in SUBSET I /\ a \notin A /\ a \in Nat
  OBVIOUS
<1> HIDE DEF A
<1>2. /\ IsFiniteSet(A) /\ Cardinality(A) <= Cardinality(I)
      /\ Cardinality(I) = Cardinality(A) => I = A
  BY <1>1, FS_Subset
<1>3. Cardinality(A) \in Nat /\ Cardinality(I) \in Nat
  BY <1>2, FS_CardinalityType
<1> QED BY <1>1, <1>2, <1>3 DEF Rank, A

(* Every rank is somebody's: by the pigeonhole principle, since ranks are distinct. *)
LEMMA RankTaken ==
    ASSUME NEW I, I \subseteq Nat, IsFiniteSet(I), NEW k \in 1..Cardinality(I)
    PROVE  \E i \in I : Rank(I, i) = k - 1
<1> DEFINE n == Cardinality(I)
           T == (0..(n - 1)) \ {k - 1}
           f == [i \in I |-> Rank(I, i)]
<1>1. n \in Nat
  BY FS_CardinalityType
<1>2. k \in Nat /\ 1 <= k /\ k <= n
  BY <1>1
<1> HIDE DEF n
<1>3. IsFiniteSet(0..(n - 1)) /\ Cardinality(0..(n - 1)) = n
  <2>1. IsFiniteSet(0..(n - 1)) /\ Cardinality(0..(n - 1)) = IF 0 > n - 1 THEN 0 ELSE (n - 1) - 0 + 1
    BY <1>1, FS_Interval
  <2> QED BY <1>1, <2>1
<1>4. k - 1 \in 0..(n - 1)
  BY <1>1, <1>2
<1>5. IsFiniteSet(T) /\ Cardinality(T) = n - 1
  BY <1>3, <1>4, FS_RemoveElement
<1> SUFFICES ASSUME \A i \in I : Rank(I, i) # k - 1 PROVE FALSE
  OBVIOUS
<1>6. \A i \in I : Rank(I, i) \in 0..(n - 1)
  BY RankBound DEF n
<1>7. f \in [I -> T]
  BY <1>6
<1>8. Cardinality(T) < Cardinality(I)
  BY <1>1, <1>5 DEF n
<1> HIDE DEF T
<1>9. \E x, y \in I : x # y /\ f[x] = f[y]
  <2> HIDE DEF f
  <2> QED BY <1>5, <1>7, <1>8, FS_PigeonHole
<1>10. PICK x \in I, y \in I : x # y /\ Rank(I, x) = Rank(I, y)
  BY <1>9
<1>11. x \in Nat /\ y \in Nat /\ (x < y \/ y < x)
  BY <1>10
<1>12. Rank(I, x) \in Int /\ Rank(I, y) \in Int
  BY <1>1, <1>6
<1>13. ASSUME NEW a \in I, NEW b \in I, a < b PROVE Rank(I, a) < Rank(I, b)
  BY <1>13, RankRises
<1>14. Rank(I, x) < Rank(I, y) \/ Rank(I, y) < Rank(I, x)
  BY <1>11, <1>13
<1> QED BY <1>10, <1>12, <1>14

(* InOrder lists the set, each member once, in order. *)
THEOREM InOrderLists ==
    ASSUME NEW I, I \subseteq Nat, IsFiniteSet(I)
    PROVE  /\ Cardinality(I) \in Nat
           /\ InOrder(I) \in Seq(I) /\ Len(InOrder(I)) = Cardinality(I)
           /\ DOMAIN InOrder(I) = 1..Cardinality(I)
           /\ \A j, k \in DOMAIN InOrder(I) : j < k => InOrder(I)[j] < InOrder(I)[k]
           /\ \A i \in I : \E k \in DOMAIN InOrder(I) : InOrder(I)[k] = i
<1> DEFINE n == Cardinality(I)
           at(k) == CHOOSE i \in I : Rank(I, i) = k - 1
<1>1. n \in Nat
  BY FS_CardinalityType
<1>2. \A k \in 1..n : at(k) \in I /\ Rank(I, at(k)) = k - 1
  BY RankTaken
<1>3. InOrder(I) = [k \in 1..n |-> at(k)]
  BY DEF InOrder, Rank
<1>0. \A i \in I : i \in Nat
  OBVIOUS
<1> HIDE DEF n, at
<1>4. InOrder(I) \in Seq(I) /\ Len(InOrder(I)) = n /\ DOMAIN InOrder(I) = 1..n
  BY <1>1, <1>2, <1>3
<1>5. ASSUME NEW j \in 1..n, NEW k \in 1..n, j < k PROVE at(j) < at(k)
  <2>1. at(j) \in I /\ at(k) \in I /\ Rank(I, at(j)) = j - 1 /\ Rank(I, at(k)) = k - 1
    BY <1>2
  <2>2. at(j) \in Nat /\ at(k) \in Nat /\ j \in Nat /\ k \in Nat
    <3>1. at(j) \in Nat /\ at(k) \in Nat
      BY <1>0, <2>1, Zenon
    <3> QED BY <1>1, <3>1
  <2>3. at(j) # at(k)
    BY <1>5, <2>1, <2>2
  <2>4. ASSUME NEW a \in I, NEW b \in I, a < b PROVE Rank(I, a) < Rank(I, b)
    BY <2>4, RankRises
  <2>5. ~(at(k) < at(j))
    BY <1>5, <2>1, <2>2, <2>4
  <2> QED BY <2>2, <2>3, <2>5
<1>6. ASSUME NEW i \in I PROVE \E k \in 1..n : at(k) = i
  <2>1. Rank(I, i) \in 0..(n - 1)
    BY RankBound DEF n
  <2> DEFINE k == Rank(I, i) + 1
  <2>2. k \in 1..n /\ k - 1 = Rank(I, i)
    BY <1>1, <2>1
  <2> HIDE DEF k
  <2>3. at(k) \in I /\ Rank(I, at(k)) = Rank(I, i)
    BY <1>2, <2>2
  <2>4. at(k) \in Nat /\ i \in Nat /\ Rank(I, i) \in Int
    <3>1. at(k) \in Nat /\ i \in Nat
      BY <1>0, <2>3, Zenon
    <3> QED BY <1>1, <2>1, <3>1
  <2>5. ASSUME NEW a \in I, NEW b \in I, a < b PROVE Rank(I, a) < Rank(I, b)
    BY <2>5, RankRises
  <2>6. at(k) = i
    BY <2>3, <2>4, <2>5
  <2> QED BY <2>2, <2>6
<1> QED BY <1>1, <1>3, <1>4, <1>5, <1>6 DEF n

(* Picked(s, I) are the members of s at I, as a strictly increasing sequence of positions. *)
THEOREM PickedLists ==
    ASSUME NEW S, NEW s \in Seq(S), NEW I, I \subseteq DOMAIN s
    PROVE  /\ IsFiniteSet(I) /\ Cardinality(I) \in Nat
           /\ Picked(s, I) \in Seq(S) /\ Len(Picked(s, I)) = Cardinality(I)
           /\ DOMAIN Picked(s, I) = 1..Cardinality(I)
           /\ \A k \in 1..Cardinality(I) : /\ InOrder(I)[k] \in I
                                           /\ Picked(s, I)[k] = s[InOrder(I)[k]]
           /\ \A j, k \in 1..Cardinality(I) : j < k => InOrder(I)[j] < InOrder(I)[k]
           /\ \A i \in I : \E k \in 1..Cardinality(I) : InOrder(I)[k] = i /\ Picked(s, I)[k] = s[i]
<1>1. DOMAIN s = 1..Len(s) /\ Len(s) \in Nat /\ \A i \in DOMAIN s : i \in Nat /\ i <= Len(s)
  OBVIOUS
<1>2. I \in SUBSET Nat /\ \A i \in I : i <= Len(s)
  BY <1>1
<1>3. IsFiniteSet(I) /\ I \subseteq Nat
  BY <1>1, <1>2, FS_BoundedSetOfNaturals
<1> DEFINE n == Cardinality(I)
           q == InOrder(I)
<1>4. /\ n \in Nat /\ q \in Seq(I) /\ Len(q) = n /\ DOMAIN q = 1..n
      /\ \A j, k \in DOMAIN q : j < k => q[j] < q[k]
      /\ \A i \in I : \E k \in DOMAIN q : q[k] = i
  BY <1>3, InOrderLists
<1>5. Picked(s, I) = [k \in 1..n |-> s[q[k]]]
  BY DEF Picked
<1> HIDE DEF n, q
<1>6. \A k \in 1..n : q[k] \in I
  BY <1>4
<1>7. \A k \in 1..n : s[q[k]] \in S
  BY <1>1, <1>6
<1>8. Picked(s, I) \in Seq(S) /\ Len(Picked(s, I)) = n /\ DOMAIN Picked(s, I) = 1..n
  BY <1>4, <1>5, <1>7
<1>9. \A k \in 1..n : q[k] \in I /\ Picked(s, I)[k] = s[q[k]]
  BY <1>5, <1>6
<1>10. \A i \in I : \E k \in 1..n : q[k] = i /\ Picked(s, I)[k] = s[i]
  BY <1>4, <1>9
<1>11. \A j, k \in 1..n : j < k => q[j] < q[k]
  BY <1>4
<1> QED BY <1>3, <1>4, <1>8, <1>9, <1>10, <1>11 DEF n, q

(* It is the only such list: a strictly increasing one of all the members is InOrder. *)
THEOREM OnlyInOrder ==
    ASSUME NEW I, I \subseteq Nat, NEW n \in Nat, NEW q \in [1..n -> I],
           \A j, k \in 1..n : j < k => q[j] < q[k],
           \A i \in I : \E k \in 1..n : q[k] = i
    PROVE  IsFiniteSet(I) /\ Cardinality(I) = n /\ InOrder(I) = q
<1>0. \A i \in I : i \in Nat
  OBVIOUS
<1>1. \A k \in 1..n : q[k] \in I /\ q[k] \in Nat
  BY <1>0
<1>2. \A j, k \in 1..n : j # k => q[j] # q[k]
  <2> SUFFICES ASSUME NEW j \in 1..n, NEW k \in 1..n, j # k PROVE q[j] # q[k]
    OBVIOUS
  <2>1. j < k \/ k < j
    OBVIOUS
  <2> QED BY <1>1, <2>1
<1>3. \A m \in 0..n : LET J == {j \in I : \E k \in 1..m : q[k] = j}
                      IN  IsFiniteSet(J) /\ Cardinality(J) = m
  <2> SUFFICES ASSUME NEW m \in 0..n
      PROVE  LET J == {j \in I : \E k \in 1..m : q[k] = j}
             IN  IsFiniteSet(J) /\ Cardinality(J) = m
    OBVIOUS
  <2> DEFINE J == {j \in I : \E k \in 1..m : q[k] = j}
             f == [k \in 1..m |-> q[k]]
  <2>1. m \in Nat /\ \A k \in 1..m : k \in 1..n
    OBVIOUS
  <2>2. f \in [1..m -> J]
    BY <1>1, <2>1
  <2>3. \A j, k \in 1..m : f[j] = f[k] => j = k
    BY <1>2, <2>1
  <2>4. \A j \in J : \E k \in 1..m : f[k] = j
    OBVIOUS
  <2> HIDE DEF J, f
  <2>5. f \in Bijection(1..m, J)
    BY <2>2, <2>3, <2>4 DEF Bijection, Injection, Surjection, IsInjective
  <2>6. ExistsBijection(1..m, J)
    BY <2>5 DEF ExistsBijection
  <2>7. IsFiniteSet(1..m) /\ Cardinality(1..m) = m
    <3>1. IsFiniteSet(1..m) /\ Cardinality(1..m) = IF 1 > m THEN 0 ELSE m - 1 + 1
      BY <2>1, FS_Interval
    <3> QED BY <2>1, <3>1
  <2>8. IsFiniteSet(J) /\ Cardinality(J) = m
    BY <2>6, <2>7, FS_Bijection
  <2> QED BY <2>8 DEF J
<1>4. IsFiniteSet(I) /\ Cardinality(I) = n
  <2>1. {j \in I : \E k \in 1..n : q[k] = j} = I
    OBVIOUS
  <2>2. n \in 0..n
    OBVIOUS
  <2> QED BY <1>3, <2>1, <2>2
<1>5. ASSUME NEW k \in 1..n PROVE Rank(I, q[k]) = k - 1
  <2>1. {j \in I : j < q[k]} = {j \in I : \E l \in 1..(k - 1) : q[l] = j}
    <3>1. ASSUME NEW j \in I, j < q[k] PROVE \E l \in 1..(k - 1) : q[l] = j
      <4>1. PICK l \in 1..n : q[l] = j
        OBVIOUS
      <4>2. ~(k < l) /\ k # l
        BY <1>1, <3>1, <4>1
      <4> QED BY <4>1, <4>2
    <3>2. ASSUME NEW l \in 1..(k - 1) PROVE q[l] < q[k]
      OBVIOUS
    <3> QED BY <3>1, <3>2
  <2>2. k - 1 \in 0..n
    OBVIOUS
  <2> QED BY <1>3, <2>1, <2>2 DEF Rank
<1>6. ASSUME NEW k \in 1..n, NEW i \in I, Rank(I, i) = k - 1 PROVE i = q[k]
  <2>1. PICK l \in 1..n : q[l] = i
    OBVIOUS
  <2>2. Rank(I, q[l]) = l - 1
    BY <1>5
  <2> QED BY <1>6, <2>1, <2>2
<1>7. \A k \in 1..n : (CHOOSE i \in I : Rank(I, i) = k - 1) = q[k]
  BY <1>1, <1>5, <1>6
<1>8. InOrder(I) = [k \in 1..n |-> CHOOSE i \in I : Rank(I, i) = k - 1]
  BY <1>4 DEF InOrder, Rank
<1>9. InOrder(I) = [k \in 1..n |-> q[k]]
  BY <1>7, <1>8
<1> QED BY <1>4, <1>9
=============================================================================
