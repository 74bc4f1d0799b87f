---------------------------- MODULE OrderedProofs ----------------------------
(***************************************************************************)
(* Facts about numbers, sets of numbers and sequences that the proofs of   *)
(* the console's modules cite: induction over the naturals as a fact about *)
(* a set, the smallest and the largest element of a set, sets in their     *)
(* order, and the library's operators that remove and insert.              *)
(***************************************************************************)
EXTENDS Ordered, FiniteSetsExt, SequencesExt, FiniteSetTheorems, SequenceTheorems, TLAPS

LessThan == {p \in Nat \X Nat : p[1] < p[2]}

\* The order of the naturals is well founded.
LEMMA LessThanWellFounded == IsWellFoundedOn(LessThan, Nat)
BY NatLessThanWellFounded DEF OpToRel, LessThan

\* A set of naturals has a smallest element.
LEMMA LeastNat ==
  ASSUME NEW S, S \subseteq Nat, S # {}
  PROVE  \E m \in S : \A k \in S : m <= k
<1>1. PICK m \in S : \A k \in S : ~(<<k, m>> \in LessThan)
  BY WFMin, LessThanWellFounded
<1>2. ASSUME NEW k \in S PROVE m <= k
  <2>1. ~(<<k, m>> \in LessThan) BY <1>1
  <2>2. k \in Nat /\ m \in Nat OBVIOUS
  <2>3. ~(k < m) BY <2>1, <2>2 DEF LessThan
  <2>4. QED BY <2>2, <2>3
<1>3. QED BY <1>2

(***************************************************************************)
(* Induction: a set with 0 and with the successor of each of its naturals  *)
(* has every natural.  The set takes the place of the predicate.           *)
(***************************************************************************)
LEMMA InductiveSet ==
  ASSUME NEW S, 0 \in S, \A n \in Nat : n \in S => n + 1 \in S
  PROVE  \A n \in Nat : n \in S
<1> DEFINE Missing == {n \in Nat : n \notin S}
<1>1. SUFFICES ASSUME Missing # {} PROVE FALSE
  OBVIOUS
<1>2. PICK m \in Missing : \A k \in Missing : m <= k
  BY <1>1, LeastNat
<1>3. m # 0 /\ m - 1 \in Nat
  BY <1>2
<1>4. m - 1 \in S
  BY <1>2, <1>3
<1>5. QED BY <1>2, <1>3, <1>4

\* Min returns the smallest element.
LEMMA MinFact ==
  ASSUME NEW S, S \subseteq Nat, S # {}
  PROVE  Min(S) \in S /\ \A k \in S : Min(S) <= k
BY LeastNat DEF Min

\* Max returns the largest element of a set with a bound.
LEMMA MaxFact ==
  ASSUME NEW S, NEW n \in Nat, S \subseteq 0..n, S # {}
  PROVE  Max(S) \in S /\ \A k \in S : k <= Max(S)
<1> DEFINE T == {n - k : k \in S}
<1>1. T \subseteq Nat /\ T # {}
  <2>1. \A k \in S : n - k \in Nat
    OBVIOUS
  <2>2. PICK k \in S : TRUE
    OBVIOUS
  <2>3. n - k \in T
    OBVIOUS
  <2>4. QED BY <2>1, <2>3
<1>2. PICK t \in T : \A k \in T : t <= k
  BY <1>1, LeastNat
<1>3. PICK m \in S : t = n - m
  OBVIOUS
<1>4. \A k \in S : m >= k
  <2>1. SUFFICES ASSUME NEW k \in S PROVE m >= k
    OBVIOUS
  <2>2. n - k \in T /\ t <= n - k
    BY <1>2
  <2>3. k \in Nat /\ m \in Nat
    OBVIOUS
  <2>4. QED BY <1>3, <2>2, <2>3
<1>5. QED BY <1>4 DEF Max

-----------------------------------------------------------------------------
\* The number of smaller elements tells the elements of a set apart.
LEMMA RankFact ==
  ASSUME NEW S, S \subseteq Nat, IsFiniteSet(S), NEW k \in S
  PROVE  /\ Cardinality({m \in S : m < k}) \in 0..(Cardinality(S) - 1)
         /\ \A l \in S : l < k => Cardinality({m \in S : m < l}) < Cardinality({m \in S : m < k})
<1>1. \A x \in S : IsFiniteSet({m \in S : m < x}) /\ Cardinality({m \in S : m < x}) \in Nat
  <2>1. SUFFICES ASSUME NEW x \in S PROVE IsFiniteSet({m \in S : m < x}) /\ Cardinality({m \in S : m < x}) \in Nat
    OBVIOUS
  <2>2. {m \in S : m < x} \in SUBSET S
    OBVIOUS
  <2>3. IsFiniteSet({m \in S : m < x})
    BY <2>2, FS_Subset
  <2>4. QED BY <2>3, FS_CardinalityType
<1>2. Cardinality({m \in S : m < k}) < Cardinality(S)
  <2>1. {m \in S : m < k} \in SUBSET S /\ {m \in S : m < k} # S
    OBVIOUS
  <2>2. Cardinality(S) \in Nat
    BY FS_CardinalityType
  <2>3. QED BY <1>1, <2>1, <2>2, FS_Subset
<1>3. ASSUME NEW l \in S, l < k
      PROVE  Cardinality({m \in S : m < l}) < Cardinality({m \in S : m < k})
  <2>1. {m \in S : m < l} \in SUBSET {m \in S : m < k}
    <3>1. SUFFICES ASSUME NEW m \in S, m < l PROVE m < k
      OBVIOUS
    <3>2. k \in Nat /\ l \in Nat /\ m \in Nat
      OBVIOUS
    <3>3. QED BY <1>3, <3>1, <3>2
  <2>2. l \in {m \in S : m < k} /\ l \notin {m \in S : m < l}
    BY <1>3
  <2>3. QED BY <1>1, <2>1, <2>2, FS_Subset
<1>4. QED
  <2>1. Cardinality(S) \in Nat
    BY FS_CardinalityType
  <2>2. QED BY <1>1, <1>2, <1>3, <2>1

\* InOrder lists every element of a finite set once, in increasing order.
LEMMA InOrderFact ==
  ASSUME NEW S, S \subseteq Nat, IsFiniteSet(S)
  PROVE  /\ Cardinality(S) \in Nat
         /\ InOrder(S) \in [1..Cardinality(S) -> S]
         /\ \A p, q \in 1..Cardinality(S) : p < q => InOrder(S)[p] < InOrder(S)[q]
         /\ \A k \in S : \E p \in 1..Cardinality(S) : InOrder(S)[p] = k
<1> DEFINE N == Cardinality(S)
           rank == [k \in S |-> Cardinality({m \in S : m < k}) + 1]
<1>1. N \in Nat
  BY FS_CardinalityType
<1>2. \A k \in S : Cardinality({m \in S : m < k}) \in 0..(N - 1)
  BY RankFact
<1>3. rank \in [S -> 1..N]
  BY <1>1, <1>2
<1>4. \A k, l \in S : l < k => rank[l] < rank[k]
  <2>1. SUFFICES ASSUME NEW k \in S, NEW l \in S, l < k PROVE rank[l] < rank[k]
    OBVIOUS
  <2>2. Cardinality({m \in S : m < l}) < Cardinality({m \in S : m < k})
    BY <2>1, RankFact
  <2>3. Cardinality({m \in S : m < l}) \in Nat /\ Cardinality({m \in S : m < k}) \in Nat
    BY <1>1, <1>2
  <2>4. QED BY <2>2, <2>3
<1>5. \A k, l \in S : rank[k] = rank[l] => k = l
  <2>1. SUFFICES ASSUME NEW k \in S, NEW l \in S, rank[k] = rank[l], k # l PROVE FALSE
    OBVIOUS
  <2>2. k < l \/ l < k
    BY <2>1
  <2>3. QED BY <1>2, <1>4, <2>1, <2>2
<1>6. rank \in Injection(S, 1..N)
  BY <1>3, <1>5 DEF Injection, IsInjective
<1>7. rank \in Surjection(S, 1..N)
  <2>1. IsFiniteSet(1..N) /\ Cardinality(1..N) = N
    BY <1>1, FS_Interval
  <2>2. QED BY <1>6, <2>1, FS_Injection
<1>8. \A p \in 1..N : InOrder(S)[p] \in S /\ rank[InOrder(S)[p]] = p
  <2>1. SUFFICES ASSUME NEW p \in 1..N PROVE InOrder(S)[p] \in S /\ rank[InOrder(S)[p]] = p
    OBVIOUS
  <2>2. PICK k \in S : rank[k] = p
    BY <1>7 DEF Surjection
  <2>3. Cardinality({m \in S : m < k}) = p - 1
    <3>1. Cardinality({m \in S : m < k}) \in Nat
      BY <1>1, <1>2
    <3>2. QED BY <2>2, <3>1
  <2>4. InOrder(S)[p] = CHOOSE x \in S : Cardinality({m \in S : m < x}) = p - 1
    BY DEF InOrder
  <2>5. InOrder(S)[p] \in S /\ Cardinality({m \in S : m < InOrder(S)[p]}) = p - 1
    BY <2>3, <2>4
  <2>6. QED BY <2>5
<1>9. ASSUME NEW p \in 1..N, NEW q \in 1..N, p < q
      PROVE  InOrder(S)[p] < InOrder(S)[q]
  <2>1. PICK k \in S : InOrder(S)[p] = k /\ rank[k] = p
    BY <1>8
  <2>2. PICK l \in S : InOrder(S)[q] = l /\ rank[l] = q
    BY <1>8
  <2>3. k # l /\ ~(l < k)
    BY <1>4, <1>9, <2>1, <2>2
  <2>4. k \in Nat /\ l \in Nat
    OBVIOUS
  <2>5. QED BY <2>1, <2>2, <2>3, <2>4
<1>10. ASSUME NEW k \in S
      PROVE  \E p \in 1..N : InOrder(S)[p] = k
  <2>1. rank[k] \in 1..N
    BY <1>3
  <2>2. InOrder(S)[rank[k]] = k
    BY <1>5, <1>8, <2>1
  <2>3. QED BY <2>1, <2>2
<1>11. InOrder(S) \in [1..N -> S]
  BY <1>8 DEF InOrder
<1>12. QED BY <1>1, <1>9, <1>10, <1>11

\* An element of a finite set stands after the smaller ones.
LEMMA PlaceFact ==
  ASSUME NEW S, S \subseteq Nat, IsFiniteSet(S), NEW k \in S
  PROVE  InOrder(S)[Cardinality({m \in S : m < k}) + 1] = k
<1> DEFINE Below(x) == Cardinality({m \in S : m < x})
<1>1. Cardinality(S) \in Nat
  BY FS_CardinalityType
<1>2. \A x \in S : Below(x) \in 0..(Cardinality(S) - 1)
  BY RankFact
<1>3. \A x, y \in S : y < x => Below(y) < Below(x)
  BY RankFact
<1>4. PICK p \in 1..Cardinality(S) : p = Below(k) + 1
  <2>1. PICK b \in 0..(Cardinality(S) - 1) : b = Below(k)
    BY <1>2
  <2> HIDE DEF Below
  <2>2. b + 1 \in 1..Cardinality(S)
    BY <1>1
  <2>3. QED BY <2>1, <2>2
<1>5. InOrder(S)[p] = CHOOSE x \in S : Below(x) = p - 1
  BY DEF InOrder
<1>6. PICK x \in S : x = InOrder(S)[Below(k) + 1] /\ Below(x) = Below(k)
  <2>1. Below(k) = p - 1
    BY <1>1, <1>2, <1>4
  <2> HIDE DEF Below
  <2>2. QED BY <1>4, <1>5, <2>1
<1> HIDE DEF Below
<1>7. ~(x < k) /\ ~(k < x)
  BY <1>1, <1>2, <1>3, <1>6
<1>8. x = k
  BY <1>7
<1>9. QED BY <1>6, <1>8 DEF Below

\* The function takes the one set in its order to the other in its order.
SamePlaces(f, S, T) == \A p \in 1..Cardinality(S) : InOrder(T)[p] = f[InOrder(S)[p]]

(***************************************************************************)
(* A function does that if it keeps the order and reaches every element of *)
(* the other set.                                                          *)
(***************************************************************************)
LEMMA SameOrder ==
  ASSUME NEW S, S \subseteq Nat, IsFiniteSet(S), NEW T, T \subseteq Nat,
         NEW f \in [S -> T], \A k, l \in S : k < l => f[k] < f[l],
         \A m \in T : \E k \in S : f[k] = m
  PROVE  IsFiniteSet(T) /\ Cardinality(T) = Cardinality(S) /\ SamePlaces(f, S, T)
<1>1. \A k, l \in S : f[k] < f[l] => k < l
  <2>1. SUFFICES ASSUME NEW k \in S, NEW l \in S, f[k] < f[l], ~(k < l) PROVE FALSE
    OBVIOUS
  <2>2. k \in Nat /\ l \in Nat /\ f[k] \in Nat /\ f[l] \in Nat
    OBVIOUS
  <2>3. k = l \/ l < k
    BY <2>1, <2>2
  <2>4. QED BY <2>1, <2>2, <2>3
<1>2. \A k, l \in S : f[k] = f[l] => k = l
  <2>1. SUFFICES ASSUME NEW k \in S, NEW l \in S, f[k] = f[l], k # l PROVE FALSE
    OBVIOUS
  <2>2. k \in Nat /\ l \in Nat /\ f[k] \in Nat /\ f[l] \in Nat
    OBVIOUS
  <2>3. k < l \/ l < k
    BY <2>1, <2>2
  <2>4. QED BY <2>1, <2>2, <2>3
<1>3. ASSUME NEW A, NEW B, A \subseteq S, B \subseteq T,
             \A k \in A : f[k] \in B, \A m \in B : \E k \in A : f[k] = m
      PROVE  IsFiniteSet(B) /\ Cardinality(B) = Cardinality(A)
  <2> DEFINE g == [k \in A |-> f[k]]
  <2>1. g \in Bijection(A, B)
    BY <1>2, <1>3 DEF Bijection, Injection, Surjection, IsInjective
  <2>2. ExistsBijection(A, B)
    BY <2>1 DEF ExistsBijection
  <2>3. IsFiniteSet(A)
    BY <1>3, FS_Subset
  <2>4. QED BY <2>2, <2>3, FS_Bijection
<1>4. IsFiniteSet(T) /\ Cardinality(T) = Cardinality(S)
  <2>1. \A k \in S : f[k] \in T
    OBVIOUS
  <2>2. QED BY <1>3, <2>1
<1>5. ASSUME NEW k \in S PROVE Cardinality({m \in T : m < f[k]}) = Cardinality({l \in S : l < k})
  <2>1. \A l \in {l \in S : l < k} : f[l] \in {m \in T : m < f[k]}
    OBVIOUS
  <2>2. \A m \in {m \in T : m < f[k]} : \E l \in {l \in S : l < k} : f[l] = m
    BY <1>1
  <2>3. {l \in S : l < k} \subseteq S /\ {m \in T : m < f[k]} \subseteq T
    OBVIOUS
  <2>4. QED BY <1>3, <2>1, <2>2, <2>3
<1>6. ASSUME NEW p \in 1..Cardinality(S) PROVE InOrder(T)[p] = f[InOrder(S)[p]]
  <2>1. PICK k \in S : k = InOrder(S)[p]
    BY InOrderFact
  <2> DEFINE r == Cardinality({l \in S : l < k})
  <2>2. Cardinality(S) \in Nat /\ r \in 0..(Cardinality(S) - 1)
    BY FS_CardinalityType, RankFact
  <2>3. InOrder(S)[r + 1] = k
    BY PlaceFact
  <2> HIDE DEF r
  <2>4. PICK q \in 1..Cardinality(S) : q = r + 1
    BY <2>2
  <2>5. q = p
    <3>1. InOrder(S)[q] = InOrder(S)[p]
      BY <2>1, <2>3, <2>4
    <3>2. \A i, j \in 1..Cardinality(S) : i < j => InOrder(S)[i] < InOrder(S)[j]
      BY InOrderFact
    <3>3. k \in Nat
      OBVIOUS
    <3>4. ~(p < q) /\ ~(q < p)
      BY <2>1, <3>1, <3>2, <3>3
    <3>5. QED BY <2>2, <3>4
  <2>6. f[k] \in T /\ InOrder(T)[Cardinality({m \in T : m < f[k]}) + 1] = f[k]
    BY <1>4, PlaceFact
  <2>7. Cardinality({m \in T : m < f[k]}) + 1 = p
    BY <1>5, <2>4, <2>5 DEF r
  <2>8. QED BY <2>1, <2>6, <2>7
<1>7. QED BY <1>4, <1>6 DEF SamePlaces

-----------------------------------------------------------------------------
\* The domain of a sequence is an interval of naturals.
LEMMA DomainOfSeq ==
  ASSUME NEW T, NEW s \in Seq(T)
  PROVE  /\ Len(s) \in Nat /\ DOMAIN s = 1..Len(s) /\ DOMAIN s \subseteq Nat /\ IsFiniteSet(DOMAIN s)
         /\ \A j \in DOMAIN s : s[j] \in T
<1>1. Len(s) \in Nat /\ DOMAIN s = 1..Len(s) /\ \A j \in DOMAIN s : s[j] \in T
  OBVIOUS
<1>2. IsFiniteSet(1..Len(s))
  BY <1>1, FS_Interval
<1>3. QED BY <1>1, <1>2

(***************************************************************************)
(* Chosen returns a sequence of elements at the positions, in their order; *)
(* at all positions, the sequence itself.                                  *)
(***************************************************************************)
LEMMA ChosenFact ==
  ASSUME NEW T, NEW s \in Seq(T), NEW P, P \subseteq 1..Len(s)
  PROVE  /\ Chosen(s, P) \in Seq(T)
         /\ IsFiniteSet(P) /\ Cardinality(P) \in Nat
         /\ Len(Chosen(s, P)) = Cardinality(P)
         /\ \A p \in 1..Cardinality(P) : InOrder(P)[p] \in P /\ Chosen(s, P)[p] = s[InOrder(P)[p]]
         /\ \A p, q \in 1..Cardinality(P) : p < q => InOrder(P)[p] < InOrder(P)[q]
         /\ \A k \in P : \E p \in 1..Cardinality(P) : InOrder(P)[p] = k
<1>1. Len(s) \in Nat
  OBVIOUS
<1>2. P \subseteq Nat /\ IsFiniteSet(P)
  <2>1. IsFiniteSet(1..Len(s))
    BY <1>1, FS_Interval
  <2>2. P \in SUBSET (1..Len(s)) /\ P \subseteq Nat
    BY <1>1
  <2>3. QED BY <2>1, <2>2, FS_Subset
<1>3. /\ Cardinality(P) \in Nat
      /\ InOrder(P) \in [1..Cardinality(P) -> P]
      /\ \A p, q \in 1..Cardinality(P) : p < q => InOrder(P)[p] < InOrder(P)[q]
      /\ \A k \in P : \E p \in 1..Cardinality(P) : InOrder(P)[p] = k
  BY <1>2, InOrderFact
<1>4. Chosen(s, P) = [p \in 1..Cardinality(P) |-> s[InOrder(P)[p]]]
  BY <1>3 DEF Chosen
<1>5. \A p \in 1..Cardinality(P) : InOrder(P)[p] \in P /\ s[InOrder(P)[p]] \in T
  <2>1. \A k \in P : s[k] \in T
    OBVIOUS
  <2>2. QED BY <1>3, <2>1
<1>6. Chosen(s, P) \in [1..Cardinality(P) -> T]
  BY <1>4, <1>5
<1>7. Chosen(s, P) \in Seq(T) /\ Len(Chosen(s, P)) = Cardinality(P)
  BY <1>3, <1>6
<1>8. QED BY <1>2, <1>3, <1>4, <1>5, <1>7

\* RemoveAt leaves the other elements, in their order.
LEMMA RemoveAtFact ==
  ASSUME NEW T, NEW s \in Seq(T), NEW i \in 1..Len(s)
  PROVE  /\ RemoveAt(s, i) \in Seq(T)
         /\ Len(RemoveAt(s, i)) = Len(s) - 1
         /\ \A j \in 1..(Len(s) - 1) : RemoveAt(s, i)[j] = IF j < i THEN s[j] ELSE s[j + 1]
<1> DEFINE left == SubSeq(s, 1, i - 1)
           right == SubSeq(s, i + 1, Len(s))
<1>1. Len(s) \in Nat /\ i \in Nat /\ 1 <= i /\ i <= Len(s)
  OBVIOUS
<1>2. /\ left \in Seq(T) /\ Len(left) = i - 1
      /\ \A j \in 1..(i - 1) : left[j] = s[j]
  <2>1. \A j \in 1..(i - 1) : s[j] \in T
    BY <1>1
  <2>2. /\ left \in Seq(T) /\ Len(left) = IF 1 <= i - 1 THEN (i - 1) - 1 + 1 ELSE 0
        /\ \A j \in 1..((i - 1) - 1 + 1) : left[j] = s[1 + j - 1]
    BY <1>1, <2>1, SubSeqProperties
  <2>3. QED BY <1>1, <2>2
<1>3. /\ right \in Seq(T) /\ Len(right) = Len(s) - i
      /\ \A j \in 1..(Len(s) - i) : right[j] = s[i + j]
  <2>1. \A j \in (i + 1)..Len(s) : s[j] \in T
    BY <1>1
  <2>2. /\ right \in Seq(T) /\ Len(right) = IF i + 1 <= Len(s) THEN Len(s) - (i + 1) + 1 ELSE 0
        /\ \A j \in 1..(Len(s) - (i + 1) + 1) : right[j] = s[(i + 1) + j - 1]
    BY <1>1, <2>1, SubSeqProperties
  <2>3. QED BY <1>1, <2>2
<1>4. /\ left \o right \in Seq(T)
      /\ Len(left \o right) = Len(left) + Len(right)
      /\ \A j \in 1..(Len(left) + Len(right)) :
           (left \o right)[j] = IF j <= Len(left) THEN left[j] ELSE right[j - Len(left)]
  BY <1>2, <1>3, ConcatProperties
<1>5. RemoveAt(s, i) = left \o right
  BY DEF RemoveAt
<1> HIDE DEF left, right
<1>6. ASSUME NEW j \in 1..(Len(s) - 1)
      PROVE  (left \o right)[j] = IF j < i THEN s[j] ELSE s[j + 1]
  <2>1. CASE j < i
    BY <1>1, <1>2, <1>3, <1>4, <2>1
  <2>2. CASE ~(j < i)
    <3>1. j - (i - 1) \in 1..(Len(s) - i) /\ ~(j <= Len(left)) /\ j \in 1..(Len(left) + Len(right))
      BY <1>1, <1>2, <1>3, <2>2
    <3>2. (left \o right)[j] = right[j - (i - 1)]
      BY <1>2, <1>4, <3>1
    <3>3. right[j - (i - 1)] = s[i + (j - (i - 1))]
      BY <1>3, <3>1
    <3>4. i + (j - (i - 1)) = j + 1
      BY <1>1
    <3>5. QED BY <2>2, <3>2, <3>3, <3>4
  <2>3. QED BY <2>1, <2>2
<1>7. Len(left \o right) = Len(s) - 1
  BY <1>1, <1>2, <1>3, <1>4
<1>8. QED BY <1>4, <1>5, <1>6, <1>7

\* InsertAt moves the elements from the position on by one.
LEMMA InsertAtFact ==
  ASSUME NEW T, NEW s \in Seq(T), NEW i \in 1..(Len(s) + 1), NEW e \in T
  PROVE  /\ InsertAt(s, i, e) \in Seq(T)
         /\ Len(InsertAt(s, i, e)) = Len(s) + 1
         /\ \A j \in 1..(Len(s) + 1) :
              InsertAt(s, i, e)[j] = IF j < i THEN s[j] ELSE IF j = i THEN e ELSE s[j - 1]
<1> DEFINE left == SubSeq(s, 1, i - 1)
           right == SubSeq(s, i, Len(s))
           start == left \o <<e>>
<1>1. Len(s) \in Nat /\ i \in Nat /\ 1 <= i /\ i <= Len(s) + 1
  OBVIOUS
<1>2. /\ left \in Seq(T) /\ Len(left) = i - 1
      /\ \A j \in 1..(i - 1) : left[j] = s[j]
  <2>1. \A j \in 1..(i - 1) : s[j] \in T
    BY <1>1
  <2>2. /\ left \in Seq(T) /\ Len(left) = IF 1 <= i - 1 THEN (i - 1) - 1 + 1 ELSE 0
        /\ \A j \in 1..((i - 1) - 1 + 1) : left[j] = s[1 + j - 1]
    BY <1>1, <2>1, SubSeqProperties
  <2>3. QED BY <1>1, <2>2
<1>3. /\ right \in Seq(T) /\ Len(right) = Len(s) - i + 1
      /\ \A j \in 1..(Len(s) - i + 1) : right[j] = s[i + j - 1]
  <2>1. \A j \in i..Len(s) : s[j] \in T
    BY <1>1
  <2>2. /\ right \in Seq(T) /\ Len(right) = IF i <= Len(s) THEN Len(s) - i + 1 ELSE 0
        /\ \A j \in 1..(Len(s) - i + 1) : right[j] = s[i + j - 1]
    BY <1>1, <2>1, SubSeqProperties
  <2>3. QED BY <1>1, <2>2
<1>4. /\ <<e>> \in Seq(T) /\ Len(<<e>>) = 1 /\ <<e>>[1] = e
  OBVIOUS
<1>5. /\ start \in Seq(T) /\ Len(start) = i
      /\ \A j \in 1..i : start[j] = IF j <= i - 1 THEN s[j] ELSE e
  <2>1. /\ start \in Seq(T) /\ Len(start) = Len(left) + Len(<<e>>)
        /\ \A j \in 1..(Len(left) + Len(<<e>>)) :
             start[j] = IF j <= Len(left) THEN left[j] ELSE <<e>>[j - Len(left)]
    BY <1>2, <1>4, ConcatProperties
  <2> HIDE DEF left, start
  <2>2. Len(start) = i
    BY <1>1, <1>2, <1>4, <2>1
  <2>3. ASSUME NEW j \in 1..i PROVE start[j] = IF j <= i - 1 THEN s[j] ELSE e
    <3>1. CASE j <= i - 1
      BY <1>1, <1>2, <1>4, <2>1, <3>1
    <3>2. CASE ~(j <= i - 1)
      <4>1. j = i /\ j - Len(left) = 1 /\ ~(j <= Len(left))
        BY <1>1, <1>2, <3>2
      <4>2. start[j] = <<e>>[j - Len(left)]
        BY <1>1, <1>2, <1>4, <2>1, <4>1
      <4>3. QED BY <1>4, <3>2, <4>1, <4>2
    <3>3. QED BY <3>1, <3>2
  <2>4. QED BY <2>1, <2>2, <2>3
<1> HIDE DEF left, right, start
<1>6. /\ start \o right \in Seq(T)
      /\ Len(start \o right) = Len(start) + Len(right)
      /\ \A j \in 1..(Len(start) + Len(right)) :
           (start \o right)[j] = IF j <= Len(start) THEN start[j] ELSE right[j - Len(start)]
  BY <1>3, <1>5, ConcatProperties
<1>7. InsertAt(s, i, e) = start \o right
  BY DEF InsertAt, left, right, start
<1>8. ASSUME NEW j \in 1..(Len(s) + 1)
      PROVE  (start \o right)[j] = IF j < i THEN s[j] ELSE IF j = i THEN e ELSE s[j - 1]
  <2>1. CASE j <= i
    BY <1>1, <1>3, <1>5, <1>6, <2>1
  <2>2. CASE ~(j <= i)
    BY <1>1, <1>3, <1>5, <1>6, <2>2
  <2>3. QED BY <2>1, <2>2
<1>9. QED BY <1>1, <1>3, <1>5, <1>6, <1>7, <1>8

-----------------------------------------------------------------------------
\* The flattened beginnings of a sequence of sequences.
FlattensTo(s, f) == \A i \in DOMAIN f : f[i] = IF i = 1 THEN s[i] ELSE f[i - 1] \o s[i]

\* They exist.
LEMMA FlattenedExists ==
  ASSUME NEW T, NEW s \in Seq(Seq(T))
  PROVE  \E f \in [1..Len(s) -> Seq(T)] : FlattensTo(s, f)
<1>1. Len(s) \in Nat /\ \A i \in 1..Len(s) : s[i] \in Seq(T)
  OBVIOUS
<1> DEFINE Done == {n \in Nat : n <= Len(s) => \E f \in [1..n -> Seq(T)] : FlattensTo(s, f)}
<1>2. 0 \in Done
  <2>1. [i \in 1..0 |-> <<>>] \in [1..0 -> Seq(T)]
    OBVIOUS
  <2>2. FlattensTo(s, [i \in 1..0 |-> <<>>])
    BY DEF FlattensTo
  <2>3. QED BY <2>1, <2>2
<1>3. ASSUME NEW n \in Nat, n \in Done PROVE n + 1 \in Done
  <2>1. SUFFICES ASSUME n + 1 <= Len(s) PROVE \E g \in [1..(n + 1) -> Seq(T)] : FlattensTo(s, g)
    OBVIOUS
  <2>2. PICK f \in [1..n -> Seq(T)] : FlattensTo(s, f)
    <3>1. n <= Len(s)
      BY <1>1, <2>1
    <3>2. QED BY <1>3, <3>1
  <2>3. PICK last \in Seq(T) : last = IF n + 1 = 1 THEN s[n + 1] ELSE f[n] \o s[n + 1]
    <3>1. s[n + 1] \in Seq(T)
      BY <1>1, <2>1
    <3>2. n + 1 # 1 => f[n] \o s[n + 1] \in Seq(T)
      <4>1. n + 1 # 1 => f[n] \in Seq(T)
        OBVIOUS
      <4>2. QED BY <3>1, <4>1, ConcatProperties
    <3>3. QED BY <3>1, <3>2
  <2> DEFINE g == [i \in 1..(n + 1) |-> IF i = n + 1 THEN last ELSE f[i]]
  <2>4. g \in [1..(n + 1) -> Seq(T)]
    OBVIOUS
  <2>5. ASSUME NEW i \in 1..(n + 1) PROVE g[i] = IF i = 1 THEN s[i] ELSE g[i - 1] \o s[i]
    <3>1. CASE i = n + 1
      <4>1. i # 1 => g[i - 1] = f[n]
        BY <3>1
      <4>2. g[i] = last
        BY <3>1
      <4> HIDE DEF g
      <4>3. QED BY <2>3, <3>1, <4>1, <4>2
    <3>2. CASE i # n + 1
      <4>1. i \in 1..n /\ g[i] = f[i]
        BY <3>2
      <4>2. i # 1 => g[i - 1] = f[i - 1]
        BY <4>1
      <4>3. f[i] = IF i = 1 THEN s[i] ELSE f[i - 1] \o s[i]
        BY <2>2, <4>1 DEF FlattensTo
      <4> HIDE DEF g
      <4>4. QED BY <4>1, <4>2, <4>3
    <3>3. QED BY <3>1, <3>2
  <2>6. DOMAIN g = 1..(n + 1)
    OBVIOUS
  <2> HIDE DEF g
  <2>7. FlattensTo(s, g)
    BY <2>5, <2>6 DEF FlattensTo
  <2>8. QED BY <2>4, <2>7
<1> HIDE DEF Done
<1>4. Len(s) \in Done
  BY <1>1, <1>2, <1>3, InductiveSet
<1>5. QED BY <1>1, <1>4 DEF Done

\* FlattenSeq returns the last of them.
LEMMA FlattenFact ==
  ASSUME NEW T, NEW s \in Seq(Seq(T)), Len(s) # 0
  PROVE  \E f \in [1..Len(s) -> Seq(T)] : FlattensTo(s, f) /\ FlattenSeq(s) = f[Len(s)]
<1> DEFINE Table(f) == [i \in 1..Len(s) |-> IF i = 1 THEN s[i] ELSE f[i - 1] \o s[i]]
           c == CHOOSE f : f = Table(f)
<1>1. PICK f \in [1..Len(s) -> Seq(T)] : FlattensTo(s, f)
  BY FlattenedExists
<1>2. f = Table(f)
  BY <1>1 DEF FlattensTo
<1>3. c = Table(c)
  BY <1>2
<1>4. FlattenSeq(s) = c[Len(s)]
  BY DEF FlattenSeq
<1> HIDE DEF c
<1>5. DOMAIN c = 1..Len(s) /\ \A i \in 1..Len(s) : c[i] = IF i = 1 THEN s[i] ELSE c[i - 1] \o s[i]
  BY <1>3
<1>6. \A i \in 1..Len(s) : f[i] = IF i = 1 THEN s[i] ELSE f[i - 1] \o s[i]
  BY <1>1 DEF FlattensTo
<1> HIDE DEF Table
<1> DEFINE Same == {n \in Nat : n \in 1..Len(s) => c[n] = f[n]}
<1>7. 0 \in Same
  OBVIOUS
<1>8. ASSUME NEW n \in Nat, n \in Same PROVE n + 1 \in Same
  <2>1. SUFFICES ASSUME n + 1 \in 1..Len(s) PROVE c[n + 1] = f[n + 1]
    OBVIOUS
  <2>2. CASE n = 0
    <3>1. PICK k \in 1..Len(s) : k = n + 1 /\ k = 1
      BY <2>1, <2>2
    <3>2. c[k] = f[k]
      BY <1>5, <1>6, <3>1
    <3>3. QED BY <3>1, <3>2
  <2>3. CASE n # 0
    <3>1. n \in 1..Len(s)
      BY <2>1, <2>3
    <3>2. c[n] = f[n]
      BY <1>8, <3>1
    <3>3. (n + 1) - 1 = n /\ n + 1 # 1
      BY <2>3
    <3>4. c[n + 1] = c[n] \o s[n + 1] /\ f[n + 1] = f[n] \o s[n + 1]
      BY <1>5, <1>6, <2>1, <3>3
    <3>5. QED BY <3>2, <3>4
  <2>4. QED BY <2>2, <2>3
<1> HIDE DEF Same
<1>9. Len(s) \in Same /\ Len(s) \in 1..Len(s)
  <2>1. Len(s) \in Nat
    OBVIOUS
  <2>2. \A n \in Nat : n \in Same
    BY <1>7, <1>8, InductiveSet
  <2>3. QED BY <2>1, <2>2
<1>10. QED BY <1>1, <1>4, <1>9 DEF Same

\* One more sequence is flattened.
LEMMA FlattenGrows ==
  ASSUME NEW T, NEW s \in Seq(Seq(T)), NEW n \in 1..Len(s)
  PROVE  /\ FlattenSeq(SubSeq(s, 1, n)) \in Seq(T)
         /\ n = 1 => FlattenSeq(SubSeq(s, 1, n)) = s[n]
         /\ n + 1 <= Len(s) =>
              FlattenSeq(SubSeq(s, 1, n + 1)) = FlattenSeq(SubSeq(s, 1, n)) \o s[n + 1]
<1>1. Len(s) \in Nat /\ n \in Nat /\ n # 0
  OBVIOUS
<1>2. ASSUME NEW m \in 1..Len(s)
      PROVE  /\ SubSeq(s, 1, m) \in Seq(Seq(T)) /\ Len(SubSeq(s, 1, m)) = m
             /\ \A i \in 1..m : SubSeq(s, 1, m)[i] = s[i]
             /\ \E f \in [1..m -> Seq(T)] :
                  /\ FlattenSeq(SubSeq(s, 1, m)) = f[m]
                  /\ \A i \in 1..m : f[i] = IF i = 1 THEN s[i] ELSE f[i - 1] \o s[i]
  <2>1. \A i \in 1..m : s[i] \in Seq(T)
    BY <1>1
  <2>2. /\ SubSeq(s, 1, m) \in Seq(Seq(T)) /\ Len(SubSeq(s, 1, m)) = IF 1 <= m THEN m - 1 + 1 ELSE 0
        /\ \A i \in 1..(m - 1 + 1) : SubSeq(s, 1, m)[i] = s[1 + i - 1]
    BY <1>1, <2>1, SubSeqProperties
  <2>3. PICK part \in Seq(Seq(T)) : part = SubSeq(s, 1, m)
    BY <2>2
  <2>4. Len(part) = m /\ \A i \in 1..m : part[i] = s[i]
    BY <1>1, <2>2, <2>3
  <2>5. PICK f \in [1..Len(part) -> Seq(T)] : FlattensTo(part, f) /\ FlattenSeq(part) = f[Len(part)]
    <3>1. Len(part) # 0
      BY <1>1, <2>4
    <3>2. QED BY <3>1, FlattenFact
  <2>6. \A i \in 1..m : f[i] = IF i = 1 THEN s[i] ELSE f[i - 1] \o s[i]
    BY <2>4, <2>5 DEF FlattensTo
  <2>7. QED BY <2>3, <2>4, <2>5, <2>6
<1>3. PICK f \in [1..n -> Seq(T)] :
        /\ FlattenSeq(SubSeq(s, 1, n)) = f[n]
        /\ \A i \in 1..n : f[i] = IF i = 1 THEN s[i] ELSE f[i - 1] \o s[i]
  BY <1>2
<1>4. n = 1 => FlattenSeq(SubSeq(s, 1, n)) = s[n]
  BY <1>1, <1>3
<1>5. ASSUME n + 1 <= Len(s)
      PROVE  FlattenSeq(SubSeq(s, 1, n + 1)) = FlattenSeq(SubSeq(s, 1, n)) \o s[n + 1]
  <2>1. PICK m \in 1..Len(s) : m = n + 1
    BY <1>1, <1>5
  <2>2. PICK g \in [1..m -> Seq(T)] :
          /\ FlattenSeq(SubSeq(s, 1, m)) = g[m]
          /\ \A i \in 1..m : g[i] = IF i = 1 THEN s[i] ELSE g[i - 1] \o s[i]
    BY <1>2
  <2> DEFINE Same == {i \in Nat : i \in 1..n => f[i] = g[i]}
  <2>3. 0 \in Same
    OBVIOUS
  <2>4. ASSUME NEW i \in Nat, i \in Same PROVE i + 1 \in Same
    <3>1. SUFFICES ASSUME i + 1 \in 1..n PROVE f[i + 1] = g[i + 1]
      OBVIOUS
    <3>2. i + 1 \in 1..m
      BY <2>1, <3>1
    <3>3. CASE i = 0
      <4>1. PICK k : k \in 1..n /\ k \in 1..m /\ k = i + 1 /\ k = 1
        BY <3>1, <3>2, <3>3
      <4>2. f[k] = g[k]
        BY <1>3, <2>2, <4>1
      <4>3. QED BY <4>1, <4>2
    <3>4. CASE i # 0
      <4>1. i \in 1..n /\ (i + 1) - 1 = i /\ i + 1 # 1
        BY <3>1, <3>4
      <4>2. f[i] = g[i]
        BY <2>4, <4>1
      <4>3. f[i + 1] = f[i] \o s[i + 1] /\ g[i + 1] = g[i] \o s[i + 1]
        BY <1>3, <2>2, <3>1, <3>2, <4>1
      <4>4. QED BY <4>2, <4>3
    <3>5. QED BY <3>3, <3>4
  <2> HIDE DEF Same
  <2>5. n \in Same
    BY <1>1, <2>3, <2>4, InductiveSet
  <2>6. f[n] = g[n]
    BY <1>1, <2>5 DEF Same
  <2>7. g[m] = g[n] \o s[m]
    <3>1. m # 1 /\ m - 1 = n /\ m \in 1..m
      BY <1>1, <2>1
    <3>2. QED BY <2>2, <3>1
  <2>8. QED BY <1>3, <2>1, <2>2, <2>6, <2>7
<1>6. FlattenSeq(SubSeq(s, 1, n)) \in Seq(T)
  BY <1>1, <1>3
<1>7. QED BY <1>4, <1>5, <1>6
=============================================================================
