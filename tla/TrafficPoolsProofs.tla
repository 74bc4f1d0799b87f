-------------------------- MODULE TrafficPoolsProofs --------------------------
(***************************************************************************)
(* What the operators on listed instances return: every instance once, and *)
(* nothing that was not listed.  And sums over sets: that they can be      *)
(* split, and taken over another set of as many names.                     *)
(***************************************************************************)
EXTENDS TrafficPools, OrderedProofs

(***************************************************************************)
(* The parts of MergeDiscovered, for the sequence of all the instances:    *)
(* where an instance is listed, and the positions at which one is listed   *)
(* for the first time.                                                     *)
(***************************************************************************)
ListedIn(all, k) == {j \in DOMAIN all : Identity(all[j]) = Identity(all[k])}
Firsts(all) == {k \in DOMAIN all : k = Min(ListedIn(all, k))}
Once(all) == [p \in 1..Cardinality(Firsts(all)) |-> all[Max(ListedIn(all, InOrder(Firsts(all))[p]))]]

\* An instance is listed first where Min is and last where Max is.
LEMMA ListedFact ==
  ASSUME NEW I, NEW all \in Seq(I), NEW k \in DOMAIN all
  PROVE  /\ Min(ListedIn(all, k)) \in DOMAIN all
         /\ Identity(all[Min(ListedIn(all, k))]) = Identity(all[k])
         /\ \A j \in DOMAIN all : Identity(all[j]) = Identity(all[k]) => Min(ListedIn(all, k)) <= j
         /\ Max(ListedIn(all, k)) \in DOMAIN all
         /\ Identity(all[Max(ListedIn(all, k))]) = Identity(all[k])
         /\ \A j \in DOMAIN all : Identity(all[j]) = Identity(all[k]) => j <= Max(ListedIn(all, k))
<1>1. Len(all) \in Nat /\ DOMAIN all = 1..Len(all)
  BY DomainOfSeq
<1>2. /\ ListedIn(all, k) \subseteq 0..Len(all) /\ ListedIn(all, k) \subseteq Nat /\ ListedIn(all, k) # {}
      /\ ListedIn(all, k) \subseteq DOMAIN all
  BY <1>1 DEF ListedIn
<1>3. \A j \in DOMAIN all : j \in ListedIn(all, k) <=> Identity(all[j]) = Identity(all[k])
  BY DEF ListedIn
<1>4. Min(ListedIn(all, k)) \in ListedIn(all, k) /\ \A j \in ListedIn(all, k) : Min(ListedIn(all, k)) <= j
  BY <1>2, MinFact
<1>5. Max(ListedIn(all, k)) \in ListedIn(all, k) /\ \A j \in ListedIn(all, k) : j <= Max(ListedIn(all, k))
  BY <1>1, <1>2, MaxFact
<1>6. QED BY <1>2, <1>3, <1>4, <1>5

\* A position is a first one if the instance is not listed before.
LEMMA FirstsFact ==
  ASSUME NEW I, NEW all \in Seq(I)
  PROVE  /\ Firsts(all) \subseteq DOMAIN all /\ Firsts(all) \subseteq Nat /\ IsFiniteSet(Firsts(all))
         /\ \A k \in DOMAIN all :
              k \in Firsts(all) <=> \A j \in DOMAIN all : j < k => Identity(all[j]) # Identity(all[k])
<1>1. Len(all) \in Nat /\ DOMAIN all = 1..Len(all) /\ DOMAIN all \subseteq Nat /\ IsFiniteSet(DOMAIN all)
  BY DomainOfSeq
<1>2. Firsts(all) \subseteq DOMAIN all
  BY DEF Firsts
<1>3. ASSUME NEW k \in DOMAIN all
      PROVE  k \in Firsts(all) <=> \A j \in DOMAIN all : j < k => Identity(all[j]) # Identity(all[k])
  <2>1. PICK m \in DOMAIN all :
          /\ m = Min(ListedIn(all, k)) /\ Identity(all[m]) = Identity(all[k])
          /\ \A j \in DOMAIN all : Identity(all[j]) = Identity(all[k]) => m <= j
    BY ListedFact
  <2>2. k \in Firsts(all) <=> k = m
    BY <2>1 DEF Firsts
  <2>3. m <= k /\ m \in Nat /\ k \in Nat
    BY <1>1, <2>1
  <2>4. QED BY <1>1, <2>1, <2>2, <2>3
<1>4. QED BY <1>1, <1>2, <1>3, FS_Subset

\* The last position of an instance is one after which it is not listed.
LEMMA LastFact ==
  ASSUME NEW I, NEW all \in Seq(I), NEW k \in DOMAIN all, NEW l \in DOMAIN all,
         Identity(all[l]) = Identity(all[k]),
         \A j \in DOMAIN all : l < j => Identity(all[j]) # Identity(all[k])
  PROVE  Max(ListedIn(all, k)) = l
<1>1. DOMAIN all \subseteq Nat
  BY DomainOfSeq
<1>2. PICK m \in DOMAIN all :
        /\ m = Max(ListedIn(all, k)) /\ Identity(all[m]) = Identity(all[k])
        /\ \A j \in DOMAIN all : Identity(all[j]) = Identity(all[k]) => j <= m
  BY ListedFact
<1>3. l <= m /\ ~(l < m) /\ l \in Nat /\ m \in Nat
  BY <1>1, <1>2
<1>4. QED BY <1>2, <1>3

\* Every instance has one row, which stands where the instance was first listed.
LEMMA OnceFact ==
  ASSUME NEW I, NEW all \in Seq(I)
  PROVE  LET once == Once(all)
             order == InOrder(Firsts(all))
         IN /\ once \in Seq(I) /\ Len(once) = Cardinality(Firsts(all))
            /\ Len(once) \in Nat /\ DOMAIN once = 1..Len(once)
            /\ \A p \in DOMAIN once : order[p] \in Firsts(all) /\ once[p] = all[Max(ListedIn(all, order[p]))]
            /\ \A p \in DOMAIN once : Identity(once[p]) = Identity(all[order[p]])
            /\ \A p, q \in DOMAIN once : p < q => order[p] < order[q]
            /\ \A k \in Firsts(all) : \E p \in DOMAIN once : order[p] = k
            /\ \A k \in DOMAIN all : \E p \in DOMAIN once : Identity(once[p]) = Identity(all[k])
            /\ \A p, q \in DOMAIN once : Identity(once[p]) = Identity(once[q]) => p = q
<1> DEFINE once == Once(all)
           order == InOrder(Firsts(all))
           n == Cardinality(Firsts(all))
<1>1. /\ n \in Nat /\ order \in [1..n -> Firsts(all)]
      /\ \A p, q \in 1..n : p < q => order[p] < order[q]
      /\ \A k \in Firsts(all) : \E p \in 1..n : order[p] = k
  BY FirstsFact, InOrderFact
<1>2. once = [p \in 1..n |-> all[Max(ListedIn(all, order[p]))]]
  BY DEF Once
<1> HIDE DEF once, order, n
<1>3. Len(all) \in Nat /\ DOMAIN all = 1..Len(all) /\ \A k \in DOMAIN all : all[k] \in I
  BY DomainOfSeq
<1>4. ASSUME NEW p \in 1..n
      PROVE  /\ order[p] \in DOMAIN all /\ once[p] = all[Max(ListedIn(all, order[p]))]
             /\ once[p] \in I /\ Identity(once[p]) = Identity(all[order[p]])
  <2>1. PICK k \in DOMAIN all : k = order[p]
    BY <1>1, FirstsFact
  <2>2. Max(ListedIn(all, k)) \in DOMAIN all /\ Identity(all[Max(ListedIn(all, k))]) = Identity(all[k])
    BY ListedFact
  <2>3. QED BY <1>2, <1>3, <2>1, <2>2
<1>5. once \in Seq(I) /\ Len(once) = n /\ DOMAIN once = 1..n
  <2>1. once = [p \in 1..n |-> once[p]]
    BY <1>2
  <2>2. once \in [1..n -> I]
    BY <1>4, <2>1
  <2>3. QED BY <1>1, <2>2
<1>6. ASSUME NEW k \in DOMAIN all
      PROVE  \E p \in 1..n : Identity(once[p]) = Identity(all[k])
  <2>1. PICK m \in DOMAIN all :
          /\ m = Min(ListedIn(all, k)) /\ Identity(all[m]) = Identity(all[k])
          /\ \A j \in DOMAIN all : Identity(all[j]) = Identity(all[k]) => m <= j
    BY ListedFact
  <2>2. m \in Firsts(all)
    <3>1. \A j \in DOMAIN all : j < m => Identity(all[j]) # Identity(all[m])
      <4>1. SUFFICES ASSUME NEW j \in DOMAIN all, j < m, Identity(all[j]) = Identity(all[m]) PROVE FALSE
        OBVIOUS
      <4>2. m <= j /\ m \in Nat /\ j \in Nat
        BY <1>3, <2>1, <4>1
      <4>3. QED BY <4>1, <4>2
    <3>2. QED BY <3>1, FirstsFact
  <2>3. PICK p \in 1..n : order[p] = m
    BY <1>1, <2>2
  <2>4. QED BY <1>4, <2>1, <2>3
<1>7. ASSUME NEW p \in 1..n, NEW q \in 1..n, Identity(once[p]) = Identity(once[q])
      PROVE  p = q
  <2>1. PICK k \in Firsts(all), l \in Firsts(all) : k = order[p] /\ l = order[q]
    BY <1>1
  <2>2. Identity(all[k]) = Identity(all[l])
    BY <1>4, <1>7, <2>1
  <2>3. ~(k < l) /\ ~(l < k) /\ k \in Nat /\ l \in Nat
    BY <2>2, FirstsFact
  <2>4. ~(p < q) /\ ~(q < p)
    BY <1>1, <2>1, <2>3
  <2>5. QED BY <1>1, <2>4
<1>8. QED BY <1>1, <1>4, <1>5, <1>6, <1>7 DEF once, order, n

\* Merging is done on all the instances.
LEMMA MergeOnce == \A previous, incoming : MergeDiscovered(previous, incoming) = Once(previous \o incoming)
<1>1. SUFFICES ASSUME NEW previous, NEW incoming
               PROVE  MergeDiscovered(previous, incoming) = Once(previous \o incoming)
  OBVIOUS
<1> DEFINE all == previous \o incoming
<1>2. Firsts(all) = {k \in DOMAIN all : k = Min({j \in DOMAIN all : Identity(all[j]) = Identity(all[k])})}
  BY DEF Firsts, ListedIn
<1>3. DOMAIN InOrder(Firsts(all)) = 1..Cardinality(Firsts(all))
  BY DEF InOrder
<1>4. QED BY <1>2, <1>3 DEF MergeDiscovered, Once, ListedIn

(***************************************************************************)
(* Merging lists has a row for every listed instance, each once, and every *)
(* row of it is a listed one (mergeDiscovered).                            *)
(***************************************************************************)
LEMMA MergedFact ==
  ASSUME NEW I, NEW previous \in Seq(I), NEW incoming \in Seq(I)
  PROVE  LET all == previous \o incoming
             merged == MergeDiscovered(previous, incoming)
         IN /\ merged \in Seq(I)
            /\ \A p \in DOMAIN merged : \E k \in DOMAIN all : merged[p] = all[k]
            /\ \A k \in DOMAIN all : \E p \in DOMAIN merged : Identity(merged[p]) = Identity(all[k])
            /\ \A p, q \in DOMAIN merged : Identity(merged[p]) = Identity(merged[q]) => p = q
<1> DEFINE all == previous \o incoming
           merged == MergeDiscovered(previous, incoming)
<1>1. all \in Seq(I) /\ merged = Once(all)
  BY ConcatProperties, MergeOnce
<1> HIDE DEF all, merged
<1>2. /\ merged \in Seq(I)
      /\ \A p \in DOMAIN merged : /\ InOrder(Firsts(all))[p] \in DOMAIN all
                                  /\ merged[p] = all[Max(ListedIn(all, InOrder(Firsts(all))[p]))]
      /\ \A k \in DOMAIN all : \E p \in DOMAIN merged : Identity(merged[p]) = Identity(all[k])
      /\ \A p, q \in DOMAIN merged : Identity(merged[p]) = Identity(merged[q]) => p = q
  BY <1>1, OnceFact, FirstsFact
<1>3. \A k \in DOMAIN all : Max(ListedIn(all, k)) \in DOMAIN all
  BY <1>1, ListedFact
<1>4. \A p \in DOMAIN merged : \E k \in DOMAIN all : merged[p] = all[k]
  BY <1>2, <1>3
<1>5. QED BY <1>2, <1>4 DEF all, merged

\* An instance that was listed before is still listed.
LEMMA MergedKeeps ==
  ASSUME NEW I, NEW previous \in Seq(I), NEW incoming \in Seq(I), NEW k \in DOMAIN previous
  PROVE  \E p \in DOMAIN MergeDiscovered(previous, incoming) :
           Identity(MergeDiscovered(previous, incoming)[p]) = Identity(previous[k])
<1>1. PICK all : all = previous \o incoming
  OBVIOUS
<1>2. all \in Seq(I) /\ k \in DOMAIN all /\ all[k] = previous[k]
  BY <1>1, ConcatProperties
<1>3. PICK once : once = Once(all)
  OBVIOUS
<1>4. \E p \in DOMAIN once : Identity(once[p]) = Identity(all[k])
  BY <1>2, <1>3, OnceFact
<1>5. MergeDiscovered(previous, incoming) = once
  BY <1>1, <1>3, MergeOnce
<1>6. QED BY <1>2, <1>4, <1>5

(***************************************************************************)
(* The rows that are new to a draft are discovered ones, each instance     *)
(* once, and none that the draft has.                                      *)
(***************************************************************************)
LEMMA NewRowsFact ==
  ASSUME NEW I, NEW accounts, NEW found \in Seq(I)
  PROVE  LET fresh == NewRows(accounts, found)
         IN /\ fresh \in Seq(I)
            /\ \A p, q \in DOMAIN fresh : Identity(fresh[p]) = Identity(fresh[q]) => p = q
            /\ \A p \in DOMAIN fresh, j \in DOMAIN accounts : Identity(fresh[p]) # Identity(accounts[j])
<1> DEFINE merged == MergeDiscovered(<<>>, found)
           known == {Identity(accounts[j]) : j \in DOMAIN accounts}
           P == {p \in DOMAIN merged : Identity(merged[p]) \notin known}
           fresh == Chosen(merged, P)
<1>1. fresh = NewRows(accounts, found)
  BY DEF NewRows
<1>2. merged \in Seq(I) /\ \A p, q \in DOMAIN merged : Identity(merged[p]) = Identity(merged[q]) => p = q
  <2>1. <<>> \in Seq(I)
    OBVIOUS
  <2>2. QED BY <2>1, MergedFact
<1> HIDE DEF merged
<1>3. P \subseteq 1..Len(merged) /\ P \subseteq DOMAIN merged
  BY <1>2
<1>4. \A p \in P : Identity(merged[p]) \notin known
  OBVIOUS
<1> HIDE DEF P
<1>5. /\ fresh \in Seq(I) /\ Cardinality(P) \in Nat /\ Len(fresh) = Cardinality(P)
      /\ \A p \in 1..Cardinality(P) : InOrder(P)[p] \in P /\ fresh[p] = merged[InOrder(P)[p]]
      /\ \A p, q \in 1..Cardinality(P) : p < q => InOrder(P)[p] < InOrder(P)[q]
  BY <1>2, <1>3, ChosenFact
<1> HIDE DEF fresh
<1>6. DOMAIN fresh = 1..Cardinality(P)
  BY <1>5
<1>7. ASSUME NEW p \in DOMAIN fresh, NEW q \in DOMAIN fresh, Identity(fresh[p]) = Identity(fresh[q])
      PROVE  p = q
  <2>1. InOrder(P)[p] = InOrder(P)[q]
    BY <1>2, <1>3, <1>5, <1>6, <1>7
  <2>2. InOrder(P)[p] \in Nat
    BY <1>2, <1>3, <1>5, <1>6
  <2>3. QED BY <1>5, <1>6, <2>1, <2>2
<1>8. ASSUME NEW p \in DOMAIN fresh, NEW j \in DOMAIN accounts
      PROVE  Identity(fresh[p]) # Identity(accounts[j])
  BY <1>4, <1>5, <1>6
<1>9. QED BY <1>1, <1>5, <1>7, <1>8

\* New rows are no more than the rows that were discovered.
LEMMA NewRowsLength ==
  ASSUME NEW I, NEW accounts, NEW found \in Seq(I)
  PROVE  Len(NewRows(accounts, found)) \in Nat /\ Len(NewRows(accounts, found)) <= Len(found)
<1> DEFINE known == {Identity(accounts[j]) : j \in DOMAIN accounts}
           P == {p \in DOMAIN Once(found) : Identity(Once(found)[p]) \notin known}
<1>1. MergeDiscovered(<<>>, found) = Once(found)
  <2>1. <<>> \o found = found
    OBVIOUS
  <2>2. QED BY <2>1, MergeOnce
<1>2. NewRows(accounts, found) = Chosen(Once(found), P)
  BY <1>1 DEF NewRows
<1>3. PICK merged \in Seq(I) : merged = Once(found)
  BY OnceFact
<1>4. Len(merged) = Cardinality(Firsts(found)) /\ DOMAIN merged = 1..Len(merged) /\ Len(merged) \in Nat
  BY <1>3, OnceFact, DomainOfSeq
<1>5. P \subseteq 1..Len(merged)
  BY <1>3, <1>4
<1> HIDE DEF P
<1>6. Len(Chosen(merged, P)) = Cardinality(P) /\ Cardinality(P) \in Nat
  BY <1>5, ChosenFact
<1>7. Cardinality(P) <= Len(merged)
  <2>1. PICK n \in Nat : n = Len(merged)
    BY <1>4
  <2>2. IsFiniteSet(1..n) /\ Cardinality(1..n) = IF 1 > n THEN 0 ELSE n - 1 + 1
    BY FS_Interval
  <2>3. Cardinality(1..n) = n
    BY <2>2
  <2>4. QED BY <1>5, <2>1, <2>2, <2>3, FS_Subset
<1>8. Cardinality(Firsts(found)) <= Len(found)
  <2>1. PICK n \in Nat : n = Len(found) /\ DOMAIN found = 1..n
    BY DomainOfSeq
  <2>2. IsFiniteSet(1..n) /\ Cardinality(1..n) = IF 1 > n THEN 0 ELSE n - 1 + 1
    BY FS_Interval
  <2>3. Cardinality(1..n) = n
    BY <2>2
  <2>4. Firsts(found) \subseteq 1..n
    BY <2>1, FirstsFact
  <2>5. QED BY <2>1, <2>2, <2>3, <2>4, FS_Subset
<1>9. Len(found) \in Nat
  OBVIOUS
<1>10. QED BY <1>2, <1>3, <1>4, <1>6, <1>7, <1>8, <1>9

\* The instances of the rows at some positions.
IdentitiesAt(rows, P) == {Identity(rows[p]) : p \in P}

LEMMA IdentitiesFact == \A rows, P, x : x \in IdentitiesAt(rows, P) <=> \E p \in P : x = Identity(rows[p])
BY DEF IdentitiesAt

(***************************************************************************)
(* Rows that are chosen from rows of different instances: as many as their *)
(* instances.                                                              *)
(***************************************************************************)
LEMMA ChosenRows ==
  ASSUME NEW I, NEW rows \in Seq(I), NEW P, P \subseteq DOMAIN rows,
         \A p, q \in DOMAIN rows : Identity(rows[p]) = Identity(rows[q]) => p = q,
         NEW picks, picks = Chosen(rows, P), NEW ids, ids = IdentitiesAt(rows, P)
  PROVE  /\ picks \in Seq(I) /\ DOMAIN picks = 1..Len(picks) /\ Len(picks) \in Nat
         /\ \A p, q \in DOMAIN picks : Identity(picks[p]) = Identity(picks[q]) => p = q
         /\ ids = IdentitiesAt(picks, DOMAIN picks)
         /\ IsFiniteSet(ids) /\ Cardinality(ids) = Len(picks)
<1>1. DOMAIN rows = 1..Len(rows) /\ Len(rows) \in Nat
  BY DomainOfSeq
<1>2. PICK order : order = InOrder(P)
  OBVIOUS
<1>3. /\ Chosen(rows, P) \in Seq(I) /\ Cardinality(P) \in Nat /\ Len(Chosen(rows, P)) = Cardinality(P)
      /\ \A p \in 1..Cardinality(P) : InOrder(P)[p] \in P /\ Chosen(rows, P)[p] = rows[InOrder(P)[p]]
      /\ \A p, q \in 1..Cardinality(P) : p < q => InOrder(P)[p] < InOrder(P)[q]
      /\ \A k \in P : \E p \in 1..Cardinality(P) : InOrder(P)[p] = k
  BY <1>1, ChosenFact
<1>4. PICK n : n = Cardinality(P)
  OBVIOUS
<1>5. /\ picks \in Seq(I) /\ n \in Nat /\ Len(picks) = n
      /\ \A p \in 1..n : order[p] \in P /\ picks[p] = rows[order[p]]
      /\ \A p, q \in 1..n : p < q => order[p] < order[q]
      /\ \A k \in P : \E p \in 1..n : order[p] = k
  BY <1>2, <1>3, <1>4
<1>6. DOMAIN picks = 1..n /\ \A p \in 1..n : order[p] \in Nat
  BY <1>1, <1>5, DomainOfSeq
<1>7. ASSUME NEW p \in 1..n, NEW q \in 1..n, Identity(picks[p]) = Identity(picks[q]) PROVE p = q
  <2>1. order[p] = order[q]
    BY <1>5, <1>7
  <2>2. ~(p < q) /\ ~(q < p)
    BY <1>5, <1>6, <2>1
  <2>3. QED BY <2>2
<1> DEFINE id == [p \in 1..n |-> Identity(picks[p])]
<1>8. \A x : x \in ids <=> \E p \in DOMAIN picks : x = Identity(picks[p])
  <2>1. \A p \in 1..n : Identity(picks[p]) \in ids
    BY <1>5, IdentitiesFact
  <2>2. \A k \in P : \E p \in 1..n : Identity(rows[k]) = Identity(picks[p])
    BY <1>5
  <2>3. QED BY <1>6, <2>1, <2>2, IdentitiesFact
<1>9. IsFiniteSet(ids) /\ Cardinality(ids) = n
  <2>1. id \in [1..n -> ids] /\ \A x \in ids : \E p \in 1..n : id[p] = x
    BY <1>6, <1>8
  <2>2. \A p, q \in 1..n : id[p] = id[q] => p = q
    BY <1>7
  <2> HIDE DEF id
  <2>3. id \in Bijection(1..n, ids)
    BY <2>1, <2>2 DEF Bijection, Injection, Surjection, IsInjective
  <2>4. ExistsBijection(1..n, ids)
    BY <2>3 DEF ExistsBijection
  <2>5. IsFiniteSet(1..n) /\ Cardinality(1..n) = IF 1 > n THEN 0 ELSE n - 1 + 1
    BY <1>5, FS_Interval
  <2>6. Cardinality(1..n) = n
    BY <1>5, <2>5
  <2>7. QED BY <2>4, <2>5, <2>6, FS_Bijection
<1>10. /\ picks \in Seq(I) /\ DOMAIN picks = 1..Len(picks) /\ Len(picks) \in Nat
       /\ \A p, q \in DOMAIN picks : Identity(picks[p]) = Identity(picks[q]) => p = q
       /\ Cardinality(ids) = Len(picks)
  BY <1>5, <1>6, <1>7, <1>9
<1>11. ids = IdentitiesAt(picks, DOMAIN picks)
  <2>1. \A x : x \in ids <=> x \in IdentitiesAt(picks, DOMAIN picks)
    BY <1>8, IdentitiesFact
  <2>2. QED BY <2>1
<1>12. QED BY <1>9, <1>10, <1>11

(***************************************************************************)
(* Merging page by page is merging all at once: a row stays where its      *)
(* instance was first listed, and is as it was last listed.                *)
(***************************************************************************)
LEMMA MergeAgain ==
  ASSUME NEW I, NEW s \in Seq(I), NEW t \in Seq(I)
  PROVE  MergeDiscovered(MergeDiscovered(<<>>, s), t) = MergeDiscovered(<<>>, s \o t)
<1>1. PICK all : all = s \o t
  OBVIOUS
<1>2. PICK rows : rows = Once(s)
  OBVIOUS
<1>3. PICK both : both = rows \o t
  OBVIOUS
<1>4. MergeDiscovered(MergeDiscovered(<<>>, s), t) = Once(both) /\ MergeDiscovered(<<>>, s \o t) = Once(all)
  <2>1. <<>> \o s = s /\ <<>> \o (s \o t) = s \o t
    <3>1. s \o t \in Seq(I)
      BY ConcatProperties
    <3>2. QED BY <3>1
  <2>2. MergeDiscovered(<<>>, s) = Once(s) /\ MergeDiscovered(<<>>, s \o t) = Once(s \o t)
    BY <2>1, MergeOnce
  <2>3. MergeDiscovered(Once(s), t) = Once(Once(s) \o t)
    BY MergeOnce
  <2>4. QED BY <1>1, <1>2, <1>3, <2>2, <2>3
<1>5. PICK n \in Nat, k \in Nat : n = Len(s) /\ k = Len(t)
  OBVIOUS
<1>6. PICK order : order = InOrder(Firsts(s))
  OBVIOUS
<1>7. PICK m \in Nat : m = Len(rows) /\ DOMAIN rows = 1..m
  BY <1>2, OnceFact
<1>8. rows \in Seq(I)
  BY <1>2, OnceFact
<1>9. /\ \A p \in 1..m : order[p] \in Firsts(s) /\ rows[p] = s[Max(ListedIn(s, order[p]))]
      /\ \A p \in 1..m : Identity(rows[p]) = Identity(s[order[p]])
      /\ \A p, q \in 1..m : p < q => order[p] < order[q]
      /\ \A x \in Firsts(s) : \E p \in 1..m : order[p] = x
      /\ \A x \in 1..n : \E p \in 1..m : Identity(rows[p]) = Identity(s[x])
      /\ \A p, q \in 1..m : Identity(rows[p]) = Identity(rows[q]) => p = q
  <2>1. DOMAIN s = 1..n
    BY <1>5
  <2>2. /\ \A p \in DOMAIN Once(s) : /\ InOrder(Firsts(s))[p] \in Firsts(s)
                                     /\ Once(s)[p] = s[Max(ListedIn(s, InOrder(Firsts(s))[p]))]
        /\ \A p \in DOMAIN Once(s) : Identity(Once(s)[p]) = Identity(s[InOrder(Firsts(s))[p]])
        /\ \A p, q \in DOMAIN Once(s) : p < q => InOrder(Firsts(s))[p] < InOrder(Firsts(s))[q]
        /\ \A x \in Firsts(s) : \E p \in DOMAIN Once(s) : InOrder(Firsts(s))[p] = x
        /\ \A x \in DOMAIN s : \E p \in DOMAIN Once(s) : Identity(Once(s)[p]) = Identity(s[x])
        /\ \A p, q \in DOMAIN Once(s) : Identity(Once(s)[p]) = Identity(Once(s)[q]) => p = q
    BY OnceFact
  <2>3. QED BY <1>2, <1>6, <1>7, <2>1, <2>2
<1>10. /\ all \in Seq(I) /\ DOMAIN all = 1..(n + k)
       /\ \A x \in 1..n : all[x] = s[x]
       /\ \A x \in 1..k : all[n + x] = t[x]
  <2>1. /\ all \in Seq(I) /\ Len(all) = n + k
        /\ \A x \in 1..(n + k) : all[x] = IF x <= n THEN s[x] ELSE t[x - n]
    BY <1>1, <1>5, ConcatProperties
  <2>2. \A x \in 1..n : all[x] = s[x]
    BY <1>5, <2>1
  <2>3. ASSUME NEW x \in 1..k PROVE all[n + x] = t[x]
    <3>1. n + x \in 1..(n + k) /\ ~(n + x <= n) /\ (n + x) - n = x
      BY <1>5
    <3>2. QED BY <2>1, <3>1
  <2>4. QED BY <2>1, <2>2, <2>3
<1>11. /\ both \in Seq(I) /\ DOMAIN both = 1..(m + k)
       /\ \A x \in 1..m : both[x] = rows[x]
       /\ \A x \in 1..k : both[m + x] = t[x]
  <2>1. /\ both \in Seq(I) /\ Len(both) = m + k
        /\ \A x \in 1..(m + k) : both[x] = IF x <= m THEN rows[x] ELSE t[x - m]
    BY <1>3, <1>5, <1>7, <1>8, ConcatProperties
  <2>2. \A x \in 1..m : both[x] = rows[x]
    BY <1>5, <1>7, <2>1
  <2>3. ASSUME NEW x \in 1..k PROVE both[m + x] = t[x]
    <3>1. m + x \in 1..(m + k) /\ ~(m + x <= m) /\ (m + x) - m = x
      BY <1>5, <1>7
    <3>2. QED BY <2>1, <3>1
  <2>4. QED BY <2>1, <2>2, <2>3
<1>12. /\ Firsts(s) \subseteq 1..n
       /\ \A x \in 1..n : x \in Firsts(s) <=> \A y \in 1..n : y < x => Identity(s[y]) # Identity(s[x])
  <2>1. DOMAIN s = 1..n
    BY <1>5
  <2>2. QED BY <2>1, FirstsFact
<1>13. /\ Firsts(all) \subseteq 1..(n + k) /\ Firsts(all) \subseteq Nat
       /\ \A x \in 1..(n + k) :
            x \in Firsts(all) <=> \A y \in 1..(n + k) : y < x => Identity(all[y]) # Identity(all[x])
  BY <1>10, FirstsFact
<1>14. /\ Firsts(both) \subseteq 1..(m + k) /\ Firsts(both) \subseteq Nat /\ IsFiniteSet(Firsts(both))
       /\ \A x \in 1..(m + k) :
            x \in Firsts(both) <=> \A y \in 1..(m + k) : y < x => Identity(both[y]) # Identity(both[x])
  BY <1>11, FirstsFact
\* Where the position of a first row lies among all the instances.
<1> DEFINE f == [x \in Firsts(both) |-> IF x <= m THEN order[x] ELSE (x - m) + n]
<1>15. ASSUME NEW x \in Firsts(both)
       PROVE  f[x] \in Firsts(all) /\ Identity(all[f[x]]) = Identity(both[x])
  <2>1. CASE x <= m
    <3>1. x \in 1..m /\ f[x] = order[x]
      BY <1>14, <2>1
    <3>2. PICK y \in 1..n : y = order[x] /\ y \in Firsts(s)
      BY <1>9, <1>12, <3>1
    <3>3. y \in 1..(n + k) /\ all[y] = s[y]
      BY <1>10
    <3>4. ASSUME NEW z \in 1..(n + k), z < y PROVE Identity(all[z]) # Identity(all[y])
      <4>1. z \in 1..n
        BY <3>4
      <4>2. QED BY <1>10, <1>12, <3>2, <3>3, <3>4, <4>1
    <3>5. y \in Firsts(all)
      BY <1>13, <3>3, <3>4
    <3>6. Identity(both[x]) = Identity(s[y])
      BY <1>9, <1>11, <3>1, <3>2
    <3>7. QED BY <3>1, <3>2, <3>3, <3>5, <3>6
  <2>2. CASE ~(x <= m)
    <3>1. PICK j \in 1..k : x = m + j
      <4>1. x \in 1..(m + k)
        BY <1>14
      <4>2. x - m \in 1..k /\ x = m + (x - m)
        BY <2>2, <4>1
      <4>3. QED BY <4>2
    <3>2. f[x] = n + j
      BY <2>2, <3>1
    <3>3. n + j \in 1..(n + k) /\ m + j \in 1..(m + k) /\ all[n + j] = t[j] /\ both[m + j] = t[j]
      <4>1. n + j \in 1..(n + k) /\ m + j \in 1..(m + k)
        OBVIOUS
      <4>2. QED BY <1>10, <1>11, <4>1
    <3>4. ASSUME NEW z \in 1..(n + k), z < n + j, Identity(all[z]) = Identity(t[j]) PROVE FALSE
      <4>1. CASE z <= n
        <5>1. z \in 1..n /\ all[z] = s[z]
          BY <1>10, <4>1
        <5>2. PICK p \in 1..m : Identity(rows[p]) = Identity(s[z])
          BY <1>9, <5>1
        <5>3. p \in 1..(m + k) /\ p < m + j /\ both[p] = rows[p]
          BY <1>11
        <5>4. QED BY <1>14, <3>1, <3>3, <3>4, <5>1, <5>2, <5>3
      <4>2. CASE ~(z <= n)
        <5>1. PICK i \in 1..k : z = n + i
          <6>1. z - n \in 1..k /\ z = n + (z - n)
            BY <4>2
          <6>2. QED BY <6>1
        <5>2. m + i \in 1..(m + k) /\ m + i < m + j
          BY <3>4, <5>1
        <5>3. all[z] = t[i] /\ both[m + i] = t[i]
          BY <1>10, <1>11, <5>1
        <5>4. QED BY <1>14, <3>1, <3>3, <3>4, <5>2, <5>3
      <4>3. QED BY <4>1, <4>2
    <3>5. n + j \in Firsts(all)
      BY <1>13, <3>3, <3>4
    <3>6. QED BY <3>1, <3>2, <3>3, <3>5
  <2>3. QED BY <2>1, <2>2
<1>16. f \in [Firsts(both) -> Firsts(all)]
  BY <1>15
<1>17. ASSUME NEW x \in Firsts(both), NEW y \in Firsts(both), x < y PROVE f[x] < f[y]
  <2>1. x \in Nat /\ y \in Nat /\ x \in 1..(m + k) /\ y \in 1..(m + k)
    BY <1>14
  <2>2. CASE y <= m
    <3>1. x \in 1..m /\ y \in 1..m
      BY <1>17, <2>1, <2>2
    <3>2. QED BY <1>9, <1>17, <3>1
  <2>3. CASE x <= m /\ ~(y <= m)
    <3>1. x \in 1..m
      BY <2>1, <2>3
    <3>2. order[x] \in 1..n
      BY <1>9, <1>12, <3>1
    <3>3. f[x] = order[x] /\ f[y] = (y - m) + n
      BY <2>3
    <3>4. y - m > 0
      BY <2>1, <2>3
    <3>5. QED BY <2>1, <3>2, <3>3, <3>4
  <2>4. CASE ~(x <= m)
    <3>1. f[x] = (x - m) + n /\ f[y] = (y - m) + n
      BY <1>17, <2>1, <2>4
    <3>2. QED BY <1>17, <2>1, <3>1
  <2>5. QED BY <2>2, <2>3, <2>4
<1>18. ASSUME NEW y \in Firsts(all) PROVE \E x \in Firsts(both) : f[x] = y
  <2>1. y \in 1..(n + k) /\ \A z \in 1..(n + k) : z < y => Identity(all[z]) # Identity(all[y])
    BY <1>13
  <2>2. CASE y <= n
    <3>1. y \in 1..n
      BY <2>1, <2>2
    <3>2. ASSUME NEW z \in 1..n, z < y PROVE Identity(s[z]) # Identity(s[y])
      BY <1>10, <2>1, <3>1, <3>2
    <3>3. PICK p \in 1..m : order[p] = y
      BY <1>9, <1>12, <3>1, <3>2
    <3>4. p \in 1..(m + k) /\ both[p] = rows[p]
      BY <1>11
    <3>5. ASSUME NEW z \in 1..(m + k), z < p PROVE Identity(both[z]) # Identity(both[p])
      <4>1. z \in 1..m /\ z # p
        BY <3>5
      <4>2. QED BY <1>9, <1>11, <3>4, <4>1
    <3>6. p \in Firsts(both)
      BY <1>14, <3>4, <3>5
    <3>7. QED BY <3>3, <3>6
  <2>3. CASE ~(y <= n)
    <3>1. PICK j \in 1..k : y = n + j
      <4>1. y - n \in 1..k /\ y = n + (y - n)
        BY <2>1, <2>3
      <4>2. QED BY <4>1
    <3>2. all[y] = t[j] /\ both[m + j] = t[j] /\ m + j \in 1..(m + k)
      BY <1>10, <1>11, <3>1
    <3>3. ASSUME NEW z \in 1..(m + k), z < m + j, Identity(both[z]) = Identity(t[j]) PROVE FALSE
      <4>1. CASE z <= m
        <5>1. z \in 1..m /\ both[z] = rows[z]
          BY <1>11, <4>1
        <5>2. PICK x \in 1..n : x = order[z]
          BY <1>9, <1>12, <5>1
        <5>3. Identity(all[x]) = Identity(t[j])
          BY <1>9, <1>10, <3>3, <5>1, <5>2
        <5>4. x \in 1..(n + k) /\ x < y
          BY <3>1
        <5>5. QED BY <2>1, <3>2, <5>3, <5>4
      <4>2. CASE ~(z <= m)
        <5>1. PICK i \in 1..k : z = m + i
          <6>1. z - m \in 1..k /\ z = m + (z - m)
            BY <4>2
          <6>2. QED BY <6>1
        <5>2. n + i \in 1..(n + k) /\ n + i < y
          BY <3>1, <3>3, <5>1
        <5>3. all[n + i] = t[i] /\ both[z] = t[i]
          BY <1>10, <1>11, <5>1
        <5>4. QED BY <2>1, <3>2, <3>3, <5>2, <5>3
      <4>3. QED BY <4>1, <4>2
    <3>4. m + j \in Firsts(both)
      BY <1>14, <3>2, <3>3
    <3>5. f[m + j] = y
      <4>1. ~(m + j <= m) /\ ((m + j) - m) + n = y
        BY <3>1
      <4>2. QED BY <3>4, <4>1
    <3>6. QED BY <3>4, <3>5
  <2>4. QED BY <2>2, <2>3
<1> HIDE DEF f
<1>19. /\ Cardinality(Firsts(all)) = Cardinality(Firsts(both))
       /\ \A p \in 1..Cardinality(Firsts(both)) : InOrder(Firsts(all))[p] = f[InOrder(Firsts(both))[p]]
  <2>1. PICK A, B, h : A = Firsts(all) /\ B = Firsts(both) /\ h = f
    OBVIOUS
  <2>2. A \subseteq Nat /\ B \subseteq Nat /\ IsFiniteSet(B) /\ h \in [B -> A]
    BY <1>13, <1>14, <1>16, <2>1
  <2>3. (\A x, y \in B : x < y => h[x] < h[y]) /\ (\A x \in A : \E y \in B : h[y] = x)
    BY <1>17, <1>18, <2>1
  <2>4. Cardinality(A) = Cardinality(B) /\ SamePlaces(h, B, A)
    BY <2>2, <2>3, SameOrder
  <2>5. QED BY <2>1, <2>4 DEF SamePlaces
<1>20. ASSUME NEW x \in Firsts(both)
       PROVE  all[Max(ListedIn(all, f[x]))] = both[Max(ListedIn(both, x))]
  <2>1. PICK y \in 1..(n + k) : y = f[x] /\ Identity(all[y]) = Identity(both[x])
    BY <1>13, <1>15
  <2>2. x \in DOMAIN both
    BY <1>11, <1>14
  <2>3. PICK l \in 1..(m + k) :
          /\ l = Max(ListedIn(both, x)) /\ Identity(both[l]) = Identity(both[x])
          /\ \A j \in 1..(m + k) : Identity(both[j]) = Identity(both[x]) => j <= l
    BY <1>11, <2>2, ListedFact
  <2>4. y \in DOMAIN all
    BY <1>10
  <2>5. ASSUME NEW z \in 1..(n + k), Identity(all[z]) = Identity(all[y]), all[z] = both[l],
               \A j \in 1..(n + k) : z < j => Identity(all[j]) # Identity(all[y])
        PROVE  all[Max(ListedIn(all, f[x]))] = both[Max(ListedIn(both, x))]
    <3>1. z \in DOMAIN all /\ \A j \in DOMAIN all : z < j => Identity(all[j]) # Identity(all[y])
      BY <1>10, <2>5
    <3>2. Max(ListedIn(all, y)) = z
      BY <1>10, <2>4, <2>5, <3>1, LastFact
    <3>3. QED BY <2>1, <2>3, <2>5, <3>2
  <2>6. CASE ~(l <= m)
    <3>1. PICK i \in 1..k : l = m + i
      <4>1. l - m \in 1..k /\ l = m + (l - m)
        BY <2>6
      <4>2. QED BY <4>1
    <3>2. n + i \in 1..(n + k) /\ all[n + i] = both[l]
      <4>1. n + i \in 1..(n + k)
        OBVIOUS
      <4>2. QED BY <1>10, <1>11, <3>1, <4>1
    <3>3. ASSUME NEW j \in 1..(n + k), n + i < j, Identity(all[j]) = Identity(all[y]) PROVE FALSE
      <4>1. PICK h \in 1..k : j = n + h
        <5>1. j - n \in 1..k /\ j = n + (j - n)
          BY <3>3
        <5>2. QED BY <5>1
      <4>2. m + h \in 1..(m + k) /\ all[j] = t[h] /\ both[m + h] = t[h]
        BY <1>10, <1>11, <4>1
      <4>3. m + h <= m + i
        BY <2>1, <2>3, <3>1, <3>3, <4>2
      <4>4. QED BY <3>3, <4>1, <4>3
    <3>4. QED BY <2>1, <2>3, <2>5, <3>2, <3>3
  <2>7. CASE l <= m
    <3>1. l \in 1..m /\ both[l] = rows[l]
      BY <1>11, <2>7
    <3>2. PICK o \in 1..n : o = order[l]
      BY <1>9, <1>12, <3>1
    <3>3. PICK z \in 1..n :
            /\ z = Max(ListedIn(s, o)) /\ Identity(s[z]) = Identity(s[o])
            /\ \A j \in 1..n : Identity(s[j]) = Identity(s[o]) => j <= z
      <4>1. o \in DOMAIN s /\ DOMAIN s = 1..n
        BY <1>5
      <4>2. QED BY <4>1, ListedFact
    <3>4. rows[l] = s[z]
      BY <1>9, <3>1, <3>2, <3>3
    <3>5. z \in 1..(n + k) /\ all[z] = both[l]
      BY <1>10, <3>1, <3>4
    <3>6. Identity(s[o]) = Identity(all[y])
      BY <2>1, <2>3, <3>1, <3>3, <3>4
    <3>7. ASSUME NEW j \in 1..(n + k), z < j, Identity(all[j]) = Identity(all[y]) PROVE FALSE
      <4>1. CASE j <= n
        <5>1. j \in 1..n /\ all[j] = s[j]
          BY <1>10, <4>1
        <5>2. j <= z
          BY <3>3, <3>6, <3>7, <5>1
        <5>3. QED BY <3>7, <5>2
      <4>2. CASE ~(j <= n)
        <5>1. PICK h \in 1..k : j = n + h
          <6>1. j - n \in 1..k /\ j = n + (j - n)
            BY <4>2
          <6>2. QED BY <6>1
        <5>2. m + h \in 1..(m + k) /\ all[j] = t[h] /\ both[m + h] = t[h]
          BY <1>10, <1>11, <5>1
        <5>3. m + h <= l
          BY <2>1, <2>3, <3>7, <5>2
        <5>4. QED BY <3>1, <5>3
      <4>3. QED BY <4>1, <4>2
    <3>8. QED BY <2>1, <2>3, <2>5, <3>5, <3>7
  <2>8. QED BY <2>6, <2>7
<1>21. Once(both) = Once(all)
  <2>1. PICK c \in Nat : c = Cardinality(Firsts(both)) /\ c = Cardinality(Firsts(all))
    BY <1>14, <1>19, FS_CardinalityType
  <2>2. ASSUME NEW p \in 1..c
        PROVE  all[Max(ListedIn(all, InOrder(Firsts(all))[p]))] = both[Max(ListedIn(both, InOrder(Firsts(both))[p]))]
    <3>1. PICK x \in Firsts(both) : x = InOrder(Firsts(both))[p]
      <4>1. InOrder(Firsts(both)) \in [1..Cardinality(Firsts(both)) -> Firsts(both)]
        BY <1>14, InOrderFact
      <4>2. QED BY <2>1, <4>1
    <3>2. InOrder(Firsts(all))[p] = f[x]
      BY <1>19, <2>1, <3>1
    <3>3. QED BY <1>20, <3>1, <3>2
  <2>3. Once(both) = [p \in 1..c |-> both[Max(ListedIn(both, InOrder(Firsts(both))[p]))]]
    BY <2>1 DEF Once
  <2>4. Once(all) = [p \in 1..c |-> all[Max(ListedIn(all, InOrder(Firsts(all))[p]))]]
    BY <2>1 DEF Once
  <2>5. QED BY <2>2, <2>3, <2>4
<1>22. QED BY <1>4, <1>21

-----------------------------------------------------------------------------
(***************************************************************************)
(* Sums over a finite set of the values of a function, as MapThenSumSet    *)
(* takes them: an element that CHOOSE picks is added to the sum of the     *)
(* others.  SumTable says that g has the sums over all the subsets.        *)
(***************************************************************************)
AnyOf(s) == CHOOSE x \in s : TRUE
SumRow(f, g, s) == IF s = {} THEN 0 ELSE f[AnyOf(s)] + g[s \ {AnyOf(s)}]
SumTable(f, S, g) == \A s \in SUBSET S : g[s] = SumRow(f, g, s)
SumOf(f, S) == (CHOOSE g \in [SUBSET S -> Int] : SumTable(f, S, g))[S]

LEMMA AnyFact == \A s : s # {} => AnyOf(s) \in s
BY DEF AnyOf

\* The subsets of a finite set, and what is left of one without an element.
LEMMA SmallerFact ==
  ASSUME NEW S, IsFiniteSet(S), NEW s \in SUBSET S
  PROVE  /\ IsFiniteSet(s) /\ Cardinality(s) \in Nat /\ (Cardinality(s) = 0 <=> s = {})
         /\ \A x \in s : s \ {x} \in SUBSET S /\ Cardinality(s \ {x}) = Cardinality(s) - 1
<1>1. IsFiniteSet(s)
  BY FS_Subset
<1>2. Cardinality(s) \in Nat /\ (Cardinality(s) = 0 <=> s = {})
  BY <1>1, FS_CardinalityType, FS_EmptySet
<1>3. \A x \in s : Cardinality(s \ {x}) = Cardinality(s) - 1
  BY <1>1, FS_RemoveElement
<1>4. QED BY <1>1, <1>2, <1>3

LEMMA SumTableExists ==
  ASSUME NEW S, IsFiniteSet(S), NEW f, \A x \in S : f[x] \in Int
  PROVE  \E g \in [SUBSET S -> Int] : SumTable(f, S, g)
<1> DEFINE Done == {n \in Nat : \E g \in [SUBSET S -> Int] :
                      \A s \in SUBSET S : Cardinality(s) <= n => g[s] = SumRow(f, g, s)}
<1>1. 0 \in Done
  <2>1. PICK g : g = [s \in SUBSET S |-> 0]
    OBVIOUS
  <2>2. g \in [SUBSET S -> Int]
    BY <2>1
  <2>3. \A s \in SUBSET S : Cardinality(s) <= 0 => s = {}
    BY SmallerFact
  <2>4. \A s \in SUBSET S : Cardinality(s) <= 0 => g[s] = SumRow(f, g, s)
    BY <2>1, <2>3 DEF SumRow
  <2>5. QED BY <2>2, <2>4
<1>2. ASSUME NEW n \in Nat, n \in Done PROVE n + 1 \in Done
  <2>1. PICK g \in [SUBSET S -> Int] : \A s \in SUBSET S : Cardinality(s) <= n => g[s] = SumRow(f, g, s)
    BY <1>2
  <2>2. PICK k \in Nat : k = n + 1
    OBVIOUS
  <2>3. PICK h : h = [s \in SUBSET S |-> IF Cardinality(s) = k THEN SumRow(f, g, s) ELSE g[s]]
    OBVIOUS
  <2>4. ASSUME NEW s \in SUBSET S PROVE SumRow(f, g, s) \in Int
    <3>1. s # {} => f[AnyOf(s)] \in Int /\ g[s \ {AnyOf(s)}] \in Int
      BY AnyFact
    <3>2. QED BY <3>1 DEF SumRow
  <2>5. h \in [SUBSET S -> Int]
    BY <2>3, <2>4
  <2>6. ASSUME NEW s \in SUBSET S, Cardinality(s) <= k PROVE h[s] = SumRow(f, h, s)
    <3>1. Cardinality(s) \in Nat
      BY SmallerFact
    <3>2. h[s] = SumRow(f, g, s)
      <4>1. CASE Cardinality(s) = k
        BY <2>3, <4>1
      <4>2. CASE Cardinality(s) # k
        <5>1. Cardinality(s) <= n
          BY <2>2, <2>6, <3>1, <4>2
        <5>2. QED BY <2>1, <2>3, <4>2, <5>1
      <4>3. QED BY <4>1, <4>2
    <3>3. s # {} => h[s \ {AnyOf(s)}] = g[s \ {AnyOf(s)}]
      <4>1. SUFFICES ASSUME s # {} PROVE h[s \ {AnyOf(s)}] = g[s \ {AnyOf(s)}]
        OBVIOUS
      <4>2. PICK r : r = s \ {AnyOf(s)}
        OBVIOUS
      <4>3. r \in SUBSET S /\ Cardinality(r) = Cardinality(s) - 1
        BY <4>1, <4>2, AnyFact, SmallerFact
      <4>4. Cardinality(r) # k
        BY <2>2, <2>6, <3>1, <4>3
      <4>5. QED BY <2>3, <4>2, <4>3, <4>4
    <3>4. QED BY <3>2, <3>3 DEF SumRow
  <2>7. QED BY <2>2, <2>5, <2>6
<1>3. IsFiniteSet(S) /\ Cardinality(S) \in Nat
  BY FS_CardinalityType
<1>4. Cardinality(S) \in Done
  <2> HIDE DEF Done
  <2>1. \A n \in Nat : n \in Done
    BY <1>1, <1>2, InductiveSet
  <2>2. QED BY <1>3, <2>1
<1>5. PICK g \in [SUBSET S -> Int] : \A s \in SUBSET S : Cardinality(s) <= Cardinality(S) => g[s] = SumRow(f, g, s)
  BY <1>4
<1>6. \A s \in SUBSET S : Cardinality(s) <= Cardinality(S)
  BY FS_Subset
<1>7. QED BY <1>5, <1>6 DEF SumTable

\* There is one such table, also for the subsets of a subset.
LEMMA SumTableUnique ==
  ASSUME NEW S, IsFiniteSet(S), NEW T \in SUBSET S, NEW f, NEW e, \A x \in T : f[x] = e[x],
         NEW g, SumTable(f, S, g), NEW h, SumTable(e, T, h)
  PROVE  \A s \in SUBSET T : g[s] = h[s]
<1> DEFINE Same == {n \in Nat : \A s \in SUBSET T : Cardinality(s) = n => g[s] = h[s]}
<1>1. IsFiniteSet(T)
  BY FS_Subset
<1>2. \A s \in SUBSET T : g[s] = SumRow(f, g, s) /\ h[s] = SumRow(e, h, s)
  BY DEF SumTable
<1>3. 0 \in Same
  <2>1. \A s \in SUBSET T : Cardinality(s) = 0 => s = {}
    BY <1>1, SmallerFact
  <2>2. \A s \in SUBSET T : s = {} => g[s] = 0 /\ h[s] = 0
    BY <1>2 DEF SumRow
  <2>3. QED BY <2>1, <2>2
<1>4. ASSUME NEW n \in Nat, n \in Same PROVE n + 1 \in Same
  <2>1. SUFFICES ASSUME NEW s \in SUBSET T, Cardinality(s) = n + 1 PROVE g[s] = h[s]
    OBVIOUS
  <2>2. s # {}
    BY <1>1, <2>1, SmallerFact
  <2>3. PICK r, x : x = AnyOf(s) /\ r = s \ {x}
    OBVIOUS
  <2>4. x \in s /\ r \in SUBSET T /\ Cardinality(r) = n
    BY <1>1, <2>1, <2>2, <2>3, AnyFact, SmallerFact
  <2>5. g[r] = h[r] /\ f[x] = e[x]
    BY <1>4, <2>4
  <2>6. g[s] = f[x] + g[r] /\ h[s] = e[x] + h[r]
    BY <1>2, <2>2, <2>3 DEF SumRow
  <2>7. QED BY <2>5, <2>6
<1> HIDE DEF Same
<1>5. \A n \in Nat : n \in Same
  BY <1>3, <1>4, InductiveSet
<1>6. \A s \in SUBSET T : Cardinality(s) \in Nat
  BY <1>1, SmallerFact
<1>7. QED BY <1>5, <1>6 DEF Same

\* Any table has the sums.
LEMMA SumFromTable ==
  ASSUME NEW S, IsFiniteSet(S), NEW f, \A x \in S : f[x] \in Int
  PROVE  /\ SumOf(f, S) \in Int
         /\ \A g, e : (\A x \in S : e[x] = f[x]) /\ SumTable(e, S, g) => g[S] = SumOf(f, S)
         /\ \E g : SumTable(f, S, g) /\ \A T \in SUBSET S : g[T] = SumOf(f, T)
<1>1. ASSUME NEW T \in SUBSET S
      PROVE  \E h \in [SUBSET T -> Int] : SumTable(f, T, h) /\ SumOf(f, T) = h[T]
  <2>1. IsFiniteSet(T)
    BY FS_Subset
  <2>2. \E h \in [SUBSET T -> Int] : SumTable(f, T, h)
    BY <2>1, SumTableExists
  <2>3. QED BY <2>2 DEF SumOf
<1>2. S \in SUBSET S
  OBVIOUS
<1>3. PICK g \in [SUBSET S -> Int] : SumTable(f, S, g) /\ SumOf(f, S) = g[S]
  BY <1>1, <1>2
<1>4. SumOf(f, S) \in Int
  BY <1>2, <1>3
<1>5. ASSUME NEW k, NEW e, \A x \in S : e[x] = f[x], SumTable(e, S, k) PROVE k[S] = SumOf(f, S)
  BY <1>2, <1>3, <1>5, SumTableUnique
<1>6. ASSUME NEW T \in SUBSET S PROVE g[T] = SumOf(f, T)
  <2>1. PICK h \in [SUBSET T -> Int] : SumTable(f, T, h) /\ SumOf(f, T) = h[T]
    BY <1>1
  <2>2. T \in SUBSET T
    OBVIOUS
  <2>3. g[T] = h[T]
    BY <1>3, <2>1, <2>2, SumTableUnique
  <2>4. QED BY <2>1, <2>3
<1>7. QED BY <1>3, <1>4, <1>5, <1>6

\* The elements may be added in any order.
LEMMA SumAdd ==
  ASSUME NEW S, IsFiniteSet(S), NEW f, \A x \in S : f[x] \in Int
  PROVE  /\ \A s \in SUBSET S : SumOf(f, s) \in Int
         /\ SumOf(f, {}) = 0
         /\ \A s \in SUBSET S : \A x \in s : SumOf(f, s) = f[x] + SumOf(f, s \ {x})
<1>1. \A s \in SUBSET S : SumOf(f, s) \in Int
  BY FS_Subset, SumFromTable
<1>2. \A s \in SUBSET S : SumOf(f, s) = IF s = {} THEN 0 ELSE f[AnyOf(s)] + SumOf(f, s \ {AnyOf(s)})
  <2>1. PICK g : SumTable(f, S, g) /\ \A T \in SUBSET S : g[T] = SumOf(f, T)
    BY SumFromTable
  <2>2. ASSUME NEW s \in SUBSET S
        PROVE  SumOf(f, s) = IF s = {} THEN 0 ELSE f[AnyOf(s)] + SumOf(f, s \ {AnyOf(s)})
    <3>1. g[s] = SumRow(f, g, s) /\ g[s] = SumOf(f, s)
      BY <2>1 DEF SumTable
    <3>2. s \ {AnyOf(s)} \in SUBSET S
      OBVIOUS
    <3>3. g[s \ {AnyOf(s)}] = SumOf(f, s \ {AnyOf(s)})
      BY <2>1, <3>2
    <3>4. QED BY <3>1, <3>3 DEF SumRow
  <2>3. QED BY <2>2
<1>3. SumOf(f, {}) = 0
  BY <1>2
<1> DEFINE AnyOrder == {n \in Nat : \A s \in SUBSET S : Cardinality(s) = n =>
                     \A x \in s : SumOf(f, s) = f[x] + SumOf(f, s \ {x})}
<1>4. 0 \in AnyOrder
  <2>1. \A s \in SUBSET S : Cardinality(s) = 0 => s = {}
    BY SmallerFact
  <2>2. QED BY <2>1
<1>5. ASSUME NEW n \in Nat, n \in AnyOrder PROVE n + 1 \in AnyOrder
  <2>1. SUFFICES ASSUME NEW s \in SUBSET S, Cardinality(s) = n + 1, NEW x \in s
                 PROVE  SumOf(f, s) = f[x] + SumOf(f, s \ {x})
    OBVIOUS
  <2>2. PICK a \in s : a = AnyOf(s)
    BY AnyFact
  <2>3. SumOf(f, s) = f[a] + SumOf(f, s \ {a})
    BY <1>2, <2>2
  <2>4. CASE x = a
    BY <2>3, <2>4
  <2>5. CASE x # a
    <3>1. PICK s1, s2, r : s1 = s \ {a} /\ s2 = s \ {x} /\ r = s \ {a, x}
      OBVIOUS
    <3>2. s1 \in SUBSET S /\ s2 \in SUBSET S /\ r \in SUBSET S /\ Cardinality(s1) = n /\ Cardinality(s2) = n
      BY <2>1, <3>1, SmallerFact
    <3>3. x \in s1 /\ a \in s2 /\ s1 \ {x} = r /\ s2 \ {a} = r
      BY <2>5, <3>1
    <3>4. SumOf(f, s1) = f[x] + SumOf(f, r) /\ SumOf(f, s2) = f[a] + SumOf(f, r)
      BY <1>5, <3>2, <3>3
    <3>5. SumOf(f, r) \in Int /\ f[a] \in Int /\ f[x] \in Int
      BY <1>1, <3>2
    <3>6. QED BY <2>3, <3>1, <3>4, <3>5
  <2>6. QED BY <2>4, <2>5
<1> HIDE DEF AnyOrder
<1>6. \A n \in Nat : n \in AnyOrder
  BY <1>4, <1>5, InductiveSet
<1>7. \A s \in SUBSET S : Cardinality(s) \in Nat
  BY SmallerFact
<1>8. \A s \in SUBSET S : \A x \in s : SumOf(f, s) = f[x] + SumOf(f, s \ {x})
  BY <1>6, <1>7 DEF AnyOrder
<1>9. QED BY <1>1, <1>3, <1>8

\* The sum over two sets that share nothing is the two sums.
LEMMA SumSplit ==
  ASSUME NEW S, IsFiniteSet(S), NEW f, \A x \in S : f[x] \in Int,
         NEW A \in SUBSET S, NEW B \in SUBSET S, A \union B = S, A \intersect B = {}
  PROVE  SumOf(f, S) = SumOf(f, A) + SumOf(f, B)
<1>1. /\ \A s \in SUBSET S : SumOf(f, s) \in Int
      /\ SumOf(f, {}) = 0
      /\ \A s \in SUBSET S : \A x \in s : SumOf(f, s) = f[x] + SumOf(f, s \ {x})
  BY SumAdd
<1>2. IsFiniteSet(A)
  BY FS_Subset
<1> DEFINE Split == {n \in Nat : \A s \in SUBSET A : Cardinality(s) = n =>
                       SumOf(f, s \union B) = SumOf(f, s) + SumOf(f, B)}
<1>3. 0 \in Split
  <2>1. \A s \in SUBSET A : Cardinality(s) = 0 => s = {}
    BY <1>2, SmallerFact
  <2>2. {} \union B = B /\ SumOf(f, B) \in Int
    BY <1>1
  <2>3. SumOf(f, {} \union B) = SumOf(f, {}) + SumOf(f, B)
    BY <1>1, <2>2
  <2>4. QED BY <2>1, <2>3
<1>4. ASSUME NEW n \in Nat, n \in Split PROVE n + 1 \in Split
  <2>1. SUFFICES ASSUME NEW s \in SUBSET A, Cardinality(s) = n + 1
                 PROVE  SumOf(f, s \union B) = SumOf(f, s) + SumOf(f, B)
    OBVIOUS
  <2>2. PICK x : x \in s
    BY <1>2, <2>1, SmallerFact
  <2>3. PICK r : r = s \ {x}
    OBVIOUS
  <2>4. r \in SUBSET A /\ Cardinality(r) = n
    BY <1>2, <2>1, <2>2, <2>3, SmallerFact
  <2>5. SumOf(f, r \union B) = SumOf(f, r) + SumOf(f, B)
    BY <1>4, <2>4
  <2>6. (s \union B) \ {x} = r \union B /\ x \in s \union B /\ s \union B \in SUBSET S /\ s \in SUBSET S
    BY <2>2, <2>3
  <2>7. SumOf(f, s) = f[x] + SumOf(f, r)
    BY <1>1, <2>2, <2>3, <2>6
  <2>8. SumOf(f, s \union B) = f[x] + SumOf(f, r \union B)
    BY <1>1, <2>6
  <2>9. SumOf(f, r) \in Int /\ SumOf(f, B) \in Int /\ f[x] \in Int
    BY <1>1, <2>2, <2>4
  <2>10. QED BY <2>5, <2>7, <2>8, <2>9
<1> HIDE DEF Split
<1>5. \A n \in Nat : n \in Split
  BY <1>3, <1>4, InductiveSet
<1>6. Cardinality(A) \in Nat /\ A \in SUBSET A
  BY <1>2, FS_CardinalityType
<1>7. QED BY <1>5, <1>6 DEF Split

OneToOne(b, S, T) ==
  /\ \A x \in S : b[x] \in T
  /\ \A x, y \in S : b[x] = b[y] => x = y
  /\ \A y \in T : \E x \in S : b[x] = y

\* The sum over the elements is the sum over what they stand for, one to one.
LEMMA SumRenamed ==
  ASSUME NEW S, IsFiniteSet(S), NEW f, \A x \in S : f[x] \in Int,
         NEW T, IsFiniteSet(T), NEW g, \A y \in T : g[y] \in Int,
         NEW b, OneToOne(b, S, T), \A x \in S : f[x] = g[b[x]]
  PROVE  SumOf(f, S) = SumOf(g, T)
<1>0. /\ \A x \in S : b[x] \in T /\ f[x] = g[b[x]]
      /\ \A x, y \in S : b[x] = b[y] => x = y
      /\ \A y \in T : \E x \in S : b[x] = y
  BY DEF OneToOne
<1>1. /\ \A s \in SUBSET S : SumOf(f, s) \in Int
      /\ SumOf(f, {}) = 0
      /\ \A s \in SUBSET S : \A x \in s : SumOf(f, s) = f[x] + SumOf(f, s \ {x})
  BY SumAdd
<1>2. /\ \A t \in SUBSET T : SumOf(g, t) \in Int
      /\ SumOf(g, {}) = 0
      /\ \A t \in SUBSET T : \A y \in t : SumOf(g, t) = g[y] + SumOf(g, t \ {y})
  BY SumAdd
<1> DEFINE Image(s) == {b[x] : x \in s}
           Same == {n \in Nat : \A s \in SUBSET S : Cardinality(s) = n => SumOf(f, s) = SumOf(g, Image(s))}
<1>3. 0 \in Same
  <2>1. \A s \in SUBSET S : Cardinality(s) = 0 => s = {}
    BY SmallerFact
  <2>2. Image({}) = {}
    OBVIOUS
  <2> HIDE DEF Image
  <2>3. QED BY <1>1, <1>2, <2>1, <2>2
<1>4. ASSUME NEW n \in Nat, n \in Same PROVE n + 1 \in Same
  <2>1. SUFFICES ASSUME NEW s \in SUBSET S, Cardinality(s) = n + 1 PROVE SumOf(f, s) = SumOf(g, Image(s))
    OBVIOUS
  <2>2. s # {} /\ \A x \in s : Cardinality(s \ {x}) = n
    <3> HIDE DEF Image
    <3>1. PICK c : c = Cardinality(s) /\ c = n + 1
      BY <2>1
    <3>2. (c = 0 <=> s = {}) /\ \A x \in s : Cardinality(s \ {x}) = c - 1
      BY <3>1, SmallerFact
    <3>3. QED BY <3>1, <3>2
  <2>3. PICK x \in s, r \in SUBSET S : r = s \ {x}
    BY <2>2
  <2>4. Image(s) \in SUBSET T /\ b[x] \in Image(s) /\ Image(s) \ {b[x]} = Image(r)
    BY <1>0, <2>3
  <2> HIDE DEF Image
  <2>5. SumOf(f, r) = SumOf(g, Image(r))
    BY <1>4, <2>2, <2>3
  <2>6. SumOf(g, Image(s)) = g[b[x]] + SumOf(g, Image(r))
    BY <1>2, <2>4
  <2>7. SumOf(f, s) = f[x] + SumOf(f, r)
    BY <1>1, <2>3
  <2>8. QED BY <1>0, <2>3, <2>5, <2>6, <2>7
<1>5. Image(S) = T
  BY <1>0
<1> HIDE DEF Same, Image
<1>6. \A n \in Nat : n \in Same
  BY <1>3, <1>4, InductiveSet
<1>7. Cardinality(S) \in Nat /\ S \in SUBSET S
  BY FS_CardinalityType
<1>8. QED BY <1>5, <1>6, <1>7 DEF Same

-----------------------------------------------------------------------------
(***************************************************************************)
(* What the server and the console make of the stored readings.            *)
(***************************************************************************)
FirstRows(summaries) ==
  {j \in DOMAIN summaries : \A k \in 1..(j - 1) : summaries[k].pool # summaries[j].pool}
InClass(summaries, kind) == {j \in DOMAIN summaries : summaries[j].class = kind}
PoolsIn(summaries, kind) == {summaries[j].pool : j \in InClass(summaries, kind)}

LEMMA TotalIsSum ==
  ASSUME NEW summaries, IsFiniteSet(DOMAIN summaries), \A j \in DOMAIN summaries : summaries[j].used \in Int,
         NEW firsts, firsts = FirstRows(summaries), NEW f, \A j \in firsts : f[j] = summaries[j].used
  PROVE  TotalPoolTraffic(summaries) = SumOf(f, firsts)
<1> DEFINE Row(iter, s) == IF s = {} THEN 0
                           ELSE summaries[CHOOSE x \in s : TRUE].used + iter[s \ {CHOOSE x \in s : TRUE}]
           c == CHOOSE iter : iter = [s \in SUBSET firsts |-> Row(iter, s)]
<1>1. TotalPoolTraffic(summaries) = c[firsts]
  BY DEF TotalPoolTraffic, FirstRows, MapThenSumSet, MapThenFoldSet
<1>2. IsFiniteSet(firsts) /\ \A j \in firsts : f[j] \in Int /\ f[j] = summaries[j].used
  BY FS_Subset DEF FirstRows
<1>3. \A iter : \A s \in SUBSET firsts : Row(iter, s) = SumRow(f, iter, s)
  BY <1>2, AnyFact DEF SumRow, AnyOf
<1> HIDE DEF Row
<1>4. PICK g \in [SUBSET firsts -> Int] : SumTable(f, firsts, g)
  BY <1>2, SumTableExists
<1>5. g = [s \in SUBSET firsts |-> Row(g, s)]
  BY <1>3, <1>4 DEF SumTable
<1>6. c = [s \in SUBSET firsts |-> Row(c, s)]
  BY <1>5
<1> HIDE DEF c
<1>7. SumTable(f, firsts, c)
  BY <1>3, <1>6 DEF SumTable
<1>8. QED BY <1>1, <1>2, <1>7, SumFromTable
=============================================================================
