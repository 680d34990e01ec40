------------------------- MODULE ExtractionProofs --------------------------
(***************************************************************************)
(* The graph algorithms of the extractor, for every model that the ONNX    *)
(* checker passes: sublists keep the order, topological_sort succeeds      *)
(* exactly when no node depends on itself, the ids name every tensor       *)
(* once, and the dead-code loop ends with the least set of nodes that the  *)
(* outputs need.                                                           *)
(***************************************************************************)
EXTENDS KahnSort, Inductions, FunctionTheorems, FiniteSetTheorems

-----------------------------------------------------------------------------
(* Numbers of a set in increasing order, and the sublists they pick. *)

(* q lists the set K of n numbers in increasing order. *)
Lists(q, n, K) ==
  /\ K \in SUBSET Int /\ n \in Nat /\ q \in [1..n -> K]
  /\ \A j, k \in 1..n : j < k => q[j] < q[k]
  /\ \A i \in K : \E k \in 1..n : q[k] = i

(* The k-th element of an increasing enumeration has k elements up to it. *)
LEMMA RankInList ==
  ASSUME NEW K, NEW n, NEW q, Lists(q, n, K), NEW k \in 1..n
  PROVE  Cardinality({j \in K : j <= q[k]}) = k
<1> DEFINE S == {j \in K : j <= q[k]}
           f == [m \in 1..k |-> q[m]]
<1>0. K \in SUBSET Int /\ n \in Nat
  BY DEF Lists
<1>1. /\ q \in [1..n -> K] /\ \A j \in 1..n : q[j] \in Int
      /\ \A i, j \in 1..n : i < j => q[i] < q[j]
      /\ \A i \in K : \E j \in 1..n : q[j] = i
  BY DEF Lists
<1>2. \A i, j \in 1..n : q[i] <= q[j] => i <= j
  BY <1>1
<1>3. \A i, j \in 1..n : q[i] = q[j] => i = j
  BY <1>1
<1>4. \A m \in 1..k : m \in 1..n /\ q[m] \in S
  <2> SUFFICES ASSUME NEW m \in 1..k PROVE m \in 1..n /\ q[m] \in S
    OBVIOUS
  <2>1. m \in 1..n /\ (m = k \/ m < k)
    BY <1>0
  <2>2. q[m] \in K /\ q[k] \in Int /\ q[m] \in Int
    BY <1>1, <2>1
  <2>3. q[m] <= q[k]
    BY <1>1, <2>1, <2>2
  <2> QED
    BY <2>1, <2>2, <2>3
<1>5. \A s \in S : \E m \in 1..k : q[m] = s
  BY <1>1, <1>2
<1>6. f \in [1..k -> S] /\ \A m \in 1..k : f[m] = q[m]
  BY <1>4
<1> HIDE DEF f
<1>7. \A i, j \in 1..k : f[i] = f[j] => i = j
  BY <1>3, <1>4, <1>6
<1>8. \A s \in S : \E m \in 1..k : f[m] = s
  BY <1>5, <1>6
<1> HIDE DEF S
<1>9. f \in Bijection(1..k, S)
  BY <1>6, <1>7, <1>8, Fun_IsBij
<1>10. k \in Nat /\ ExistsBijection(1..k, S)
  BY <1>9 DEF ExistsBijection
<1> QED
  BY <1>10, FS_CountingElements DEF S

(* Two elements of a finite set of numbers have different ranks, and every number
   up to its cardinality is a rank. *)
LEMMA RanksOfSet ==
  ASSUME NEW K \in SUBSET Int, IsFiniteSet(K)
  PROVE  /\ \A i, j \in K : i < j =>
              Cardinality({m \in K : m <= i}) < Cardinality({m \in K : m <= j})
         /\ \A k \in 1..Cardinality(K) : \E i \in K : Cardinality({m \in K : m <= i}) = k
<1> DEFINE n == Cardinality(K)
           Upto(i) == {m \in K : m <= i}
           r(i) == Cardinality(Upto(i))
<1>1. n \in Nat
  BY FS_CardinalityType
<1>2. \A i : Upto(i) \in SUBSET K /\ IsFiniteSet(Upto(i)) /\ r(i) \in Nat
  <2> SUFFICES ASSUME NEW i PROVE Upto(i) \in SUBSET K /\ IsFiniteSet(Upto(i)) /\ r(i) \in Nat
    OBVIOUS
  <2>1. Upto(i) \in SUBSET K
    OBVIOUS
  <2> HIDE DEF Upto
  <2>2. IsFiniteSet(Upto(i))
    BY <2>1, FS_Subset
  <2> QED
    BY <2>1, <2>2, FS_CardinalityType
<1>3. ASSUME NEW i \in K PROVE r(i) \in 1..n
  <2>1. i \in Upto(i)
    OBVIOUS
  <2> HIDE DEF Upto
  <2>2. r(i) <= n
    BY <1>2, FS_Subset
  <2>3. r(i) # 0
    BY <1>2, <2>1, FS_EmptySet
  <2> QED
    BY <1>1, <1>2, <2>2, <2>3
<1>4. ASSUME NEW i \in K, NEW j \in K, i < j PROVE r(i) < r(j)
  <2>a. i \in Int /\ j \in Int /\ \A m \in K : m \in Int
    OBVIOUS
  <2>b. j <= j /\ ~(j <= i) /\ \A m \in K : m <= i => m <= j
    BY <1>4, <2>a
  <2>1. Upto(i) \in SUBSET Upto(j) /\ j \in Upto(j) /\ j \notin Upto(i)
    BY <2>b
  <2> HIDE DEF Upto
  <2>2. r(i) <= r(j) /\ (r(j) = r(i) => Upto(j) = Upto(i))
    BY <1>2, <2>1, FS_Subset
  <2>3. r(i) # r(j)
    BY <2>1, <2>2
  <2> QED
    BY <1>2, <2>2, <2>3
<1> DEFINE f == [i \in K |-> r(i)]
<1>5. f \in [K -> 1..n] /\ \A i \in K : f[i] = r(i)
  BY <1>3
<1> HIDE DEF r, f, n
<1>6. \A i, j \in K : f[i] = f[j] => i = j
  <2> SUFFICES ASSUME NEW i \in K, NEW j \in K, f[i] = f[j] PROVE i = j
    OBVIOUS
  <2>1. i \in Int /\ j \in Int /\ r(i) = r(j) /\ r(i) \in Int
    BY <1>3, <1>5
  <2>2. ~(i < j) /\ ~(j < i)
    BY <1>4, <2>1
  <2> QED
    BY <2>1, <2>2
<1>7. f \in Injection(K, 1..n)
  BY <1>5, <1>6 DEF Injection, IsInjective
<1>8. IsFiniteSet(1..n) /\ Cardinality(1..n) = n
  BY <1>1, FS_Interval
<1>9. f \in Surjection(K, 1..n)
  BY <1>7, <1>8, FS_Injection DEF n
<1>10. \A k \in 1..n : \E i \in K : r(i) = k
  BY <1>5, <1>9 DEF Surjection
<1> QED
  BY <1>4, <1>10 DEF n, r

(* Ascending lists a finite set of numbers in increasing order. *)
LEMMA AscendingLists ==
  ASSUME NEW K \in SUBSET Int, IsFiniteSet(K)
  PROVE  Cardinality(K) \in Nat /\ Lists(Ascending(K), Cardinality(K), K)
<1> DEFINE n == Cardinality(K)
           r(i) == Cardinality({j \in K : j <= i})
           q == Ascending(K)
<1>1. n \in Nat
  BY FS_CardinalityType
<1>2. q = [k \in 1..n |-> CHOOSE i \in K : r(i) = k]
  BY DEF Ascending
<1>3. /\ \A i, j \in K : i < j => r(i) < r(j)
      /\ \A k \in 1..n : \E i \in K : r(i) = k
  BY RanksOfSet
<1>4. \A i \in K : r(i) \in Nat /\ r(i) \in 1..n
  <2> SUFFICES ASSUME NEW i \in K PROVE r(i) \in Nat /\ r(i) \in 1..n
    OBVIOUS
  <2> DEFINE S == {j \in K : j <= i}
  <2>1. S \in SUBSET K /\ i \in S
    OBVIOUS
  <2> HIDE DEF S
  <2>2. IsFiniteSet(S) /\ Cardinality(S) <= n
    BY <2>1, FS_Subset
  <2>3. Cardinality(S) \in Nat /\ Cardinality(S) # 0
    BY <2>1, <2>2, FS_CardinalityType, FS_EmptySet
  <2>4. Cardinality(S) \in Nat /\ Cardinality(S) \in 1..n
    BY <1>1, <2>2, <2>3
  <2> QED
    BY <2>4 DEF S
<1> HIDE DEF r, n
<1>5. \A k \in 1..n : q[k] \in K /\ r(q[k]) = k
  <2> SUFFICES ASSUME NEW k \in 1..n PROVE q[k] \in K /\ r(q[k]) = k
    OBVIOUS
  <2>1. q[k] = CHOOSE i \in K : r(i) = k
    BY <1>2
  <2>2. \E i \in K : r(i) = k
    BY <1>3
  <2> QED
    BY <2>1, <2>2
<1>6. q \in [1..n -> K]
  BY <1>2, <1>5
<1> HIDE DEF q
<1>7. ASSUME NEW j \in 1..n, NEW k \in 1..n, j < k PROVE q[j] < q[k]
  <2>1. q[j] \in Int /\ q[k] \in Int /\ r(q[j]) = j /\ r(q[k]) = k
    BY <1>5
  <2>2. ~(q[k] < q[j]) /\ q[k] # q[j]
    BY <1>3, <1>5, <1>7, <2>1
  <2> QED
    BY <2>1, <2>2
<1>8. ASSUME NEW i \in K PROVE \E k \in 1..n : q[k] = i
  <2>1. r(i) \in 1..n
    BY <1>4
  <2>2. q[r(i)] \in K /\ r(q[r(i)]) = r(i)
    BY <1>5, <2>1
  <2>3. q[r(i)] = i
    <3>1. q[r(i)] \in Int /\ i \in Int
      BY <2>2
    <3>2. r(i) \in Nat /\ q[r(i)] \in K
      BY <1>4, <2>2
    <3>3. ~(q[r(i)] < i) /\ ~(i < q[r(i)])
      <4> DEFINE m == q[r(i)]
      <4>1. m \in K /\ r(m) = r(i) /\ r(i) \in Nat
        BY <2>2, <3>2
      <4> HIDE DEF m
      <4>2. ~(m < i) /\ ~(i < m)
        BY <1>3, <4>1
      <4> QED
        BY <4>2 DEF m
    <3> QED
      BY <3>1, <3>3
  <2> QED
    BY <2>1, <2>3
<1> QED
  BY <1>1, <1>6, <1>7, <1>8 DEF Lists, n, q

(* There is no other list of it. *)
LEMMA AscendingOnly ==
  ASSUME NEW K, NEW n, NEW q, Lists(q, n, K)
  PROVE  IsFiniteSet(K) /\ Cardinality(K) = n /\ Ascending(K) = q
<1> DEFINE r(i) == Cardinality({j \in K : j <= i})
<1>0. K \in SUBSET Int /\ n \in Nat
  BY DEF Lists
<1>1. /\ q \in [1..n -> K] /\ \A j \in 1..n : q[j] \in Int
      /\ \A i, j \in 1..n : i < j => q[i] < q[j]
      /\ \A i \in K : \E j \in 1..n : q[j] = i
  BY DEF Lists
<1>2. \A i, j \in 1..n : q[i] = q[j] => i = j
  BY <1>1
<1>3. q \in Bijection(1..n, K)
  BY <1>1, <1>2, Fun_IsBij
<1>4. ExistsBijection(1..n, K) /\ IsFiniteSet(1..n)
  BY <1>0, <1>3, FS_Interval DEF ExistsBijection
<1>5. IsFiniteSet(K) /\ Cardinality(K) = n
  BY <1>0, <1>4, FS_Bijection, FS_CountingElements
<1>6. Ascending(K) = [k \in 1..n |-> CHOOSE i \in K : r(i) = k]
  BY <1>0, <1>5 DEF Ascending
<1>7. ASSUME NEW k \in 1..n PROVE r(q[k]) = k
  BY RankInList
<1> HIDE DEF r
<1>8. ASSUME NEW k \in 1..n PROVE (CHOOSE i \in K : r(i) = k) = q[k]
  <2>1. q[k] \in K /\ r(q[k]) = k
    BY <1>1, <1>7
  <2>2. ASSUME NEW i \in K, r(i) = k PROVE i = q[k]
    <3>1. PICK j \in 1..n : q[j] = i
      BY <1>1
    <3>2. r(i) = j
      BY <1>7, <3>1
    <3> QED
      BY <2>2, <3>1, <3>2
  <2> QED
    BY <2>1, <2>2
<1>9. Ascending(K) = [k \in 1..n |-> q[k]]
  BY <1>6, <1>8
<1> QED
  BY <1>1, <1>5, <1>9

(* What a selection of elements of a sequence is. *)
LEMMA SublistOf ==
  ASSUME NEW V, NEW s \in Seq(V), NEW K \in SUBSET DOMAIN s
  PROVE  /\ K \in SUBSET Nat /\ IsFiniteSet(K) /\ Cardinality(K) \in Nat
         /\ Lists(Ascending(K), Cardinality(K), K)
         /\ Sublist(s, K) \in Seq(V) /\ Len(Sublist(s, K)) = Cardinality(K)
         /\ DOMAIN Sublist(s, K) = 1..Cardinality(K)
         /\ \A k \in 1..Cardinality(K) : Sublist(s, K)[k] = s[Ascending(K)[k]]
         /\ ToSet(Sublist(s, K)) = {s[i] : i \in K}
<1> DEFINE n == Cardinality(K)
           q == Ascending(K)
           t == Sublist(s, K)
<1>1. DOMAIN s = 1..Len(s) /\ Len(s) \in Nat /\ \A i \in DOMAIN s : s[i] \in V
  OBVIOUS
<1>2. IsFiniteSet(DOMAIN s)
  BY <1>1, FS_Interval
<1>3. K \in SUBSET Nat /\ IsFiniteSet(K)
  BY <1>1, <1>2, FS_Subset
<1>4. n \in Nat /\ Lists(q, n, K)
  BY <1>3, AscendingLists
<1>5. t = [k \in DOMAIN q |-> s[q[k]]]
  <2>1. q \in [1..n -> Int]
    BY <1>3, <1>4 DEF Lists
  <2>2. q \in Seq(Int)
    BY <1>4, <2>1, AsSequence
  <2> QED
    BY <2>2 DEF Sublist
<1> HIDE DEF n, q, t
<1>6. /\ DOMAIN q = 1..n /\ \A k \in 1..n : q[k] \in K
      /\ \A i \in K : \E k \in 1..n : q[k] = i
  BY <1>4 DEF Lists
<1>7. t \in [1..n -> V] /\ \A k \in 1..n : t[k] = s[q[k]]
  BY <1>1, <1>5, <1>6
<1>8. t \in Seq(V) /\ Len(t) = n /\ DOMAIN t = 1..n
  BY <1>4, <1>7, AsSequence
<1>9. ToSet(t) = {s[i] : i \in K}
  BY <1>6, <1>7, <1>8 DEF ToSet
<1> QED
  BY <1>3, <1>4, <1>7, <1>8, <1>9 DEF n, q, t

(* The elements of a list at some of its positions. *)
Through(q, L) == {q[i] : i \in L}

Positions(L, n) == L \in SUBSET 1..n

(* A selection from a selection is a selection. *)
LEMMA AscendingTwice ==
  ASSUME NEW K, NEW n, NEW q, Lists(q, n, K), NEW L, Positions(L, n)
  PROVE  /\ Through(q, L) \in SUBSET K /\ IsFiniteSet(Through(q, L))
         /\ Cardinality(Through(q, L)) = Cardinality(L)
         /\ \A k \in 1..Cardinality(L) : Ascending(Through(q, L))[k] = q[Ascending(L)[k]]
<1> DEFINE M == {q[i] : i \in L}
           c == Cardinality(L)
           a == Ascending(L)
           b == [k \in 1..c |-> q[a[k]]]
<1> L \in SUBSET 1..n
  BY DEF Positions
<1>0. K \in SUBSET Int /\ n \in Nat /\ IsFiniteSet(1..n)
  BY FS_Interval DEF Lists
<1>0a. IsFiniteSet(L)
  BY <1>0, FS_Subset
<1>1. IsFiniteSet(L) /\ L \in SUBSET Int
  BY <1>0a
<1>2. c \in Nat /\ Lists(a, c, L)
  BY <1>1, AscendingLists
<1>3. /\ q \in [1..n -> K]
      /\ \A j, k \in 1..n : j < k => q[j] < q[k]
  BY DEF Lists
<1> HIDE DEF c, a
<1>4. /\ a \in [1..c -> L]
      /\ \A j, k \in 1..c : j < k => a[j] < a[k]
      /\ \A i \in L : \E k \in 1..c : a[k] = i
  BY <1>2 DEF Lists
<1>5. \A k \in 1..c : b[k] = q[a[k]] /\ a[k] \in L /\ a[k] \in 1..n
  BY <1>4
<1>6. b \in [1..c -> M]
  BY <1>5
<1>7. \A i \in M : \E k \in 1..c : b[k] = i
  BY <1>4, <1>5
<1> HIDE DEF b
<1>8. \A j, k \in 1..c : j < k => b[j] < b[k]
  BY <1>3, <1>4, <1>5
<1>9. M \in SUBSET K /\ M \in SUBSET Int
  BY <1>0, <1>3
<1> HIDE DEF M
<1>10. Lists(b, c, M)
  BY <1>2, <1>6, <1>7, <1>8, <1>9 DEF Lists
<1>11. IsFiniteSet(M) /\ Cardinality(M) = c /\ Ascending(M) = b
  BY <1>2, <1>9, <1>10, AscendingOnly
<1> QED
  BY <1>5, <1>9, <1>11 DEF M, c, a, Through

(* Selecting from a selection by positions. *)
LEMMA SublistTwice ==
  ASSUME NEW V, NEW s \in Seq(V), NEW K \in SUBSET DOMAIN s,
         NEW L \in SUBSET 1..Cardinality(K)
  PROVE  /\ Through(Ascending(K), L) \in SUBSET K
         /\ Sublist(Sublist(s, K), L) = Sublist(s, Through(Ascending(K), L))
<1> DEFINE q == Ascending(K)
           n == Cardinality(K)
           M == Through(q, L)
           t == Sublist(s, K)
           u == Sublist(t, L)
           v == Sublist(s, M)
<1>1. /\ K \in SUBSET Int /\ n \in Nat /\ Lists(q, n, K)
      /\ t \in Seq(V) /\ DOMAIN t = 1..n
      /\ \A k \in 1..n : t[k] = s[q[k]]
  BY SublistOf
<1>2. /\ M \in SUBSET K /\ Cardinality(M) = Cardinality(L)
      /\ \A k \in 1..Cardinality(L) : Ascending(M)[k] = q[Ascending(L)[k]]
  <2>1. Positions(L, n)
    BY DEF Positions
  <2>2. Lists(q, n, K)
    BY <1>1
  <2> HIDE DEF q, n, M
  <2>3. M \in SUBSET K /\ Cardinality(M) = Cardinality(L)
    BY <2>1, <2>2, AscendingTwice DEF M
  <2>4. ASSUME NEW k \in 1..Cardinality(L)
        PROVE  Ascending(M)[k] = q[Ascending(L)[k]]
    BY <2>1, <2>2, AscendingTwice DEF M
  <2> QED
    BY <2>3, <2>4
<1>3. /\ u \in Seq(V) /\ Len(u) = Cardinality(L) /\ DOMAIN u = 1..Cardinality(L)
      /\ \A k \in 1..Cardinality(L) : u[k] = t[Ascending(L)[k]]
      /\ Lists(Ascending(L), Cardinality(L), L)
  <2>1. L \in SUBSET DOMAIN t
    BY <1>1
  <2> HIDE DEF t
  <2> QED
    BY <1>1, <2>1, SublistOf
<1>4. /\ v \in Seq(V) /\ Len(v) = Cardinality(M) /\ DOMAIN v = 1..Cardinality(M)
      /\ \A k \in 1..Cardinality(M) : v[k] = s[Ascending(M)[k]]
  <2> HIDE DEF M, v
  <2>1. M \in SUBSET DOMAIN s
    BY <1>2
  <2> QED
    BY <2>1, SublistOf DEF v
<1>5. M \in SUBSET K
  BY <1>2
<1> HIDE DEF q, n, M, t, u, v
<1>6. \A k \in 1..Cardinality(L) : u[k] = v[k]
  <2> SUFFICES ASSUME NEW k \in 1..Cardinality(L) PROVE u[k] = v[k]
    OBVIOUS
  <2>1. Ascending(L)[k] \in L /\ Ascending(L)[k] \in 1..n
    BY <1>3 DEF Lists, n
  <2> QED
    BY <1>1, <1>2, <1>3, <1>4, <2>1
<1>7. u = v
  BY <1>2, <1>3, <1>4, <1>6
<1> QED
  BY <1>5, <1>7 DEF q, n, M, t, u, v

(* All of a sequence. *)
LEMMA SublistAll ==
  ASSUME NEW V, NEW s \in Seq(V)
  PROVE  Sublist(s, DOMAIN s) = s /\ Cardinality(DOMAIN s) = Len(s)
<1> DEFINE n == Len(s)
           q == [k \in 1..n |-> k]
<1>1. n \in Nat /\ DOMAIN s = 1..n
  OBVIOUS
<1> HIDE DEF n
<1>2. Lists(q, n, DOMAIN s)
  BY <1>1 DEF Lists
<1>3. DOMAIN s \in SUBSET Int
  BY <1>1
<1> HIDE DEF q
<1>4. Ascending(DOMAIN s) = q /\ Cardinality(DOMAIN s) = n
  BY <1>1, <1>2, <1>3, AscendingOnly
<1>5. /\ Sublist(s, DOMAIN s) \in Seq(V) /\ DOMAIN Sublist(s, DOMAIN s) = 1..n
      /\ \A k \in 1..n : Sublist(s, DOMAIN s)[k] = s[q[k]]
  BY <1>4, SublistOf
<1>6. Sublist(s, DOMAIN s) = s
  BY <1>1, <1>5 DEF q
<1> QED
  BY <1>4, <1>6 DEF n

-----------------------------------------------------------------------------
(* topological_sort: the dependencies, and where the sort starts. *)

(* A sequence without repetitions. *)
NoRepeat(s) == \A j, k \in DOMAIN s : j # k => s[j] # s[k]

(* A producer that single assignment makes the only one. *)
LEMMA OneProducer ==
  ASSUME NEW g, OnnxModel(g), NEW n, NEW j \in ProducersOf(g, n)
  PROVE  ProducersOf(g, n) = {j} /\ Max(ProducersOf(g, n)) = j /\ j \in Nat
<1>1. /\ g.nodes \in Seq(Node) /\ SingleAssignment(g)
  BY DEF OnnxModel
<1>2. /\ ProducersOf(g, n) \in SUBSET DOMAIN g.nodes
      /\ \A i \in ProducersOf(g, n) : /\ n # ABSENT
                                      /\ \E k \in DOMAIN g.nodes[i].out : g.nodes[i].out[k] = n
  BY DEF ProducersOf, Present, ToSet
<1>3. PICK k \in DOMAIN g.nodes[j].out : g.nodes[j].out[k] = n
  BY <1>2
<1>4. ASSUME NEW i \in ProducersOf(g, n) PROVE i = j
  <2>1. PICK l \in DOMAIN g.nodes[i].out : g.nodes[i].out[l] = n
    BY <1>2
  <2> QED
    BY <1>1, <1>2, <1>3, <2>1 DEF SingleAssignment
<1>5. ProducersOf(g, n) = {j} /\ j \in Nat
  BY <1>1, <1>2, <1>4
<1>6. Max({j}) = j
  BY <1>5 DEF Max
<1> QED
  BY <1>5, <1>6

(* What node i waits for. *)
LEMMA DependenciesAre ==
  ASSUME NEW g, OnnxModel(g), NEW i \in DOMAIN g.nodes
  PROVE  Dependencies(g, i) =
           {j \in DOMAIN g.nodes :
              \E n \in Present(g.nodes[i].in) \ Given(g) : j \in ProducersOf(g, n)}
<1> DEFINE Of(n) == IF ProducersOf(g, n) = {} THEN {} ELSE {Max(ProducersOf(g, n))}
           N == Present(g.nodes[i].in) \ Given(g)
<1>1. Dependencies(g, i) = UNION {Of(n) : n \in N}
  BY DEF Dependencies
<1>2. ASSUME NEW n PROVE Of(n) = ProducersOf(g, n) /\ ProducersOf(g, n) \in SUBSET DOMAIN g.nodes
  <2>1. ProducersOf(g, n) \in SUBSET DOMAIN g.nodes
    BY DEF ProducersOf
  <2>2. CASE ProducersOf(g, n) = {}
    BY <2>1, <2>2
  <2>3. ASSUME NEW j \in ProducersOf(g, n) PROVE Of(n) = ProducersOf(g, n)
    BY <2>3, OneProducer
  <2> QED
    BY <2>1, <2>2, <2>3
<1> HIDE DEF Of, N
<1>3. Dependencies(g, i) = {j \in DOMAIN g.nodes : \E n \in N : j \in ProducersOf(g, n)}
  BY <1>1, <1>2
<1> QED
  BY <1>3 DEF N

(* The nodes are finitely many, and so are those that one waits for. *)
LEMMA FiniteGraph ==
  ASSUME NEW g, OnnxModel(g)
  PROVE  /\ DOMAIN g.nodes = 1..Len(g.nodes) /\ Len(g.nodes) \in Nat
         /\ IsFiniteSet(DOMAIN g.nodes) /\ Cardinality(DOMAIN g.nodes) = Len(g.nodes)
         /\ \A i \in DOMAIN g.nodes : /\ Dependencies(g, i) \in SUBSET DOMAIN g.nodes
                                      /\ IsFiniteSet(Dependencies(g, i))
<1>1. g.nodes \in Seq(Node)
  BY DEF OnnxModel
<1>2. DOMAIN g.nodes = 1..Len(g.nodes) /\ Len(g.nodes) \in Nat
  BY <1>1
<1>3. IsFiniteSet(DOMAIN g.nodes) /\ Cardinality(DOMAIN g.nodes) = Len(g.nodes)
  BY <1>2, FS_Interval
<1>4. ASSUME NEW i \in DOMAIN g.nodes
      PROVE  Dependencies(g, i) \in SUBSET DOMAIN g.nodes /\ IsFiniteSet(Dependencies(g, i))
  <2>1. Dependencies(g, i) \in SUBSET DOMAIN g.nodes
    BY DependenciesAre
  <2> QED
    BY <1>3, <2>1, FS_Subset
<1> QED
  BY <1>2, <1>3, <1>4
-----------------------------------------------------------------------------
(* What holds of the state s of the loop: order and queue repeat nothing, what
   is in the queue is what waits for nothing any more, and the in-degree of a
   node counts what it still waits for. *)
LoopInv(g, s) ==
  LET done == ToSet(s.order)
  IN  /\ s.order \in Seq(DOMAIN g.nodes) /\ s.queue \in Seq(DOMAIN g.nodes)
      /\ NoRepeat(s.order) /\ NoRepeat(s.queue)
      /\ s.indegree \in [DOMAIN g.nodes -> Nat]
      /\ \A j \in DOMAIN g.nodes : s.indegree[j] = Cardinality(Dependencies(g, j) \ done)
      /\ ToSet(s.queue) = {j \in DOMAIN g.nodes \ done : Dependencies(g, j) \subseteq done}
      /\ \A k \in DOMAIN s.order :
           Dependencies(g, s.order[k]) \subseteq {s.order[j] : j \in 1..k - 1}

(* Ascending lists a set of nodes once each. *)
LEMMA AscendingNodes ==
  ASSUME NEW g, OnnxModel(g), NEW K \in SUBSET DOMAIN g.nodes
  PROVE  /\ Ascending(K) \in Seq(DOMAIN g.nodes) /\ NoRepeat(Ascending(K))
         /\ ToSet(Ascending(K)) = K
<1>1. K \in SUBSET Int /\ IsFiniteSet(K)
  BY FiniteGraph, FS_Subset
<1> DEFINE q == Ascending(K)
           n == Cardinality(K)
<1>2. n \in Nat /\ Lists(q, n, K)
  BY <1>1, AscendingLists
<1> HIDE DEF q, n
<1>3. /\ q \in [1..n -> K] /\ \A j \in 1..n : q[j] \in Int
      /\ \A i, j \in 1..n : i < j => q[i] < q[j]
      /\ \A i \in K : \E j \in 1..n : q[j] = i
  BY <1>1, <1>2 DEF Lists
<1>4. q \in [1..n -> DOMAIN g.nodes] /\ DOMAIN q = 1..n
  BY <1>3
<1>5. q \in Seq(DOMAIN g.nodes)
  BY <1>2, <1>4, AsSequence
<1>6. NoRepeat(q)
  <2> SUFFICES ASSUME NEW j \in 1..n, NEW k \in 1..n, j # k PROVE q[j] # q[k]
    BY <1>4 DEF NoRepeat
  <2>1. j < k \/ k < j
    OBVIOUS
  <2>2. q[j] < q[k] \/ q[k] < q[j]
    BY <1>3, <2>1
  <2> QED
    BY <1>3, <2>2
<1>7. ToSet(q) = K
  BY <1>3, <1>4 DEF ToSet
<1> QED
  BY <1>5, <1>6, <1>7 DEF q

(* What waits for nothing, and how the in-degree shows it. *)
LEMMA IndegreeCounts ==
  ASSUME NEW g, OnnxModel(g), NEW i \in DOMAIN g.nodes, NEW E
  PROVE  /\ Cardinality(Dependencies(g, i) \ E) \in Nat
         /\ Cardinality(Dependencies(g, i) \ E) = 0 <=> Dependencies(g, i) \subseteq E
         /\ IsFiniteSet(Dependencies(g, i) \ E)
<1> DEFINE D == Dependencies(g, i)
<1>1. IsFiniteSet(D)
  BY FiniteGraph
<1> HIDE DEF D
<1>2. IsFiniteSet(D \ E)
  BY <1>1, FS_Subset
<1>3. Cardinality(D \ E) \in Nat /\ (Cardinality(D \ E) = 0 <=> D \ E = {})
  BY <1>2, FS_CardinalityType, FS_EmptySet
<1> QED
  BY <1>2, <1>3 DEF D

(* The loop starts with the nodes that wait for nothing. *)
LEMMA SortStarts ==
  ASSUME NEW g, OnnxModel(g)
  PROVE  LoopInv(g, SortStart(g)) /\ SortStart(g).order = <<>>
<1> DEFINE s == SortStart(g)
           K == {i \in DOMAIN g.nodes : Indegree(g, i) = 0}
<1>1. /\ s.indegree = [i \in DOMAIN g.nodes |-> Indegree(g, i)]
      /\ s.queue = Ascending(K) /\ s.order = <<>>
  BY DEF SortStart
<1>2. \A i \in DOMAIN g.nodes :
        /\ Indegree(g, i) = Cardinality(Dependencies(g, i) \ {})
        /\ Indegree(g, i) \in Nat
        /\ Indegree(g, i) = 0 <=> Dependencies(g, i) \subseteq {}
  <2> SUFFICES ASSUME NEW i \in DOMAIN g.nodes
               PROVE  /\ Indegree(g, i) = Cardinality(Dependencies(g, i) \ {})
                      /\ Indegree(g, i) \in Nat
                      /\ Indegree(g, i) = 0 <=> Dependencies(g, i) \subseteq {}
    OBVIOUS
  <2>1. Dependencies(g, i) \ {} = Dependencies(g, i)
    OBVIOUS
  <2>2. Indegree(g, i) = Cardinality(Dependencies(g, i) \ {})
    BY <2>1 DEF Indegree
  <2> QED
    BY <2>2, IndegreeCounts
<1>3. s.queue \in Seq(DOMAIN g.nodes) /\ NoRepeat(s.queue) /\ ToSet(s.queue) = K
  <2>1. K \in SUBSET DOMAIN g.nodes
    OBVIOUS
  <2> HIDE DEF K
  <2> QED
    BY <1>1, <2>1, AscendingNodes
<1>4. ToSet(s.order) = {} /\ s.order \in Seq(DOMAIN g.nodes) /\ DOMAIN s.order = {}
  BY <1>1 DEF ToSet
<1> HIDE DEF s
<1>5. s.indegree \in [DOMAIN g.nodes -> Nat]
  BY <1>1, <1>2
<1>6. \A j \in DOMAIN g.nodes : s.indegree[j] = Cardinality(Dependencies(g, j) \ {})
  BY <1>1, <1>2
<1>7. K = {j \in DOMAIN g.nodes \ {} : Dependencies(g, j) \subseteq {}}
  BY <1>2
<1> HIDE DEF K
<1>8. NoRepeat(s.order)
  BY <1>4 DEF NoRepeat
<1>9. LoopInv(g, s)
  BY <1>3, <1>4, <1>5, <1>6, <1>7, <1>8, Zenon DEF LoopInv
<1> QED
  BY <1>1, <1>9 DEF s

-----------------------------------------------------------------------------
(* One round of the sort. *)

(* What holds of a concatenation. *)
LEMMA BothOnce ==
  ASSUME NEW V, NEW s \in Seq(V), NEW t \in Seq(V)
  PROVE  /\ s \o t \in Seq(V) /\ ToSet(s \o t) = ToSet(s) \cup ToSet(t)
         /\ NoRepeat(s) /\ NoRepeat(t) /\ ToSet(s) \cap ToSet(t) = {} => NoRepeat(s \o t)
<1> DEFINE a == Len(s)
           b == Len(t)
           w == s \o t
<1>1. a \in Nat /\ b \in Nat /\ DOMAIN s = 1..a /\ DOMAIN t = 1..b
  BY LenProperties
<1>2. w \in Seq(V) /\ IsConcat(w, s, t)
  BY Concatenated
<1>3. /\ Len(w) = a + b /\ \A k \in 1..a : w[k] = s[k]
      /\ \A k \in 1..b : w[a + k] = t[k]
  BY <1>2 DEF IsConcat
<1>4. DOMAIN w = 1..a + b
  BY <1>2, <1>3, LenProperties
<1> HIDE DEF a, b, w
<1>5. ASSUME NEW k \in DOMAIN w
      PROVE  \/ k \in 1..a /\ w[k] = s[k]
             \/ k - a \in 1..b /\ w[k] = t[k - a]
  <2>1. k \in 1..a \/ (k - a \in 1..b /\ a + (k - a) = k)
    BY <1>1, <1>4
  <2>2. CASE k - a \in 1..b /\ a + (k - a) = k
    <3>1. w[a + (k - a)] = t[k - a]
      BY <1>3, <2>2
    <3> QED
      BY <2>2, <3>1
  <2>3. CASE k \in 1..a
    <3>1. w[k] = s[k]
      BY <1>3, <2>3
    <3> QED
      BY <2>3, <3>1
  <2> QED
    BY <2>1, <2>2, <2>3
<1>6. /\ \A k \in 1..a : k \in DOMAIN w
      /\ \A k \in 1..b : a + k \in DOMAIN w
  BY <1>1, <1>4
<1>7. ToSet(s) = {s[k] : k \in 1..a} /\ ToSet(t) = {t[k] : k \in 1..b}
      /\ ToSet(w) = {w[k] : k \in DOMAIN w}
  BY <1>1 DEF ToSet
<1>8. ToSet(w) = ToSet(s) \cup ToSet(t)
  BY <1>3, <1>5, <1>6, <1>7
<1>9. ASSUME NoRepeat(s), NoRepeat(t), ToSet(s) \cap ToSet(t) = {}
      PROVE  NoRepeat(w)
  <2> SUFFICES ASSUME NEW j \in DOMAIN w, NEW k \in DOMAIN w, j # k PROVE w[j] # w[k]
    BY DEF NoRepeat
  <2>1. CASE j \in 1..a /\ w[j] = s[j] /\ k \in 1..a /\ w[k] = s[k]
    BY <1>1, <1>9, <2>1 DEF NoRepeat
  <2>2. CASE j - a \in 1..b /\ w[j] = t[j - a] /\ k - a \in 1..b /\ w[k] = t[k - a]
    <3>1. j \in Int /\ k \in Int
      BY <1>1, <1>4
    <3>2. j - a \in DOMAIN t /\ k - a \in DOMAIN t /\ j - a # k - a
      BY <1>1, <2>2, <3>1
    <3> QED
      BY <1>9, <2>2, <3>2 DEF NoRepeat
  <2>3. CASE j \in 1..a /\ w[j] = s[j] /\ k - a \in 1..b /\ w[k] = t[k - a]
    BY <1>7, <1>9, <2>3
  <2>4. CASE j - a \in 1..b /\ w[j] = t[j - a] /\ k \in 1..a /\ w[k] = s[k]
    BY <1>7, <1>9, <2>4
  <2> QED
    BY <1>5, <2>1, <2>2, <2>3, <2>4
<1> QED
  BY <1>2, <1>8, <1>9 DEF w

(* A sequence without its first element. *)
LEMMA TailOnce ==
  ASSUME NEW V, NEW q \in Seq(V), q # <<>>, NoRepeat(q)
  PROVE  /\ Head(q) \in V /\ Head(q) \in ToSet(q)
         /\ Tail(q) \in Seq(V) /\ NoRepeat(Tail(q)) /\ ToSet(Tail(q)) = ToSet(q) \ {Head(q)}
<1> DEFINE a == Len(q)
           t == Tail(q)
<1>1. a \in Nat \ {0} /\ DOMAIN q = 1..a /\ Head(q) = q[1]
  BY LenProperties
<1>2. t \in Seq(V) /\ Len(t) = a - 1 /\ \A k \in 1..a - 1 : t[k] = q[k + 1]
  BY HeadTailProperties
<1>3. DOMAIN t = 1..a - 1
  BY <1>2, LenProperties
<1> HIDE DEF a, t
<1>4. ToSet(q) = {q[k] : k \in 1..a} /\ ToSet(t) = {t[k] : k \in 1..a - 1}
  BY <1>1, <1>3 DEF ToSet
<1>5. \A k \in 1..a - 1 : k + 1 \in DOMAIN q /\ k + 1 # 1 /\ k + 1 \in 1..a
  BY <1>1
<1>6. ASSUME NEW e \in ToSet(t) PROVE e \in ToSet(q) \ {Head(q)}
  <2>1. PICK k \in 1..a - 1 : e = q[k + 1]
    BY <1>2, <1>4
  <2>2. k + 1 \in DOMAIN q /\ k + 1 # 1 /\ k + 1 \in 1..a /\ 1 \in DOMAIN q
    BY <1>1, <1>5
  <2>3. q[k + 1] # q[1]
    BY <2>2 DEF NoRepeat
  <2> QED
    BY <1>1, <1>4, <2>1, <2>2, <2>3
<1>7. ASSUME NEW e \in ToSet(q), e # Head(q) PROVE e \in ToSet(t)
  <2>1. PICK k \in 1..a : e = q[k]
    BY <1>4
  <2>2. k - 1 \in 1..a - 1 /\ (k - 1) + 1 = k
    BY <1>1, <1>7, <2>1
  <2> QED
    BY <1>2, <1>4, <2>1, <2>2
<1>8. NoRepeat(t)
  <2> SUFFICES ASSUME NEW j \in 1..a - 1, NEW k \in 1..a - 1, j # k PROVE t[j] # t[k]
    BY <1>3 DEF NoRepeat
  <2>1. j + 1 \in DOMAIN q /\ k + 1 \in DOMAIN q /\ j + 1 # k + 1
    BY <1>1
  <2> QED
    BY <1>2, <2>1 DEF NoRepeat
<1>9. Head(q) \in V /\ Head(q) \in ToSet(q)
  BY <1>1, <1>4
<1> QED
  BY <1>2, <1>6, <1>7, <1>8, <1>9 DEF t

(* A sequence with one more element. *)
LEMMA OneMore ==
  ASSUME NEW V, NEW s \in Seq(V), NEW v \in V
  PROVE  /\ Append(s, v) \in Seq(V) /\ Len(Append(s, v)) = Len(s) + 1 /\ Len(s) \in Nat
         /\ DOMAIN s = 1..Len(s) /\ DOMAIN Append(s, v) = 1..Len(s) + 1
         /\ \A k \in 1..Len(s) : Append(s, v)[k] = s[k]
         /\ Append(s, v)[Len(s) + 1] = v
         /\ ToSet(Append(s, v)) = ToSet(s) \cup {v}
         /\ NoRepeat(s) /\ v \notin ToSet(s) => NoRepeat(Append(s, v))
<1> DEFINE n == Len(s)
           t == Append(s, v)
<1>1. /\ t \in Seq(V) /\ Len(t) = n + 1 /\ n \in Nat /\ DOMAIN s = 1..n
      /\ \A k \in 1..n : t[k] = s[k]
      /\ t[n + 1] = v
  BY AppendProperties, LenProperties
<1>2. DOMAIN t = 1..n + 1
  BY <1>1, LenProperties
<1> HIDE DEF n, t
<1>3. ToSet(t) = {t[k] : k \in 1..n + 1} /\ ToSet(s) = {s[k] : k \in 1..n}
  BY <1>1, <1>2 DEF ToSet
<1>4. \A k \in 1..n + 1 : k \in 1..n \/ k = n + 1
  BY <1>1
<1>5. \A k \in 1..n : k \in 1..n + 1
  BY <1>1
<1>6. n + 1 \in 1..n + 1
  BY <1>1
<1>7. ToSet(t) = ToSet(s) \cup {v}
  BY <1>1, <1>3, <1>4, <1>5, <1>6
<1>8. NoRepeat(s) /\ v \notin ToSet(s) => NoRepeat(t)
  BY <1>1, <1>2, <1>3, <1>4 DEF NoRepeat
<1> QED
  BY <1>1, <1>2, <1>7, <1>8 DEF n, t

(* A round of the loop, when the queue is not empty. *)
LEMMA RoundPops ==
  ASSUME NEW g, OnnxModel(g), NEW s, LoopInv(g, s), s.queue # <<>>
  PROVE  /\ LoopInv(g, PopLeft(g, s))
         /\ Len(PopLeft(g, s).order) = Len(s.order) + 1 /\ Len(s.order) \in Nat
<1> DEFINE V == DOMAIN g.nodes
           D(j) == Dependencies(g, j)
           E == ToSet(s.order)
           i == Head(s.queue)
           R == {j \in Adj(g, i) : s.indegree[j] = 1}
           t == PopLeft(g, s)
<1>1. /\ t.indegree = [j \in DOMAIN s.indegree |->
                        IF j \in Adj(g, i) THEN s.indegree[j] - 1 ELSE s.indegree[j]]
      /\ t.queue = Tail(s.queue) \o Ascending(R)
      /\ t.order = Append(s.order, i)
  BY DEF PopLeft
<1>2. /\ s.order \in Seq(V) /\ s.queue \in Seq(V)
      /\ NoRepeat(s.order) /\ NoRepeat(s.queue)
      /\ s.indegree \in [V -> Nat]
  BY DEF LoopInv
<1>3. \A j \in V : s.indegree[j] = Cardinality(D(j) \ E)
  BY DEF LoopInv
<1>4. ToSet(s.queue) = {j \in V \ E : D(j) \subseteq E}
  BY DEF LoopInv
<1>5. \A k \in DOMAIN s.order : D(s.order[k]) \subseteq {s.order[j] : j \in 1..k - 1}
  BY DEF LoopInv
<1>6. \A j : j \in Adj(g, i) <=> j \in V /\ i \in D(j)
  BY DEF Adj
<1> HIDE DEF D, E, t, i
<1>7. i \in V /\ i \in ToSet(s.queue)
  <2>1. s.queue # <<>> /\ s.queue \in Seq(V)
    BY <1>2
  <2>2. Len(s.queue) \in Nat \ {0} /\ DOMAIN s.queue = 1..Len(s.queue)
        /\ Head(s.queue) = s.queue[1]
    BY <2>1, LenProperties
  <2>3. s.queue[1] \in V /\ s.queue[1] \in ToSet(s.queue)
    BY <2>1, <2>2 DEF ToSet
  <2> QED
    BY <2>2, <2>3 DEF i
<1>8. i \notin E /\ D(i) \subseteq E
  BY <1>4, <1>7
<1>9. \A j \in E : j \in V /\ D(j) \subseteq E
  <2> SUFFICES ASSUME NEW j \in E PROVE j \in V /\ D(j) \subseteq E
    OBVIOUS
  <2>1. E = {s.order[k] : k \in DOMAIN s.order} /\ DOMAIN s.order = 1..Len(s.order)
        /\ Len(s.order) \in Nat
    BY <1>2, LenProperties DEF E, ToSet
  <2>2. PICK k \in DOMAIN s.order : j = s.order[k]
    BY <2>1
  <2>3. j \in V
    BY <1>2, <2>2
  <2>4. 1..k - 1 \subseteq DOMAIN s.order
    BY <2>1
  <2>5. D(j) \subseteq {s.order[l] : l \in 1..k - 1}
    BY <1>5, <2>2
  <2> QED
    BY <2>1, <2>3, <2>4, <2>5
<1>10. ASSUME NEW j \in V
       PROVE  /\ Cardinality(D(j) \ E) \in Nat /\ Cardinality(D(j) \ (E \cup {i})) \in Nat
              /\ i \in D(j) => /\ Cardinality(D(j) \ (E \cup {i})) = Cardinality(D(j) \ E) - 1
                               /\ Cardinality(D(j) \ E) # 0
              /\ i \notin D(j) => Cardinality(D(j) \ (E \cup {i})) = Cardinality(D(j) \ E)
              /\ Cardinality(D(j) \ (E \cup {i})) = 0 <=> D(j) \subseteq E \cup {i}
              /\ Cardinality(D(j) \ E) = 0 <=> D(j) \subseteq E
  <2>1. /\ Cardinality(D(j) \ E) \in Nat /\ IsFiniteSet(D(j) \ E)
        /\ Cardinality(D(j) \ E) = 0 <=> D(j) \subseteq E
    BY IndegreeCounts DEF D
  <2>2. /\ Cardinality(D(j) \ (E \cup {i})) \in Nat
        /\ Cardinality(D(j) \ (E \cup {i})) = 0 <=> D(j) \subseteq E \cup {i}
    BY IndegreeCounts DEF D
  <2>3. CASE i \in D(j)
    <3>1. i \in D(j) \ E
      BY <1>8, <2>3
    <3>2. D(j) \ (E \cup {i}) = (D(j) \ E) \ {i}
      OBVIOUS
    <3>3. Cardinality((D(j) \ E) \ {i}) = Cardinality(D(j) \ E) - 1
      BY <2>1, <3>1, FS_RemoveElement
    <3>4. ~(D(j) \subseteq E)
      BY <3>1
    <3> QED
      BY <2>1, <2>2, <2>3, <3>2, <3>3, <3>4
  <2>4. CASE i \notin D(j)
    <3>1. D(j) \ (E \cup {i}) = D(j) \ E
      BY <2>4
    <3> QED
      BY <2>1, <2>2, <2>4, <3>1
  <2> QED
    BY <2>3, <2>4
<1>11. \A j : j \in R <=> j \in V /\ i \in D(j) /\ Cardinality(D(j) \ (E \cup {i})) = 0
  <2>1. \A j : j \in R <=> j \in V /\ i \in D(j) /\ Cardinality(D(j) \ E) = 1
    BY <1>3, <1>6
  <2> HIDE DEF R, V
  <2>2. ASSUME NEW j \in V, i \in D(j)
        PROVE  Cardinality(D(j) \ E) = 1 <=> Cardinality(D(j) \ (E \cup {i})) = 0
    BY <1>10, <2>2
  <2> QED
    BY <2>1, <2>2
<1> HIDE DEF R
<1>12. \A j : j \in R <=> j \in V /\ i \in D(j) /\ D(j) \subseteq E \cup {i}
  BY <1>10, <1>11
<1>13. ToSet(s.queue) \cap R = {}
  BY <1>4, <1>8, <1>12
<1>14a. R \in SUBSET V
  BY <1>11
<1>14. Ascending(R) \in Seq(V) /\ NoRepeat(Ascending(R)) /\ ToSet(Ascending(R)) = R
  BY <1>14a, AscendingNodes
<1>15. t.queue \in Seq(V) /\ NoRepeat(t.queue)
       /\ ToSet(t.queue) = (ToSet(s.queue) \ {i}) \cup R
  <2> DEFINE r == Ascending(R)
             q == s.queue
  <2>1. /\ q \in Seq(V) /\ q # <<>> /\ NoRepeat(q) /\ r \in Seq(V) /\ NoRepeat(r)
        /\ ToSet(q) \cap ToSet(r) = {}
    BY <1>2, <1>13, <1>14
  <2> HIDE DEF q, r, V
  <2>2. /\ Tail(q) \o r \in Seq(V) /\ NoRepeat(Tail(q) \o r)
        /\ ToSet(Tail(q) \o r) = (ToSet(q) \ {Head(q)}) \cup ToSet(r)
    <3>1. /\ Tail(q) \in Seq(V) /\ NoRepeat(Tail(q)) /\ ToSet(Tail(q)) = ToSet(q) \ {Head(q)}
      BY <2>1, TailOnce
    <3>2. ToSet(Tail(q)) \cap ToSet(r) = {}
      BY <2>1, <3>1
    <3> DEFINE u == Tail(q)
    <3>3. u \in Seq(V) /\ NoRepeat(u) /\ ToSet(u) \cap ToSet(r) = {}
      BY <3>1, <3>2
    <3> HIDE DEF u
    <3>4. u \o r \in Seq(V) /\ ToSet(u \o r) = ToSet(u) \cup ToSet(r) /\ NoRepeat(u \o r)
      BY <2>1, <3>3, BothOnce
    <3> QED
      BY <3>1, <3>4 DEF u
  <2> QED
    BY <1>1, <1>14, <2>2 DEF i, q, r
<1>16. /\ t.order \in Seq(V) /\ NoRepeat(t.order) /\ ToSet(t.order) = E \cup {i}
       /\ Len(t.order) = Len(s.order) + 1 /\ Len(s.order) \in Nat
       /\ DOMAIN t.order = 1..Len(s.order) + 1 /\ DOMAIN s.order = 1..Len(s.order)
       /\ \A k \in 1..Len(s.order) : t.order[k] = s.order[k]
       /\ t.order[Len(s.order) + 1] = i
  <2> DEFINE o == s.order
  <2>1. i \notin ToSet(o) /\ o \in Seq(V) /\ NoRepeat(o) /\ i \in V
    BY <1>2, <1>7, <1>8 DEF E
  <2> HIDE DEF o, V
  <2>2. /\ Append(o, i) \in Seq(V) /\ Len(Append(o, i)) = Len(o) + 1 /\ Len(o) \in Nat
        /\ DOMAIN o = 1..Len(o) /\ DOMAIN Append(o, i) = 1..Len(o) + 1
        /\ \A k \in 1..Len(o) : Append(o, i)[k] = o[k]
        /\ Append(o, i)[Len(o) + 1] = i
        /\ ToSet(Append(o, i)) = ToSet(o) \cup {i}
        /\ NoRepeat(Append(o, i))
    BY <2>1, OneMore
  <2> QED
    BY <1>1, <2>2 DEF E, o
<1>17. /\ t.indegree \in [V -> Nat]
       /\ \A j \in V : t.indegree[j] = Cardinality(D(j) \ (E \cup {i}))
  <2>1. ASSUME NEW j \in V
        PROVE  (IF j \in Adj(g, i) THEN s.indegree[j] - 1 ELSE s.indegree[j])
                 = Cardinality(D(j) \ (E \cup {i}))
               /\ Cardinality(D(j) \ (E \cup {i})) \in Nat
    BY <1>3, <1>6, <1>10
  <2>2. DOMAIN s.indegree = V
    BY <1>2
  <2>3. \A j \in V : t.indegree[j] = Cardinality(D(j) \ (E \cup {i}))
    BY <1>1, <2>1, <2>2
  <2>4. t.indegree = [j \in V |-> Cardinality(D(j) \ (E \cup {i}))]
    BY <1>1, <2>1, <2>2
  <2> QED
    BY <2>1, <2>3, <2>4
<1>18. ToSet(t.queue) = {j \in V \ (E \cup {i}) : D(j) \subseteq E \cup {i}}
  <2>1. ASSUME NEW j \in ToSet(t.queue)
        PROVE  j \in V \ (E \cup {i}) /\ D(j) \subseteq E \cup {i}
    <3>1. CASE j \in ToSet(s.queue) \ {i}
      BY <1>4, <3>1
    <3>2. CASE j \in R
      <4>1. j \in V /\ i \in D(j) /\ D(j) \subseteq E \cup {i}
        BY <1>12, <3>2
      <4>2. j \notin E /\ j # i
        BY <1>8, <1>9, <4>1
      <4> QED
        BY <4>1, <4>2
    <3> QED
      BY <1>15, <2>1, <3>1, <3>2
  <2>2. ASSUME NEW j \in V \ (E \cup {i}), D(j) \subseteq E \cup {i}
        PROVE  j \in ToSet(t.queue)
    <3>1. CASE i \in D(j)
      BY <1>12, <1>15, <2>2, <3>1
    <3>2. CASE i \notin D(j)
      BY <1>4, <1>15, <2>2, <3>2
    <3> QED
      BY <3>1, <3>2
  <2> QED
    BY <2>1, <2>2
<1>19. \A k \in DOMAIN t.order : D(t.order[k]) \subseteq {t.order[j] : j \in 1..k - 1}
  <2> SUFFICES ASSUME NEW k \in DOMAIN t.order
               PROVE  D(t.order[k]) \subseteq {t.order[j] : j \in 1..k - 1}
    OBVIOUS
  <2>1. CASE k \in 1..Len(s.order)
    <3>1. \A j \in 1..k - 1 : t.order[j] = s.order[j]
      BY <1>16, <2>1
    <3>2. {t.order[j] : j \in 1..k - 1} = {s.order[j] : j \in 1..k - 1}
      BY <3>1
    <3> QED
      BY <1>5, <1>16, <2>1, <3>2
  <2>2. CASE k = Len(s.order) + 1
    <3>1. 1..k - 1 = DOMAIN s.order
      BY <1>16, <2>2
    <3>2. {t.order[j] : j \in 1..k - 1} = E
      BY <1>16, <3>1 DEF E, ToSet
    <3> QED
      BY <1>8, <1>16, <2>2, <3>2
  <2>3. k \in 1..Len(s.order) \/ k = Len(s.order) + 1
    BY <1>16
  <2> QED
    BY <2>1, <2>2, <2>3
<1>20. LoopInv(g, t)
  BY <1>15, <1>16, <1>17, <1>18, <1>19 DEF LoopInv, D
<1> QED
  BY <1>16, <1>20 DEF t

-----------------------------------------------------------------------------
(* The result of the sort. *)

(* The order and the queue when a sort of n nodes ends. *)
SortResult(g, s, n) ==
  LoopInv(g, s) /\ (Len(s.order) = n \/ s.queue = <<>>)

(* After a round for every node the queue is empty or everything is sorted. *)
LEMMA SortEnds ==
  ASSUME NEW g, OnnxModel(g)
  PROVE  \E s : SortResult(g, s, Len(g.nodes)) /\ SortedOrder(g) = s.order
<1> DEFINE n == Len(g.nodes)
           V == DOMAIN g.nodes
           St == {s \in [indegree : [V -> Nat], queue : Seq(V), order : Seq(V)] : LoopInv(g, s)}
           G == [k \in 1..n |-> [s \in St |-> PopLeft(g, s)]]
           v == SortStart(g)
           c == Chain(n, v, G)
           f == CHOOSE h : h = [k \in 0..n |-> IF k = 0 THEN SortStart(g) ELSE PopLeft(g, h[k - 1])]
<1>1. n \in Nat
  BY FiniteGraph
<1>2. v \in St
  <2>1. LoopInv(g, v)
    BY SortStarts
  <2>2. v = [indegree |-> v.indegree, queue |-> v.queue, order |-> v.order]
    BY DEF SortStart
  <2>3. v.indegree \in [V -> Nat] /\ v.queue \in Seq(V) /\ v.order \in Seq(V)
    BY <2>1 DEF LoopInv
  <2> HIDE DEF v, V
  <2>4. v \in [indegree : [V -> Nat], queue : Seq(V), order : Seq(V)]
    BY <2>2, <2>3
  <2> QED
    BY <2>1, <2>4
<1>3. ASSUME NEW s \in St PROVE PopLeft(g, s) \in St
  <2>1. CASE s.queue = <<>>
    BY <2>1 DEF PopLeft
  <2>2. CASE s.queue # <<>>
    <3> DEFINE t == PopLeft(g, s)
    <3>1. LoopInv(g, t)
      BY <2>2, RoundPops
    <3>2. t = [indegree |-> t.indegree, queue |-> t.queue, order |-> t.order]
      BY <2>2 DEF PopLeft
    <3>3. t.indegree \in [V -> Nat] /\ t.queue \in Seq(V) /\ t.order \in Seq(V)
      BY <3>1 DEF LoopInv
    <3> HIDE DEF t, V
    <3>4. t \in [indegree : [V -> Nat], queue : Seq(V), order : Seq(V)]
      BY <3>2, <3>3
    <3> QED
      BY <3>1, <3>4 DEF t
  <2> QED
    BY <2>1, <2>2
<1>4. SortedOrder(g) = f[n].order
  BY DEF SortedOrder
<1> HIDE DEF St, n, v
<1>5. \A k \in 1..n : \A s \in St : G[k][s] = PopLeft(g, s) /\ G[k][s] \in St
  BY <1>3
<1> HIDE DEF G
<1>6. /\ c \in [0..n -> St] /\ c[0] = v
      /\ \A k \in 1..n : c[k] = G[k][c[k - 1]]
  <2>1. \A k \in 1..n : \A s \in St : G[k][s] \in St
    BY <1>5
  <2> QED
    BY <1>1, <1>2, <2>1, Recursion
<1> HIDE DEF c
<1>7. c = [k \in 0..n |-> IF k = 0 THEN SortStart(g) ELSE PopLeft(g, c[k - 1])]
  <2>1. ASSUME NEW k \in 0..n
        PROVE  c[k] = IF k = 0 THEN SortStart(g) ELSE PopLeft(g, c[k - 1])
    <3>1. CASE k = 0
      BY <1>6, <3>1 DEF v
    <3>2. CASE k # 0
      <4>1. k \in 1..n /\ k - 1 \in 0..n
        BY <1>1, <3>2
      <4>2. c[k - 1] \in St
        BY <1>6, <4>1
      <4> QED
        BY <1>5, <1>6, <3>2, <4>1, <4>2
    <3> QED
      BY <3>1, <3>2
  <2>2. DOMAIN c = 0..n /\ c = [k \in DOMAIN c |-> c[k]]
    BY <1>6
  <2> QED
    BY <2>1, <2>2
<1>8. f = [k \in 0..n |-> IF k = 0 THEN SortStart(g) ELSE PopLeft(g, f[k - 1])]
  BY <1>7
<1> HIDE DEF f
<1>8a. \A k \in 1..n : k \in 0..n /\ k # 0
  BY <1>1
<1>8b. \A k \in 1..n : f[k] = PopLeft(g, f[k - 1])
  BY <1>8, <1>8a
<1>8c. 0 \in 0..n
  BY <1>1
<1> DEFINE S == {k \in 0..n : LoopInv(g, f[k]) /\ (Len(f[k].order) = k \/ f[k].queue = <<>>)}
<1>9. 0 \in S
  <2>1. 0 \in 0..n /\ f[0] = SortStart(g)
    BY <1>8, <1>8c
  <2> QED
    BY <2>1, SortStarts
<1>10. ASSUME NEW k \in 0..n - 1, k \in S PROVE k + 1 \in S
  <2>1. k + 1 \in 0..n /\ k + 1 \in 1..n /\ k + 1 - 1 = k /\ k \in Nat
    BY <1>1
  <2>2. f[k + 1] = PopLeft(g, f[k])
    <3>1. f[k + 1] = PopLeft(g, f[k + 1 - 1])
      BY <1>8b, <2>1
    <3> QED
      BY <2>1, <3>1
  <2>3. LoopInv(g, f[k]) /\ (Len(f[k].order) = k \/ f[k].queue = <<>>)
    BY <1>10
  <2>4. CASE f[k].queue = <<>>
    <3>1. f[k + 1] = f[k]
      BY <2>2, <2>4 DEF PopLeft
    <3> QED
      BY <2>1, <2>3, <2>4, <3>1
  <2>5. CASE f[k].queue # <<>>
    <3>1. LoopInv(g, f[k + 1]) /\ Len(f[k + 1].order) = Len(f[k].order) + 1
      BY <2>2, <2>3, <2>5, RoundPops
    <3> QED
      BY <2>1, <2>3, <2>5, <3>1
  <2> QED
    BY <2>4, <2>5
<1> HIDE DEF S
<1>11. \A k \in 0..n : k \in S
  BY <1>1, <1>9, <1>10, InductTo
<1>12. n \in S
  BY <1>1, <1>11
<1> QED
  BY <1>4, <1>12 DEF S, n, SortResult

(* A sequence without repetitions has as many elements as places. *)
LEMMA RepeatsNothing ==
  ASSUME NEW V, NEW s \in Seq(V), NoRepeat(s)
  PROVE  IsFiniteSet(ToSet(s)) /\ Cardinality(ToSet(s)) = Len(s) /\ Len(s) \in Nat
         /\ ToSet(s) \in SUBSET V /\ DOMAIN s = 1..Len(s)
<1> DEFINE n == Len(s)
           E == ToSet(s)
<1>1. n \in Nat /\ DOMAIN s = 1..n /\ s \in [1..n -> E] /\ E \in SUBSET V
      /\ \A e \in E : \E k \in 1..n : s[k] = e
  BY LenProperties DEF ToSet
<1>2. \A j, k \in 1..n : j # k => s[j] # s[k]
  BY <1>1 DEF NoRepeat
<1> HIDE DEF n, E
<1>3. s \in Bijection(1..n, E)
  BY <1>1, <1>2, Fun_IsBij
<1>4. ExistsBijection(1..n, E)
  BY <1>3 DEF ExistsBijection
<1>5. IsFiniteSet(1..n) /\ Cardinality(1..n) = n
  BY <1>1, FS_Interval
<1>6. IsFiniteSet(E) /\ Cardinality(E) = n
  BY <1>4, <1>5, FS_Bijection
<1> QED
  BY <1>1, <1>6 DEF n, E

(* When the sort rejects a graph, the nodes left over are stuck. *)
LEMMA RejectedIsCyclic ==
  ASSUME NEW g, OnnxModel(g), NEW s, SortResult(g, s, Len(g.nodes))
  PROVE  Len(s.order) < Len(g.nodes) => Cyclic(g)
<1> DEFINE V == DOMAIN g.nodes
           E == ToSet(s.order)
           n == Len(g.nodes)
<1>1. /\ s.order \in Seq(V) /\ s.queue \in Seq(V) /\ NoRepeat(s.order)
      /\ ToSet(s.queue) = {j \in V \ E : Dependencies(g, j) \subseteq E}
      /\ Len(s.order) = n \/ s.queue = <<>>
  BY DEF SortResult, LoopInv
<1>2. /\ n \in Nat /\ IsFiniteSet(V) /\ Cardinality(V) = n
      /\ \A i \in V : Dependencies(g, i) \in SUBSET V
  BY FiniteGraph
<1> HIDE DEF V, n
<1>3. Cardinality(E) = Len(s.order) /\ Len(s.order) \in Nat /\ E \in SUBSET V
  BY <1>1, RepeatsNothing
<1> SUFFICES ASSUME Len(s.order) < n PROVE Cyclic(g)
  BY DEF n
<1>4. V \ E # {}
  <2> SUFFICES ASSUME V \ E = {} PROVE FALSE
    OBVIOUS
  <2>1. E = V
    BY <1>3
  <2> QED
    BY <1>2, <1>3, <2>1
<1>5. s.queue = <<>>
  BY <1>1, <1>2, <1>3
<1>6. ToSet(s.queue) = {}
  BY <1>5 DEF ToSet
<1>7. \A i \in V \ E : Dependencies(g, i) \cap (V \ E) # {}
  BY <1>1, <1>2, <1>6
<1> QED
  BY <1>4, <1>7 DEF Cyclic, V

(* A sort that emits every node has none in a cycle. *)
LEMMA CyclicIsRejected ==
  ASSUME NEW g, OnnxModel(g), NEW s, SortResult(g, s, Len(g.nodes)), Cyclic(g)
  PROVE  Len(s.order) < Len(g.nodes)
<1> DEFINE V == DOMAIN g.nodes
           o == s.order
           E == ToSet(o)
           n == Len(g.nodes)
<1>1. o \in Seq(V) /\ NoRepeat(o)
  BY DEF SortResult, LoopInv
<1>2. \A k \in DOMAIN o : Dependencies(g, o[k]) \subseteq {o[j] : j \in 1..k - 1}
  BY DEF SortResult, LoopInv
<1>3. n \in Nat /\ IsFiniteSet(V) /\ Cardinality(V) = n
  BY FiniteGraph
<1>4. PICK S \in (SUBSET V) \ {{}} : \A i \in S : Dependencies(g, i) \cap S # {}
  BY DEF Cyclic
<1> HIDE DEF V, n, o
<1>5. IsFiniteSet(E) /\ Cardinality(E) = Len(o) /\ Len(o) \in Nat /\ E \in SUBSET V
      /\ DOMAIN o = 1..Len(o)
  BY <1>1, RepeatsNothing
<1>6. Cardinality(E) <= n
  BY <1>3, <1>5, FS_Subset
<1>7. ASSUME Len(o) = n PROVE FALSE
  <2>1. E = V
    BY <1>3, <1>5, <1>7, FS_Subset
  <2> DEFINE T == {k \in 1..n : o[k] \in S}
  <2>2. T \in SUBSET Nat /\ T # {}
    <3>1. PICK i \in S : i \in V
      BY <1>4
    <3>2. PICK k \in DOMAIN o : o[k] = i
      BY <2>1, <3>1 DEF ToSet
    <3>3. k \in 1..n
      BY <1>5, <1>7, <3>2
    <3>4. k \in T
      BY <3>1, <3>2, <3>3
    <3>5. T \in SUBSET Nat
      BY <1>3
    <3> QED
      BY <3>4, <3>5
  <2>3. PICK k \in T : \A m \in T : k <= m
    BY <2>2, LeastOf
  <2>4. PICK d \in Dependencies(g, o[k]) : d \in S
    BY <1>4, <2>3
  <2>5. PICK j \in 1..k - 1 : d = o[j]
    BY <1>2, <1>5, <1>7, <2>3, <2>4
  <2>6. j \in T /\ j < k
    BY <1>3, <2>3, <2>4, <2>5
  <2> QED
    BY <2>3, <2>6
<1> QED
  BY <1>3, <1>5, <1>6, <1>7 DEF n, o

(* A stored order that the compiler accepts has no cycle. *)
LEMMA ValidIsAcyclic ==
  ASSUME NEW g, OnnxModel(g), StoredOrderValid(g)
  PROVE  ~Cyclic(g)
<1> SUFFICES ASSUME NEW S \in (SUBSET DOMAIN g.nodes) \ {{}},
                    \A i \in S : Dependencies(g, i) \cap S # {}
             PROVE  FALSE
  BY DEF Cyclic
<1>1. DOMAIN g.nodes \in SUBSET Nat
  BY FiniteGraph
<1>1a. S \in SUBSET Nat /\ S # {}
  BY <1>1
<1>2. PICK i \in S : \A m \in S : i <= m
  BY <1>1a, LeastOf
<1>3. PICK j \in S : j \in Dependencies(g, i)
  BY <1>2
<1>4. PICK n \in Present(g.nodes[i].in) \ Given(g) : j \in ProducersOf(g, n)
  BY <1>3, DependenciesAre
<1>5. PICK k \in ProducersOf(g, n) : k < i
  BY <1>4 DEF StoredOrderValid
<1>6. k = j
  BY <1>4, <1>5, OneProducer
<1> QED
  BY <1>1, <1>2, <1>5, <1>6

(* The sort is exact on every graph that the ONNX checker passes. *)
LEMMA SortIsExact ==
  ASSUME NEW g, OnnxModel(g)
  PROVE  SortsExactly(g)
<1>1. PICK s : SortResult(g, s, Len(g.nodes)) /\ SortedOrder(g) = s.order
  BY SortEnds
<1>2. NoRepeat(s.order)
      /\ \A k \in DOMAIN s.order :
           Dependencies(g, s.order[k]) \subseteq {s.order[j] : j \in 1..k - 1}
  BY <1>1 DEF SortResult, LoopInv
<1>3. SortRejects(g) <=> Cyclic(g)
  BY <1>1, RejectedIsCyclic, CyclicIsRejected DEF SortRejects
<1>4. StoredOrderValid(g) => ~SortRejects(g)
  BY <1>3, ValidIsAcyclic
<1>5. \A j, k \in DOMAIN s.order : j # k => s.order[j] # s.order[k]
  BY <1>2 DEF NoRepeat
<1>6. SortedOrder(g) = s.order
  BY <1>1
<1>7. \A k \in DOMAIN s.order :
        Dependencies(g, s.order[k]) \subseteq {s.order[j] : j \in 1..k - 1}
  BY <1>2
<1> QED
  BY <1>3, <1>4, <1>5, <1>6, <1>7 DEF SortsExactly

-----------------------------------------------------------------------------
(* Concatenations of sequences of sequences. *)

(* Where each of n parts ends, the first one beginning after 0. *)
Ends(P, q, n) ==
  /\ n \in Nat /\ P \in [0..n -> Nat] /\ P[0] = 0
  /\ \A k \in 1..n : P[k] = P[k - 1] + Len(q[k])
(* The parts of q up to number k, in w one after the other. *)
InPlace(w, P, q, k) ==
  /\ Len(w) = P[k]
  /\ \A m \in 1..k : \A x \in 1..Len(q[m]) :
       P[m - 1] + x \in 1..P[k] /\ w[P[m - 1] + x] = q[m][x]
  /\ \A y \in 1..P[k] : \E m \in 1..k : \E x \in 1..Len(q[m]) : y = P[m - 1] + x

(* One more part. *)
LEMMA PlaceNext ==
  ASSUME NEW n, NEW X, NEW q \in [1..n -> Seq(X)], NEW P, Ends(P, q, n),
         NEW k \in 0..n - 1, NEW w \in Seq(X), InPlace(w, P, q, k)
  PROVE  w \o q[k + 1] \in Seq(X) /\ InPlace(w \o q[k + 1], P, q, k + 1)
<1> DEFINE b == q[k + 1]
           c == w \o b
           L == Len(b)
           A == P[k]
           Part(m) == 1..Len(q[m])
<1>1. n \in Nat /\ k \in Nat /\ k + 1 \in 1..n /\ k \in 0..n /\ (k + 1) - 1 = k
  BY DEF Ends
<1>2. b \in Seq(X) /\ L \in Nat
  BY <1>1, LenProperties
<1>3. A \in Nat /\ P[k + 1] = A + L
  BY <1>1 DEF Ends
<1>4. \A m \in 1..k : \A x \in Part(m) : P[m - 1] + x \in 1..A /\ w[P[m - 1] + x] = q[m][x]
  BY DEF InPlace
<1>5. \A y \in 1..A : \E m \in 1..k : \E x \in Part(m) : y = P[m - 1] + x
  BY DEF InPlace
<1>6. Len(w) = A
  BY DEF InPlace
<1>7. c \in Seq(X) /\ IsConcat(c, w, b)
  BY <1>2, Concatenated
<1>8. Part(k + 1) = 1..L
  OBVIOUS
<1> HIDE DEF b, c, A, L, Part
<1>9. /\ Len(c) = A + L
      /\ \A y \in 1..A : c[y] = w[y]
      /\ \A y \in 1..L : c[A + y] = b[y]
  BY <1>6, <1>7 DEF IsConcat, L
<1>10. \A m \in 1..k + 1 : m \in 1..k \/ m = k + 1
  BY <1>1
<1>11. ASSUME NEW m \in 1..k + 1, NEW x \in Part(m)
       PROVE  P[m - 1] + x \in 1..A + L /\ c[P[m - 1] + x] = q[m][x]
  <2>1. CASE m \in 1..k
    <3>1. P[m - 1] + x \in 1..A /\ w[P[m - 1] + x] = q[m][x]
      BY <1>4, <2>1
    <3>2. P[m - 1] + x \in 1..A + L
      BY <1>2, <1>3, <3>1
    <3> QED
      BY <1>9, <3>1, <3>2
  <2>2. CASE m = k + 1
    <3>1. P[m - 1] = A /\ x \in 1..L
      BY <1>1, <1>8, <2>2 DEF A
    <3>2. A + x \in 1..A + L
      BY <1>2, <1>3, <3>1
    <3> QED
      BY <1>9, <2>2, <3>1, <3>2 DEF b
  <2> QED
    BY <1>10, <2>1, <2>2
<1>12. ASSUME NEW y \in 1..A + L
       PROVE  \E m \in 1..k + 1 : \E x \in Part(m) : y = P[m - 1] + x
  <2>1. CASE y <= A
    <3>1. y \in 1..A
      BY <1>3, <2>1
    <3>2. PICK m \in 1..k : \E x \in Part(m) : y = P[m - 1] + x
      BY <1>5, <3>1
    <3>3. m \in 1..k + 1
      BY <1>1
    <3> QED
      BY <3>2, <3>3
  <2>2. CASE ~(y <= A)
    <3>1. y - A \in 1..L /\ y = A + (y - A)
      BY <1>2, <1>3, <2>2
    <3>2. k + 1 \in 1..k + 1 /\ P[(k + 1) - 1] = A
      BY <1>1 DEF A
    <3> QED
      BY <1>8, <3>1, <3>2
  <2> QED
    BY <2>1, <2>2
<1>13. InPlace(c, P, q, k + 1)
  BY <1>3, <1>9, <1>11, <1>12 DEF InPlace, Part
<1> QED
  BY <1>7, <1>13 DEF b, c

(* Where the elements of a concatenation are, whatever the length of its parts. *)
LEMMA FlattenPlaces ==
  ASSUME NEW n, NEW X, NEW q \in [1..n -> Seq(X)], NEW P, Ends(P, q, n)
  PROVE  FlattenSeq(q) \in Seq(X) /\ InPlace(FlattenSeq(q), P, q, n)
<1>1. n \in Nat
  BY DEF Ends
<1>2. <<>> \in Seq(X) /\ InPlace(<<>>, P, q, 0)
  BY DEF InPlace, Ends
<1>3. CASE n = 0
  <2>1. Len(q) = 0 /\ q = <<>>
    BY <1>3
  <2>2. FlattenSeq(q) = <<>>
    BY <2>1 DEF FlattenSeq
  <2> QED
    BY <1>2, <1>3, <2>2
<1>4. CASE n # 0
  <2> DEFINE t == Joined(n, q)
  <2>1. t \in [1..n -> Seq(X)]
    BY <1>1, <1>4, FlattenSteps
  <2>2. Joins(t, n, q)
    BY <1>1, <1>4, FlattenSteps
  <2>3. FlattenSeq(q) = t[n]
    BY <1>1, <1>4, FlattenSteps
  <2>4. t[1] = q[1] /\ \A k \in 1..n - 1 : t[k + 1] = t[k] \o q[k + 1]
    BY <2>2 DEF Joins
  <2> HIDE DEF t
  <2> DEFINE S == {k \in 0..n - 1 : InPlace(t[k + 1], P, q, k + 1)}
  <2>5. 0 \in S
    <3>1. 0 \in 0..n - 1 /\ 0 + 1 = 1 /\ 1 \in 1..n
      BY <1>1, <1>4
    <3>2. <<>> \o q[1] = q[1]
      BY <3>1, ConcatEmptySeq
    <3>3. InPlace(<<>> \o q[0 + 1], P, q, 0 + 1)
      BY <1>2, <3>1, PlaceNext
    <3> QED
      BY <2>4, <3>1, <3>2, <3>3
  <2>6. ASSUME NEW k \in 0..(n - 1) - 1, k \in S PROVE k + 1 \in S
    <3>1. k + 1 \in 0..n - 1 /\ k + 1 \in 1..n - 1 /\ k + 1 \in 1..n
      BY <1>1
    <3>2. t[(k + 1) + 1] = t[k + 1] \o q[(k + 1) + 1]
      BY <2>4, <3>1
    <3>3. t[k + 1] \in Seq(X) /\ InPlace(t[k + 1], P, q, k + 1)
      BY <2>1, <2>6, <3>1
    <3>4. InPlace(t[k + 1] \o q[(k + 1) + 1], P, q, (k + 1) + 1)
      BY <3>1, <3>3, PlaceNext
    <3> QED
      BY <3>1, <3>2, <3>4
  <2>7. n - 1 \in Nat /\ n - 1 \in 0..n - 1 /\ (n - 1) + 1 = n /\ n \in 1..n
    BY <1>1, <1>4
  <2> HIDE DEF S
  <2>8. \A k \in 0..n - 1 : k \in S
    BY <2>5, <2>6, <2>7, InductTo
  <2>9. n - 1 \in S
    BY <2>7, <2>8
  <2>10. InPlace(t[n], P, q, n) /\ t[n] \in Seq(X)
    BY <2>1, <2>7, <2>9 DEF S
  <2> QED
    BY <2>3, <2>10
<1> QED
  BY <1>3, <1>4

(* There are such ends. *)
LEMMA EndsExist ==
  ASSUME NEW n \in Nat, NEW X, NEW q \in [1..n -> Seq(X)]
  PROVE  \E P : Ends(P, q, n)
<1> DEFINE G == [k \in 1..n |-> [x \in Nat |-> x + Len(q[k])]]
           P == Chain(n, 0, G)
<1>1. \A k \in 1..n : \A x \in Nat : G[k][x] = x + Len(q[k]) /\ G[k][x] \in Nat
  <2> SUFFICES ASSUME NEW k \in 1..n, NEW x \in Nat
               PROVE  G[k][x] = x + Len(q[k]) /\ G[k][x] \in Nat
    OBVIOUS
  <2>1. Len(q[k]) \in Nat
    BY LenProperties
  <2> QED
    BY <2>1
<1> HIDE DEF G
<1>2. \A k \in 1..n : \A x \in Nat : G[k][x] \in Nat
  BY <1>1
<1>3. /\ P \in [0..n -> Nat] /\ P[0] = 0
      /\ \A k \in 1..n : P[k] = G[k][P[k - 1]]
  <2> DEFINE V == Nat
             v == 0
             N == n
  <2>1. N \in Nat /\ v \in V /\ \A k \in 1..N : \A x \in V : G[k][x] \in V
    BY <1>2
  <2> HIDE DEF V, v, N
  <2>2. /\ Chain(N, v, G) \in [0..N -> V] /\ Chain(N, v, G)[0] = v
        /\ \A k \in 1..N : Chain(N, v, G)[k] = G[k][Chain(N, v, G)[k - 1]]
    BY <2>1, Recursion
  <2> QED
    BY <2>2 DEF V, v, N
<1> HIDE DEF P
<1>4. ASSUME NEW k \in 1..n PROVE P[k] = P[k - 1] + Len(q[k])
  <2>1. k - 1 \in 0..n
    OBVIOUS
  <2>2. P[k - 1] \in Nat
    BY <1>3, <2>1
  <2> QED
    BY <1>1, <1>3, <2>2
<1>5. Ends(P, q, n)
  BY <1>3, <1>4 DEF Ends
<1> QED
  BY <1>5

(* The elements of a concatenation are those of its parts. *)
LEMMA FlattenElements ==
  ASSUME NEW X, NEW q \in Seq(Seq(X))
  PROVE  /\ FlattenSeq(q) \in Seq(X)
         /\ ToSet(FlattenSeq(q)) = UNION {ToSet(q[i]) : i \in DOMAIN q}
<1> DEFINE n == Len(q)
           w == FlattenSeq(q)
<1>1. n \in Nat /\ q \in [1..n -> Seq(X)] /\ DOMAIN q = 1..n
  BY LenProperties
<1> HIDE DEF n
<1>2. PICK P : Ends(P, q, n)
  BY <1>1, EndsExist
<1>3. w \in Seq(X) /\ InPlace(w, P, q, n)
  BY <1>1, <1>2, FlattenPlaces
<1> HIDE DEF w
<1>4. DOMAIN w = 1..P[n]
  BY <1>3, LenProperties DEF InPlace
<1>5. \A i \in DOMAIN q : ToSet(q[i]) = {q[i][x] : x \in 1..Len(q[i])}
  BY <1>1, LenProperties DEF ToSet
<1>6. ToSet(w) = {w[y] : y \in 1..P[n]}
  BY <1>4 DEF ToSet
<1>7. ASSUME NEW e \in ToSet(w) PROVE \E i \in DOMAIN q : e \in ToSet(q[i])
  <2>1. PICK y \in 1..P[n] : e = w[y]
    BY <1>6
  <2>2. PICK m \in 1..n : \E x \in 1..Len(q[m]) : y = P[m - 1] + x
    BY <1>3 DEF InPlace
  <2>3. PICK x \in 1..Len(q[m]) : y = P[m - 1] + x
    BY <2>2
  <2>4. w[y] = q[m][x]
    BY <1>3, <2>3 DEF InPlace
  <2> QED
    BY <1>1, <1>5, <2>1, <2>4
<1>8. ASSUME NEW i \in DOMAIN q, NEW e \in ToSet(q[i]) PROVE e \in ToSet(w)
  <2>1. PICK x \in 1..Len(q[i]) : e = q[i][x]
    BY <1>5
  <2>2. P[i - 1] + x \in 1..P[n] /\ w[P[i - 1] + x] = q[i][x]
    BY <1>1, <1>3 DEF InPlace
  <2> QED
    BY <1>6, <2>1, <2>2
<1> QED
  BY <1>3, <1>7, <1>8 DEF w

-----------------------------------------------------------------------------
(* The names of a model and their ids. *)

(* What is left of a sequence without its later occurrences and a set. *)
LEMMA FirstSeenOnce ==
  ASSUME NEW V, NEW s \in Seq(V), NEW W
  PROVE  /\ FirstSeen(s, W) \in Seq(V \ W) /\ NoRepeat(FirstSeen(s, W))
         /\ ToSet(FirstSeen(s, W)) = ToSet(s) \ W
<1> DEFINE K == {i \in DOMAIN s : s[i] \notin W /\ \A j \in 1..i - 1 : s[j] # s[i]}
           a == Ascending(K)
           n == Cardinality(K)
           r == Sublist(s, K)
<1>1. DOMAIN s = 1..Len(s) /\ Len(s) \in Nat
  BY LenProperties
<1>2. K \in SUBSET DOMAIN s /\ \A i \in K : s[i] \notin W /\ \A j \in 1..i - 1 : s[j] # s[i]
  OBVIOUS
<1>3. FirstSeen(s, W) = r
  BY DEF FirstSeen
<1>4. \A i \in DOMAIN s : s[i] \notin W /\ (\A j \in 1..i - 1 : s[j] # s[i]) => i \in K
  OBVIOUS
<1> HIDE DEF K
<1>5. /\ n \in Nat /\ Lists(a, n, K)
      /\ r \in Seq(V) /\ DOMAIN r = 1..n
      /\ \A k \in 1..n : r[k] = s[a[k]]
      /\ ToSet(r) = {s[i] : i \in K}
  BY <1>2, SublistOf
<1> HIDE DEF a, n, r
<1>6. /\ a \in [1..n -> K] /\ \A j, k \in 1..n : j < k => a[j] < a[k]
  BY <1>5 DEF Lists
<1>7. NoRepeat(r)
  <2>1. ASSUME NEW j \in 1..n, NEW k \in 1..n, j < k PROVE r[j] # r[k]
    <3>1. a[j] \in K /\ a[k] \in K /\ a[j] < a[k]
      BY <1>6, <2>1
    <3>2. a[j] \in 1..a[k] - 1
      BY <1>1, <1>2, <3>1
    <3>3. s[a[j]] # s[a[k]]
      BY <1>2, <3>1, <3>2
    <3> QED
      BY <1>5, <3>3
  <2>2. \A j, k \in 1..n : j # k => j < k \/ k < j
    BY <1>5
  <2> QED
    BY <1>5, <2>1, <2>2 DEF NoRepeat
<1>8. \A k \in 1..n : r[k] \in V \ W
  <2> SUFFICES ASSUME NEW k \in 1..n PROVE r[k] \in V \ W
    OBVIOUS
  <2>1. a[k] \in K
    BY <1>6
  <2> QED
    BY <1>1, <1>2, <1>5, <2>1
<1>9. r \in Seq(V \ W)
  <2>1. r \in [1..n -> V \ W]
    BY <1>5, <1>8
  <2> QED
    BY <1>5, <2>1, AsSequence
<1>10. ToSet(r) = ToSet(s) \ W
  <2>1. ToSet(s) = {s[i] : i \in DOMAIN s}
    BY DEF ToSet
  <2>2. ASSUME NEW e \in ToSet(s) \ W PROVE e \in ToSet(r)
    <3> DEFINE T == {i \in DOMAIN s : s[i] = e}
    <3>1. T \in SUBSET Nat /\ T # {}
      BY <1>1, <2>1
    <3>2. PICK i \in T : \A m \in T : i <= m
      BY <3>1, LeastOf
    <3>3. ASSUME NEW j \in 1..i - 1 PROVE s[j] # s[i]
      <4>1. j \in DOMAIN s /\ ~(i <= j)
        BY <1>1, <3>2
      <4> QED
        BY <3>2, <4>1
    <3>4. i \in K
      BY <1>4, <2>2, <3>2, <3>3
    <3> QED
      BY <1>5, <3>2, <3>4
  <2>3. ASSUME NEW e \in ToSet(r) PROVE e \in ToSet(s) \ W
    BY <1>2, <1>5, <2>1
  <2> QED
    BY <2>2, <2>3
<1> QED
  BY <1>3, <1>7, <1>9, <1>10

(* What the nodes of a model are made of. *)
LEMMA NodeTypes ==
  ASSUME NEW g, OnnxModel(g)
  PROVE  /\ ABSENT \notin Name
         /\ g.nodes \in Seq(Node) /\ DOMAIN g.nodes = 1..Len(g.nodes) /\ Len(g.nodes) \in Nat
         /\ \A i \in DOMAIN g.nodes :
              /\ g.nodes[i] \in Node
              /\ g.nodes[i].in \in Seq(Name \cup {ABSENT})
              /\ g.nodes[i].out \in Seq(Name \cup {ABSENT})
              /\ Present(g.nodes[i].in) = ToSet(g.nodes[i].in) \ {ABSENT}
              /\ Present(g.nodes[i].in) \in SUBSET Name
              /\ Present(g.nodes[i].out) \in SUBSET Name
<1>1. g.nodes \in Seq(Node)
  BY DEF OnnxModel
<1>2. DOMAIN g.nodes = 1..Len(g.nodes) /\ Len(g.nodes) \in Nat
  BY <1>1
<1>3. ASSUME NEW i \in DOMAIN g.nodes
      PROVE  /\ g.nodes[i] \in Node
             /\ g.nodes[i].in \in Seq(Name \cup {ABSENT})
             /\ g.nodes[i].out \in Seq(Name \cup {ABSENT})
  <2>1. g.nodes[i] \in Node
    BY <1>1
  <2> QED
    BY <2>1 DEF Node
<1>4. ASSUME NEW s \in Seq(Name \cup {ABSENT}) PROVE ToSet(s) \ {ABSENT} \in SUBSET Name
  BY DEF ToSet
<1>5. ASSUME NEW i \in DOMAIN g.nodes
      PROVE  Present(g.nodes[i].in) \in SUBSET Name /\ Present(g.nodes[i].out) \in SUBSET Name
  BY <1>3, <1>4 DEF Present
<1> QED
  BY <1>1, <1>2, <1>3, <1>5, NameAssumption DEF Present

(* The names in a graph, and those that its nodes mention. *)
LEMMA NamesOfNodes ==
  ASSUME NEW g, OnnxModel(g)
  PROVE  /\ NodeNames(g) \in Seq(Name \cup {ABSENT})
         /\ \A i \in DOMAIN g.nodes : /\ Present(g.nodes[i].in) \subseteq Present(NodeNames(g))
                                      /\ Present(g.nodes[i].out) \subseteq Present(NodeNames(g))
         /\ \A n \in Present(NodeNames(g)) : \E i \in DOMAIN g.nodes :
              n \in Present(g.nodes[i].in) \/ n \in Present(g.nodes[i].out)
         /\ Present(NodeNames(g)) \in SUBSET Name
<1> DEFINE X == Name \cup {ABSENT}
           q == [i \in DOMAIN g.nodes |-> g.nodes[i].in \o g.nodes[i].out]
           n == Len(g.nodes)
<1>1. n \in Nat /\ DOMAIN g.nodes = 1..n
  BY NodeTypes
<1>2. \A i \in DOMAIN g.nodes : g.nodes[i].in \in Seq(X) /\ g.nodes[i].out \in Seq(X)
  BY NodeTypes
<1> HIDE DEF X, n
<1>3. \A i \in DOMAIN g.nodes : /\ q[i] \in Seq(X)
                                /\ ToSet(q[i]) = ToSet(g.nodes[i].in) \cup ToSet(g.nodes[i].out)
  <2> SUFFICES ASSUME NEW i \in DOMAIN g.nodes
               PROVE  /\ q[i] \in Seq(X)
                      /\ ToSet(q[i]) = ToSet(g.nodes[i].in) \cup ToSet(g.nodes[i].out)
    OBVIOUS
  <2> DEFINE s == g.nodes[i].in
             t == g.nodes[i].out
  <2>1. s \in Seq(X) /\ t \in Seq(X) /\ q[i] = s \o t
    BY <1>2
  <2> HIDE DEF s, t, q
  <2>2. s \o t \in Seq(X) /\ ToSet(s \o t) = ToSet(s) \cup ToSet(t)
    BY <2>1, BothOnce
  <2> QED
    BY <2>1, <2>2 DEF s, t
<1>4. NodeNames(g) = FlattenSeq(q)
  BY DEF NodeNames
<1>5. DOMAIN q = 1..n /\ q = [i \in DOMAIN q |-> q[i]]
  BY <1>1
<1> HIDE DEF q
<1>6. q \in [1..n -> Seq(X)]
  BY <1>1, <1>3, <1>5
<1>7. q \in Seq(Seq(X))
  BY <1>1, <1>6, AsSequence
<1>8. NodeNames(g) \in Seq(X) /\ ToSet(NodeNames(g)) = UNION {ToSet(q[i]) : i \in DOMAIN q}
  BY <1>4, <1>7, FlattenElements
<1>9. \A i \in DOMAIN g.nodes : /\ ToSet(g.nodes[i].in) \subseteq ToSet(NodeNames(g))
                                /\ ToSet(g.nodes[i].out) \subseteq ToSet(NodeNames(g))
  BY <1>1, <1>3, <1>5, <1>8
<1>10. \A m \in ToSet(NodeNames(g)) : \E i \in DOMAIN g.nodes :
         m \in ToSet(g.nodes[i].in) \/ m \in ToSet(g.nodes[i].out)
  BY <1>1, <1>3, <1>5, <1>8
<1>11. Present(NodeNames(g)) \in SUBSET Name
  <2>1. ASSUME NEW s \in Seq(X) PROVE ToSet(s) \subseteq X
    BY DEF ToSet
  <2> QED
    BY <1>8, <2>1 DEF Present, X
<1> QED
  BY <1>8, <1>9, <1>10, <1>11 DEF Present, X

(* The ids stand for the names of a graph, each once. *)
LEMMA IdsAreNames ==
  ASSUME NEW g, OnnxModel(g)
  PROVE  /\ TensorIds(g) \in Seq(Name) /\ NoRepeat(TensorIds(g))
         /\ ToSet(TensorIds(g)) = AllNames(g) /\ AllNames(g) \in SUBSET Name
         /\ IsFiniteSet(AllNames(g))
<1> DEFINE X == Name \cup {ABSENT}
           p == FirstSeen(g.inputs, Initializers(g))
           q == FirstSeen(g.outputs, Given(g) \cup ToSet(NodeNames(g)))
           r == FirstSeen(NodeNames(g), Given(g) \cup {ABSENT})
           t == FirstSeen(g.inits, {})
<1>1. /\ g.inputs \in Seq(Name) /\ g.outputs \in Seq(Name) /\ g.inits \in Seq(Name)
      /\ NodeNames(g) \in Seq(X)
  BY NamesOfNodes DEF OnnxModel
<1>2. \A V, W : V \ W \subseteq V /\ X \ (W \cup {ABSENT}) \subseteq Name
  OBVIOUS
<1>3. /\ p \in Seq(Name) /\ NoRepeat(p) /\ ToSet(p) = GraphInputs(g)
      /\ q \in Seq(Name) /\ NoRepeat(q)
      /\ ToSet(q) = GraphOutputs(g) \ (Given(g) \cup ToSet(NodeNames(g)))
      /\ r \in Seq(Name) /\ NoRepeat(r) /\ ToSet(r) = Present(NodeNames(g)) \ Given(g)
      /\ t \in Seq(Name) /\ NoRepeat(t) /\ ToSet(t) = Initializers(g)
  <2>0. ASSUME NEW A, NEW B, A \subseteq B, NEW s \in Seq(A) PROVE s \in Seq(B)
    BY <2>0
  <2>1. p \in Seq(Name \ Initializers(g)) /\ NoRepeat(p) /\ ToSet(p) = GraphInputs(g)
    BY <1>1, FirstSeenOnce DEF GraphInputs
  <2>2. /\ q \in Seq(Name \ (Given(g) \cup ToSet(NodeNames(g)))) /\ NoRepeat(q)
        /\ ToSet(q) = GraphOutputs(g) \ (Given(g) \cup ToSet(NodeNames(g)))
    BY <1>1, FirstSeenOnce DEF GraphOutputs
  <2>3. /\ r \in Seq(X \ (Given(g) \cup {ABSENT})) /\ NoRepeat(r)
        /\ ToSet(r) = Present(NodeNames(g)) \ Given(g)
    <3>1. /\ r \in Seq(X \ (Given(g) \cup {ABSENT})) /\ NoRepeat(r)
          /\ ToSet(r) = ToSet(NodeNames(g)) \ (Given(g) \cup {ABSENT})
      BY <1>1, FirstSeenOnce
    <3>2. ToSet(NodeNames(g)) \ (Given(g) \cup {ABSENT}) = Present(NodeNames(g)) \ Given(g)
      BY DEF Present
    <3> QED
      BY <3>1, <3>2
  <2>4. t \in Seq(Name \ {}) /\ NoRepeat(t) /\ ToSet(t) = Initializers(g)
    <3>1. t \in Seq(Name \ {}) /\ NoRepeat(t) /\ ToSet(t) = ToSet(g.inits) \ {}
      BY <1>1, FirstSeenOnce
    <3> QED
      BY <3>1 DEF Initializers
  <2> HIDE DEF p, q, r, t
  <2>5. p \in Seq(Name) /\ q \in Seq(Name) /\ t \in Seq(Name)
    BY <1>2, <2>0, <2>1, <2>2, <2>4
  <2>6. r \in Seq(Name)
    BY <1>2, <2>0, <2>3
  <2> QED
    BY <2>1, <2>2, <2>3, <2>4, <2>5, <2>6
<1>4. TensorIds(g) = ((p \o q) \o r) \o t
  BY DEF TensorIds
<1> HIDE DEF p, q, r, t
<1>5. ToSet(p) \cap ToSet(q) = {} /\ (ToSet(p) \cup ToSet(q)) \cap ToSet(r) = {}
      /\ (ToSet(p) \cup ToSet(q) \cup ToSet(r)) \cap ToSet(t) = {}
  BY <1>3 DEF Given, GraphInputs, Present
<1>6. /\ p \o q \in Seq(Name) /\ NoRepeat(p \o q)
      /\ ToSet(p \o q) = ToSet(p) \cup ToSet(q)
  BY <1>3, <1>5, BothOnce
<1>7. /\ (p \o q) \o r \in Seq(Name) /\ NoRepeat((p \o q) \o r)
      /\ ToSet((p \o q) \o r) = ToSet(p) \cup ToSet(q) \cup ToSet(r)
  <2> DEFINE u == p \o q
  <2>1. u \in Seq(Name) /\ NoRepeat(u) /\ ToSet(u) = ToSet(p) \cup ToSet(q)
    BY <1>6
  <2> HIDE DEF u
  <2>2. ToSet(u) \cap ToSet(r) = {}
    BY <1>5, <2>1
  <2>3. u \o r \in Seq(Name) /\ NoRepeat(u \o r) /\ ToSet(u \o r) = ToSet(u) \cup ToSet(r)
    BY <1>3, <2>1, <2>2, BothOnce
  <2> QED
    BY <2>1, <2>3 DEF u
<1>8. /\ TensorIds(g) \in Seq(Name) /\ NoRepeat(TensorIds(g))
      /\ ToSet(TensorIds(g)) = ToSet(p) \cup ToSet(q) \cup ToSet(r) \cup ToSet(t)
  <2> DEFINE u == (p \o q) \o r
  <2>1. u \in Seq(Name) /\ NoRepeat(u) /\ ToSet(u) = ToSet(p) \cup ToSet(q) \cup ToSet(r)
    BY <1>7
  <2>0. TensorIds(g) = u \o t
    BY <1>4
  <2> HIDE DEF u
  <2>2. ToSet(u) \cap ToSet(t) = {}
    BY <1>5, <2>1
  <2>3. u \o t \in Seq(Name) /\ NoRepeat(u \o t) /\ ToSet(u \o t) = ToSet(u) \cup ToSet(t)
    BY <1>3, <2>1, <2>2, BothOnce
  <2> QED
    BY <2>0, <2>1, <2>3
<1>9. ToSet(p) \cup ToSet(q) \cup ToSet(r) \cup ToSet(t) = AllNames(g)
  <2>1. ABSENT \notin GraphOutputs(g)
    <3>1. GraphOutputs(g) \in SUBSET Name
      BY <1>1 DEF GraphOutputs, ToSet
    <3> QED
      BY <3>1, NameAssumption
  <2> QED
    BY <1>3, <2>1 DEF AllNames, Given, Present
<1>10. ToSet(TensorIds(g)) \in SUBSET Name /\ IsFiniteSet(ToSet(TensorIds(g)))
  BY <1>8, RepeatsNothing
<1> QED
  BY <1>8, <1>9, <1>10

-----------------------------------------------------------------------------
(* Instructions and one round of the dead-code loop. *)

(* The positions of the nodes that are not constants. *)
RealNodes(g) == {i \in DOMAIN g.nodes : g.nodes[i].op # "Constant"}
(* The instructions for the nodes in K. *)
ProgramOf(g, K) ==
  [k \in DOMAIN Sublist(g.nodes, K) |-> Translate(Sublist(g.nodes, K)[k])]

(* What an instruction takes from its node. *)
LEMMA Translated ==
  ASSUME NEW g, OnnxModel(g), NEW i \in DOMAIN g.nodes
  PROVE  LET t == Translate(g.nodes[i])
         IN  /\ t \in Instruction /\ t.op = g.nodes[i].op
             /\ t.in = RuntimeInputs(g.nodes[i])
             /\ ToSet(t.in) \subseteq Present(g.nodes[i].in)
             /\ ToSet(t.out) = Present(g.nodes[i].out)
             /\ t.in \in Seq(Name) /\ t.out \in Seq(Name)
<1> DEFINE node == g.nodes[i]
           X == Name \cup {ABSENT}
           A == {k \in DOMAIN node.in : node.in[k] # ABSENT} \ ParamPositions(node)
           B == {k \in DOMAIN node.out : node.out[k] # ABSENT}
           t == Translate(node)
<1>1. /\ node \in Node /\ node.in \in Seq(X) /\ node.out \in Seq(X)
      /\ Present(node.in) = ToSet(node.in) \ {ABSENT}
  BY NodeTypes
<1>2. t = [op |-> node.op, in |-> Sublist(node.in, A), out |-> Sublist(node.out, B)]
      /\ RuntimeInputs(node) = Sublist(node.in, A)
  BY DEF Translate, RuntimeInputs
<1>3. node.op \in STRING
  BY <1>1 DEF Node
<1>4. A \in SUBSET DOMAIN node.in /\ \A k \in A : node.in[k] # ABSENT
  OBVIOUS
<1>5. B \in SUBSET DOMAIN node.out /\ \A k \in DOMAIN node.out : k \in B <=> node.out[k] # ABSENT
  OBVIOUS
<1> HIDE DEF node, A, B, t, X
<1>6. ASSUME NEW s \in Seq(X), NEW K \in SUBSET DOMAIN s, \A k \in K : s[k] # ABSENT
      PROVE  Sublist(s, K) \in Seq(Name) /\ ToSet(Sublist(s, K)) = {s[k] : k \in K}
  <2> DEFINE r == Sublist(s, K)
             n == Cardinality(K)
  <2>1. /\ n \in Nat /\ r \in Seq(X) /\ DOMAIN r = 1..n /\ Len(r) = n
        /\ ToSet(r) = {s[k] : k \in K}
    BY SublistOf
  <2> HIDE DEF r
  <2>2. \A j \in 1..n : r[j] \in X /\ r[j] \in ToSet(r)
    BY <2>1 DEF ToSet
  <2>3. \A j \in 1..n : r[j] \in Name
    BY <1>6, <2>1, <2>2 DEF X
  <2>4. r \in [1..n -> Name]
    BY <2>1, <2>3
  <2>5. r \in Seq(Name)
    BY <2>1, <2>4, AsSequence
  <2> QED
    BY <2>1, <2>5 DEF r
<1>7. /\ Sublist(node.in, A) \in Seq(Name)
      /\ ToSet(Sublist(node.in, A)) = {node.in[k] : k \in A}
  BY <1>1, <1>4, <1>6
<1>8. /\ Sublist(node.out, B) \in Seq(Name)
      /\ ToSet(Sublist(node.out, B)) = {node.out[k] : k \in B}
  BY <1>1, <1>5, <1>6
<1>9. {node.in[k] : k \in A} \subseteq Present(node.in)
  BY <1>1, <1>4 DEF ToSet
<1>10. {node.out[k] : k \in B} = Present(node.out)
  BY <1>5 DEF ToSet, Present
<1>11. t \in Instruction
  BY <1>2, <1>3, <1>7, <1>8 DEF Instruction
<1>12. t.op = node.op /\ t.in = Sublist(node.in, A) /\ t.out = Sublist(node.out, B)
  BY <1>2
<1>13. /\ t \in Instruction /\ t.op = node.op
       /\ t.in = RuntimeInputs(node)
       /\ ToSet(t.in) \subseteq Present(node.in)
       /\ ToSet(t.out) = Present(node.out)
       /\ t.in \in Seq(Name) /\ t.out \in Seq(Name)
  BY <1>2, <1>7, <1>8, <1>9, <1>10, <1>11, <1>12
<1> QED
  BY <1>13, Zenon DEF node, t

(* The instructions for a set of nodes, in the order of the nodes. *)
LEMMA ProgramIs ==
  ASSUME NEW g, OnnxModel(g), NEW K \in SUBSET DOMAIN g.nodes
  PROVE  /\ Cardinality(K) \in Nat /\ IsFiniteSet(K)
         /\ Lists(Ascending(K), Cardinality(K), K)
         /\ \A k \in 1..Cardinality(K) : Ascending(K)[k] \in K
         /\ DOMAIN ProgramOf(g, K) = 1..Cardinality(K) /\ Len(ProgramOf(g, K)) = Cardinality(K)
         /\ ProgramOf(g, K) \in Seq(Instruction)
         /\ \A k \in 1..Cardinality(K) :
              ProgramOf(g, K)[k] = Translate(g.nodes[Ascending(K)[k]])
<1> DEFINE s == Sublist(g.nodes, K)
           a == Ascending(K)
           n == Cardinality(K)
           p == ProgramOf(g, K)
<1>1. g.nodes \in Seq(Node)
  BY NodeTypes
<1>2. /\ n \in Nat /\ IsFiniteSet(K) /\ Lists(a, n, K)
      /\ DOMAIN s = 1..n
      /\ \A k \in 1..n : s[k] = g.nodes[a[k]]
  BY <1>1, SublistOf
<1>3. p = [k \in DOMAIN s |-> Translate(s[k])]
  BY DEF ProgramOf
<1> HIDE DEF s, a, n, p
<1>4. \A k \in 1..n : a[k] \in K
  BY <1>2 DEF Lists
<1>5. \A k \in 1..n : p[k] = Translate(g.nodes[a[k]])
  BY <1>2, <1>3
<1>6. \A k \in 1..n : p[k] \in Instruction
  BY <1>4, <1>5, Translated
<1>7. p \in [1..n -> Instruction]
  BY <1>2, <1>3, <1>6
<1>8. p \in Seq(Instruction) /\ Len(p) = n
  BY <1>2, <1>7, AsSequence
<1> QED
  BY <1>2, <1>4, <1>5, <1>7, <1>8 DEF a, n, p

(* What the instructions for K consume, and which of them produce something. *)
LEMMA ProgramUses ==
  ASSUME NEW g, OnnxModel(g), NEW K \in SUBSET DOMAIN g.nodes
  PROVE  /\ Consumed(ProgramOf(g, K)) = UNION {ToSet(RuntimeInputs(g.nodes[i])) : i \in K}
         /\ UNION {ToSet(ProgramOf(g, K)[k].out) : k \in DOMAIN ProgramOf(g, K)}
              = UNION {Present(g.nodes[i].out) : i \in K}
<1> DEFINE a == Ascending(K)
           n == Cardinality(K)
           p == ProgramOf(g, K)
           In(i) == ToSet(RuntimeInputs(g.nodes[i]))
           Out(i) == Present(g.nodes[i].out)
<1>1. /\ n \in Nat /\ Lists(a, n, K) /\ DOMAIN p = 1..n
      /\ \A k \in 1..n : a[k] \in K /\ p[k] = Translate(g.nodes[a[k]])
  BY ProgramIs
<1>2. \A i \in K : /\ ToSet(Translate(g.nodes[i]).in) = In(i)
                   /\ ToSet(Translate(g.nodes[i]).out) = Out(i)
  BY Translated
<1> HIDE DEF a, n, p, In, Out
<1>3. \A k \in 1..n : a[k] \in K /\ ToSet(p[k].in) = In(a[k]) /\ ToSet(p[k].out) = Out(a[k])
  BY <1>1, <1>2
<1>4. \A i \in K : \E k \in 1..n : a[k] = i
  BY <1>1 DEF Lists
<1>5. UNION {ToSet(p[k].in) : k \in DOMAIN p} = UNION {In(i) : i \in K}
  BY <1>1, <1>3, <1>4
<1>6. UNION {ToSet(p[k].out) : k \in DOMAIN p} = UNION {Out(i) : i \in K}
  BY <1>1, <1>3, <1>4
<1> QED
  BY <1>5, <1>6 DEF Consumed, p, In, Out

(* The instructions for K whose outputs are of use, as LiveOf, and their nodes. *)
LiveOf(g, prog) ==
  {k \in DOMAIN prog : ToSet(prog[k].out) \cap (Consumed(prog) \cup GraphOutputs(g)) # {}}
Useful(g, K) ==
  {i \in K : Present(g.nodes[i].out)
               \cap (GraphOutputs(g) \cup UNION {ToSet(RuntimeInputs(g.nodes[j])) : j \in K}) # {}}

(* A round of the dead-code loop keeps the nodes that are of use. *)
LEMMA RoundKeepsUseful ==
  ASSUME NEW g, OnnxModel(g), NEW K \in SUBSET DOMAIN g.nodes
  PROVE  LET p == ProgramOf(g, K)
         IN  /\ Sublist(p, LiveOf(g, p)) = ProgramOf(g, Useful(g, K))
             /\ Useful(g, K) \in SUBSET K
             /\ Cardinality(LiveOf(g, p)) = Len(p) <=> Useful(g, K) = K
<1> DEFINE a == Ascending(K)
           n == Cardinality(K)
           p == ProgramOf(g, K)
           L == LiveOf(g, p)
           M == Useful(g, K)
           U == (UNION {ToSet(RuntimeInputs(g.nodes[j])) : j \in K}) \cup GraphOutputs(g)
<1>1. /\ n \in Nat /\ Lists(a, n, K) /\ DOMAIN p = 1..n /\ IsFiniteSet(K)
      /\ \A k \in 1..n : a[k] \in K /\ p[k] = Translate(g.nodes[a[k]])
      /\ p \in Seq(Instruction) /\ Len(p) = n
  BY ProgramIs
<1>2. Consumed(p) \cup GraphOutputs(g) = U
  <2>1. Consumed(p) = UNION {ToSet(RuntimeInputs(g.nodes[j])) : j \in K}
    BY ProgramUses
  <2> HIDE DEF p
  <2> QED
    BY <2>1
<1>3. \A i \in K : ToSet(Translate(g.nodes[i]).out) = Present(g.nodes[i].out)
  BY Translated
<1>4. \A i : i \in M <=> i \in K /\ Present(g.nodes[i].out) \cap U # {}
  BY DEF Useful
<1>5. L = {k \in 1..n : ToSet(p[k].out) \cap U # {}}
  BY <1>1, <1>2 DEF LiveOf
<1> HIDE DEF a, n, p, L, M, U
<1>6. \A k \in 1..n : k \in L <=> a[k] \in M
  BY <1>1, <1>3, <1>4, <1>5
<1>7. \A i \in K : \E k \in 1..n : a[k] = i
  BY <1>1 DEF Lists
<1>8. Positions(L, n) /\ L \in SUBSET DOMAIN p
  BY <1>1, <1>5 DEF Positions
<1>9. Through(a, L) = M
  BY <1>4, <1>5, <1>6, <1>7 DEF Through
<1>10. /\ M \in SUBSET K /\ IsFiniteSet(M) /\ Cardinality(M) = Cardinality(L)
       /\ \A k \in 1..Cardinality(L) : Ascending(M)[k] = a[Ascending(L)[k]]
  BY <1>1, <1>8, <1>9, AscendingTwice
<1>11. M \in SUBSET DOMAIN g.nodes
  BY <1>10
<1> DEFINE q == Sublist(p, L)
           r == ProgramOf(g, M)
           m == Cardinality(L)
           b == Ascending(L)
<1>12. /\ m \in Nat /\ DOMAIN q = 1..m /\ Lists(b, m, L) /\ q \in Seq(Instruction)
       /\ \A k \in 1..m : q[k] = p[b[k]]
  BY <1>1, <1>8, SublistOf
<1>13. /\ DOMAIN r = 1..m /\ r \in Seq(Instruction)
       /\ \A k \in 1..m : r[k] = Translate(g.nodes[a[b[k]]])
  <2>1. /\ DOMAIN r = 1..Cardinality(M) /\ r \in Seq(Instruction)
        /\ \A k \in 1..Cardinality(M) : r[k] = Translate(g.nodes[Ascending(M)[k]])
    BY <1>11, ProgramIs
  <2> HIDE DEF r
  <2> QED
    BY <1>10, <2>1
<1> HIDE DEF q, r, m, b
<1>14. \A k \in 1..m : b[k] \in 1..n
  BY <1>5, <1>12 DEF Lists
<1>15. \A k \in 1..m : q[k] = r[k]
  BY <1>1, <1>12, <1>13, <1>14
<1>16. q = r
  <2>1. q = [k \in DOMAIN q |-> q[k]] /\ r = [k \in DOMAIN r |-> r[k]]
    BY <1>12, <1>13
  <2> QED
    BY <1>12, <1>13, <1>15, <2>1
<1>17. Cardinality(L) = n <=> M = K
  <2>1. M = K => Cardinality(M) = n
    BY DEF n
  <2>2. Cardinality(K) = Cardinality(M) => K = M
    BY <1>1, <1>10, FS_Subset
  <2> QED
    BY <1>10, <2>1, <2>2 DEF n
<1> QED
  BY <1>1, <1>10, <1>16, <1>17 DEF p, L, M, q, r

-----------------------------------------------------------------------------
(* The dead-code loop ends with the needed nodes. *)

(* What every round of the dead-code loop keeps. *)
Pruning(g, K) == K \in SUBSET RealNodes(g) /\ SuppliesItself(g, K)

(* The nodes that compute one of some names. *)
LEMMA ComputingIs ==
  ASSUME NEW g, NEW N
  PROVE  /\ Computing(g, N) \in SUBSET RealNodes(g)
         /\ \A i : i \in Computing(g, N) <=>
              /\ i \in RealNodes(g)
              /\ Present(g.nodes[i].out) \cap N # {}
  BY DEF Computing, RealNodes

(* The loop begins with all nodes but the constants. *)
LEMMA PruningStarts ==
  ASSUME NEW g
  PROVE  Pruning(g, RealNodes(g)) /\ RealNodes(g) \in SUBSET DOMAIN g.nodes
<1>1. \A N : Computing(g, N) \in SUBSET RealNodes(g)
  BY ComputingIs
<1>2. SuppliesItself(g, RealNodes(g))
  BY <1>1 DEF SuppliesItself
<1> QED
  BY <1>2 DEF Pruning, RealNodes

(* A round removes no node that supplies another one or an output. *)
LEMMA PruningStep ==
  ASSUME NEW g, NEW K, Pruning(g, K)
  PROVE  Pruning(g, Useful(g, K))
<1> DEFINE M == Useful(g, K)
           In(i) == ToSet(RuntimeInputs(g.nodes[i]))
<1>1. /\ K \in SUBSET RealNodes(g)
      /\ Computing(g, GraphOutputs(g)) \subseteq K
      /\ \A i \in K : Computing(g, In(i)) \subseteq K
  BY DEF Pruning, SuppliesItself
<1>2. \A i : i \in M <=> i \in K /\ Present(g.nodes[i].out)
                                    \cap (GraphOutputs(g) \cup UNION {In(j) : j \in K}) # {}
  BY DEF Useful
<1>3. \A N, i : i \in Computing(g, N) => Present(g.nodes[i].out) \cap N # {}
  BY ComputingIs
<1> HIDE DEF M, In
<1>4. Computing(g, GraphOutputs(g)) \subseteq M
  BY <1>1, <1>2, <1>3
<1>5. \A i \in M : Computing(g, In(i)) \subseteq M
  BY <1>1, <1>2, <1>3
<1>6. M \in SUBSET RealNodes(g)
  BY <1>1, <1>2
<1> QED
  BY <1>4, <1>5, <1>6 DEF Pruning, SuppliesItself, M, In

(* The needed nodes supply themselves, and no set that does lacks one. *)
LEMMA NeededIsLeast ==
  ASSUME NEW g
  PROVE  /\ Pruning(g, Needed(g)) /\ Needed(g) \in SUBSET DOMAIN g.nodes
         /\ \A K : Pruning(g, K) => Needed(g) \in SUBSET K
<1> DEFINE In(i) == ToSet(RuntimeInputs(g.nodes[i]))
           R == RealNodes(g)
<1>1. \A i : i \in Needed(g) <=> /\ i \in DOMAIN g.nodes
                                 /\ \A S \in SUBSET DOMAIN g.nodes : SuppliesItself(g, S) => i \in S
  BY DEF Needed
<1>2. \A K : Pruning(g, K) => K \in SUBSET DOMAIN g.nodes /\ SuppliesItself(g, K)
  BY PruningStarts DEF Pruning
<1>3. \A K : Pruning(g, K) => Needed(g) \in SUBSET K
  BY <1>1, <1>2
<1>4. Needed(g) \in SUBSET R /\ R \in SUBSET DOMAIN g.nodes
  BY <1>3, PruningStarts
<1>5. \A N : Computing(g, N) \in SUBSET DOMAIN g.nodes
  BY <1>4, ComputingIs
<1>6. \A S : SuppliesItself(g, S) <=> /\ Computing(g, GraphOutputs(g)) \subseteq S
                                      /\ \A i \in S : Computing(g, In(i)) \subseteq S
  BY DEF SuppliesItself
<1> HIDE DEF R, In
<1>7. Computing(g, GraphOutputs(g)) \subseteq Needed(g)
  BY <1>1, <1>5, <1>6
<1>8. \A i \in Needed(g) : Computing(g, In(i)) \subseteq Needed(g)
  BY <1>1, <1>5, <1>6
<1>9. SuppliesItself(g, Needed(g))
  BY <1>6, <1>7, <1>8
<1> QED
  BY <1>3, <1>4, <1>9 DEF Pruning, R

(* What a computed name that node i reads comes from: a node before it. *)
LEMMA ReadsEarlier ==
  ASSUME NEW g, OnnxModel(g), StoredOrderValid(g), NEW i \in DOMAIN g.nodes,
         NEW n \in Present(g.nodes[i].in), NEW j \in DOMAIN g.nodes,
         n \in Present(g.nodes[j].out)
  PROVE  j < i /\ n \notin Given(g) /\ ProducersOf(g, n) = {j}
<1>1. j \in ProducersOf(g, n)
  BY DEF ProducersOf
<1>2. ProducersOf(g, n) = {j}
  BY <1>1, OneProducer
<1>3. n \notin Given(g)
  <2>1. PICK k \in DOMAIN g.nodes[j].out : g.nodes[j].out[k] = n /\ n # ABSENT
    BY DEF Present, ToSet
  <2>2. SingleAssignment(g)
    BY DEF OnnxModel
  <2>3. n \notin ToSet(g.inputs) \cup ToSet(g.inits)
    BY <2>1, <2>2 DEF SingleAssignment
  <2> QED
    BY <2>3 DEF Given, GraphInputs, Initializers
<1>4. PICK k \in ProducersOf(g, n) : k < i
  BY <1>3 DEF StoredOrderValid
<1> QED
  BY <1>2, <1>3, <1>4

(* When every node is of use, those that are left are needed. *)
LEMMA PruningEnds ==
  ASSUME NEW g, OnnxModel(g), StoredOrderValid(g), NEW K, Pruning(g, K), Useful(g, K) = K
  PROVE  K = Needed(g)
<1> DEFINE In(i) == ToSet(RuntimeInputs(g.nodes[i]))
           Out(i) == Present(g.nodes[i].out)
           L == K \ Needed(g)
           T == {Len(g.nodes) - i : i \in L}
<1>1. /\ Needed(g) \in SUBSET K /\ Needed(g) \in SUBSET RealNodes(g)
      /\ Computing(g, GraphOutputs(g)) \subseteq Needed(g)
      /\ \A i \in Needed(g) : Computing(g, In(i)) \subseteq Needed(g)
  BY NeededIsLeast DEF Pruning, SuppliesItself
<1>2. /\ K \in SUBSET RealNodes(g) /\ RealNodes(g) \in SUBSET DOMAIN g.nodes
      /\ DOMAIN g.nodes = 1..Len(g.nodes) /\ Len(g.nodes) \in Nat
  BY PruningStarts, NodeTypes DEF Pruning
<1>3. \A i \in K : Out(i) \cap (GraphOutputs(g) \cup UNION {In(j) : j \in K}) # {}
  BY DEF Useful
<1>4. \A N, i : i \in Computing(g, N) <=> i \in RealNodes(g) /\ Out(i) \cap N # {}
  BY ComputingIs
<1>5. \A i \in DOMAIN g.nodes : In(i) \subseteq Present(g.nodes[i].in)
  <2>1. \A i \in DOMAIN g.nodes :
          /\ Translate(g.nodes[i]).in = RuntimeInputs(g.nodes[i])
          /\ ToSet(Translate(g.nodes[i]).in) \subseteq Present(g.nodes[i].in)
    BY Translated
  <2> QED
    BY <2>1
<1> HIDE DEF In
<1>6. ASSUME NEW i \in L, \A j \in L : j <= i PROVE FALSE
  <2>1. i \in K /\ i \notin Needed(g) /\ i \in DOMAIN g.nodes
    BY <1>2
  <2>2. Out(i) \cap GraphOutputs(g) = {}
    BY <1>1, <1>2, <1>4, <2>1
  <2>3. PICK j \in K : Out(i) \cap In(j) # {}
    BY <1>3, <2>1, <2>2
  <2>4. PICK n \in Out(i) : n \in In(j)
    BY <2>3
  <2>5. j \in DOMAIN g.nodes /\ n \in Present(g.nodes[j].in)
    BY <1>2, <1>5, <2>4
  <2>6. i < j
    BY <2>1, <2>4, <2>5, ReadsEarlier
  <2>7. j \notin L
    BY <1>2, <1>6, <2>1, <2>5, <2>6
  <2>8. j \in Needed(g)
    BY <2>7
  <2>9. i \in Computing(g, In(j))
    BY <1>2, <1>4, <2>1, <2>4
  <2> QED
    BY <1>1, <2>1, <2>8, <2>9
<1>7. ASSUME L # {} PROVE FALSE
  <2>1. T \in SUBSET Nat /\ T # {}
    BY <1>2, <1>7
  <2>2. PICK t \in T : \A u \in T : t <= u
    BY <2>1, LeastOf
  <2>3. PICK i \in L : t = Len(g.nodes) - i
    BY <2>2
  <2>4. \A j \in L : Len(g.nodes) - i <= Len(g.nodes) - j
    BY <2>2, <2>3
  <2>5. \A j \in L : j <= i
    BY <1>2, <2>4
  <2> QED
    BY <1>6, <2>5
<1> QED
  BY <1>1, <1>7
=============================================================================
