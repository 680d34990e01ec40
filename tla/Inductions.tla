----------------------------- MODULE Inductions -----------------------------
(***************************************************************************)
(* Induction on numbers and recursion along them, stated with sets and     *)
(* functions instead of predicates, and what follows for the recursive     *)
(* definitions of the models: sums and concatenations.                     *)
(***************************************************************************)
EXTENDS Integers, Sequences, SequencesExt, SequenceTheorems, WellFoundedInduction, TLAPS

(* Every nonempty set of natural numbers has a least element. *)
LEMMA LeastOf ==
  ASSUME NEW T \in SUBSET Nat, T # {}
  PROVE  \E n \in T : \A m \in T : n <= m
<1> DEFINE R == OpToRel(<, Nat)
<1>1. IsWellFoundedOn(R, Nat)
  BY NatLessThanWellFounded
<1>2. \A x, y \in Nat : x < y => <<x, y>> \in R
  BY DEF OpToRel
<1> HIDE DEF R
<1>3. PICK x \in T : \A y \in T : ~(<<y, x>> \in R)
  BY <1>1, WFMin
<1>4. ASSUME NEW y \in T
      PROVE  x <= y
  <2>1. x \in Nat /\ y \in Nat /\ ~(y < x)
    BY <1>2, <1>3
  <2> QED
    BY <2>1
<1> QED
  BY <1>4

(* What holds at 0 and is handed on from each number to the next holds up to n. *)
LEMMA InductTo ==
  ASSUME NEW n \in Nat, NEW S, 0 \in S, \A k \in 0..n - 1 : k \in S => k + 1 \in S
  PROVE  \A k \in 0..n : k \in S
<1> DEFINE T == {k \in 0..n : k \notin S}
<1> SUFFICES ASSUME T # {} PROVE FALSE
  OBVIOUS
<1>1. T \in SUBSET Nat
  OBVIOUS
<1>2. PICK k \in T : \A m \in T : k <= m
  BY <1>1, LeastOf
<1>3. k \in 0..n /\ k # 0
  OBVIOUS
<1>4. k - 1 \in 0..n - 1 /\ k - 1 \in 0..n /\ ~(k <= k - 1) /\ (k - 1) + 1 = k
  BY <1>3
<1>5. k - 1 \in S
  BY <1>2, <1>4
<1>6. k \in S
  BY <1>4, <1>5
<1> QED
  BY <1>6

(* What holds at 0 and is handed on from each number to the next always holds. *)
LEMMA Induct ==
  ASSUME NEW S, 0 \in S, \A k \in Nat : k \in S => k + 1 \in S
  PROVE  \A k \in Nat : k \in S
<1> SUFFICES ASSUME NEW n \in Nat PROVE n \in S
  OBVIOUS
<1>1. \A k \in 0..n - 1 : k \in S => k + 1 \in S
  OBVIOUS
<1>2. \A k \in 0..n : k \in S
  BY <1>1, InductTo
<1> QED
  BY <1>2

(* The sequence of values v, G[1][v], G[2][G[1][v]], ... up to number n. *)
Chain(n, v, G) == CHOOSE s : s = [k \in 0..n |-> IF k = 0 THEN v ELSE G[k][s[k - 1]]]

(* The chain exists, starts at v, and each value is the step applied to the one before. *)
LEMMA Recursion ==
  ASSUME NEW n \in Nat, NEW V, NEW v \in V, NEW G,
         \A k \in 1..n : \A x \in V : G[k][x] \in V
  PROVE  /\ Chain(n, v, G) \in [0..n -> V]
         /\ Chain(n, v, G)[0] = v
         /\ \A k \in 1..n : Chain(n, v, G)[k] = G[k][Chain(n, v, G)[k - 1]]
<1> DEFINE Upto(m, s) == s[0] = v /\ \A k \in 1..m : s[k] = G[k][s[k - 1]]
           S == {m \in 0..n : \E s \in [0..m -> V] : Upto(m, s)}
<1>1. 0 \in S
  <2> DEFINE s == [k \in 0..0 |-> v]
  <2>1. s \in [0..0 -> V] /\ Upto(0, s)
    OBVIOUS
  <2>2. 0 \in 0..n
    OBVIOUS
  <2> HIDE DEF Upto
  <2> QED
    BY <2>1, <2>2
<1>2. ASSUME NEW m \in 0..n - 1, m \in S
      PROVE  m + 1 \in S
  <2>1. PICK s \in [0..m -> V] : Upto(m, s)
    BY <1>2
  <2> DEFINE t == [k \in 0..m + 1 |-> IF k = m + 1 THEN G[m + 1][s[m]] ELSE s[k]]
  <2>2. m + 1 \in 1..n /\ m + 1 \in 0..n
    OBVIOUS
  <2>3. t \in [0..m + 1 -> V]
    BY <2>2
  <2>4. t[0] = v
    BY <2>1
  <2>5. ASSUME NEW k \in 1..m + 1
        PROVE  t[k] = G[k][t[k - 1]]
    <3>1. CASE k = m + 1
      <4>1. t[k] = G[m + 1][s[m]] /\ t[k - 1] = s[m]
        BY <3>1
      <4> QED
        BY <3>1, <4>1
    <3>2. CASE k \in 1..m
      <4>1. t[k] = s[k] /\ t[k - 1] = s[k - 1]
        BY <3>2
      <4> QED
        BY <2>1, <3>2, <4>1
    <3> QED
      BY <3>1, <3>2
  <2> QED
    BY <2>2, <2>3, <2>4, <2>5
<1>3. n \in 0..n
  OBVIOUS
<1> HIDE DEF S
<1>4. n \in S
  BY <1>1, <1>2, <1>3, InductTo
<1> DEFINE Fits(s) == s = [k \in 0..n |-> IF k = 0 THEN v ELSE G[k][s[k - 1]]]
           c == Chain(n, v, G)
<1>5. \E s : Fits(s)
  <2>1. PICK s \in [0..n -> V] : Upto(n, s)
    BY <1>4 DEF S
  <2>2. s = [k \in 0..n |-> s[k]]
    OBVIOUS
  <2>3. \A k \in 0..n : s[k] = IF k = 0 THEN v ELSE G[k][s[k - 1]]
    BY <2>1
  <2> QED
    BY <2>2, <2>3
<1>6. c = CHOOSE s : Fits(s)
  BY DEF Chain
<1> HIDE DEF c
<1>7. Fits(c)
  BY <1>5, <1>6
<1>8. c[0] = v /\ \A k \in 1..n : c[k] = G[k][c[k - 1]]
  BY <1>7
<1> DEFINE T == {k \in 0..n : c[k] \in V}
<1>9. \A k \in 0..n : k \in T
  <2>1. 0 \in T
    BY <1>8
  <2>2. ASSUME NEW k \in 0..n - 1, k \in T PROVE k + 1 \in T
    <3>1. k + 1 \in 1..n /\ k + 1 \in 0..n /\ (k + 1) - 1 = k
      OBVIOUS
    <3>2. c[k + 1] = G[k + 1][c[k]]
      BY <1>8, <3>1
    <3> QED
      BY <2>2, <3>1, <3>2
  <2> HIDE DEF T
  <2> QED
    BY <2>1, <2>2, InductTo
<1>10. c \in [0..n -> V]
  BY <1>7, <1>9
<1> QED
  BY <1>8, <1>10 DEF c

(* A function on 1..n is a sequence of length n. *)
LEMMA AsSequence ==
  ASSUME NEW n \in Nat, NEW S, NEW q \in [1..n -> S]
  PROVE  q \in Seq(S) /\ Len(q) = n
<1>1. q \in Seq(S)
  OBVIOUS
<1>2. DOMAIN q = 1..Len(q) /\ Len(q) \in Nat
  BY <1>1, LenProperties
<1>3. 1..n = 1..Len(q)
  BY <1>2
<1> QED
  BY <1>1, <1>2, <1>3

(* Where the elements of a concatenation are. *)
IsConcat(w, s, t) ==
  /\ Len(w) = Len(s) + Len(t)
  /\ \A i \in 1..Len(s) : w[i] = s[i]
  /\ \A i \in 1..Len(t) : w[Len(s) + i] = t[i]

(* The elements of a concatenation of two sequences. *)
LEMMA Concatenated ==
  ASSUME NEW S, NEW s \in Seq(S), NEW t \in Seq(S)
  PROVE  s \o t \in Seq(S) /\ IsConcat(s \o t, s, t)
<1>1. /\ s \o t \in Seq(S) /\ Len(s \o t) = Len(s) + Len(t)
      /\ Len(s) \in Nat /\ Len(t) \in Nat
      /\ \A i \in 1..Len(s) + Len(t) :
           (s \o t)[i] = IF i <= Len(s) THEN s[i] ELSE t[i - Len(s)]
  BY ConcatProperties
<1> DEFINE a == Len(s)
           b == Len(t)
           u(i) == (s \o t)[i]
<1> HIDE DEF a, b, u
<1>2. /\ a \in Nat /\ b \in Nat
      /\ \A i \in 1..a + b : u(i) = IF i <= a THEN s[i] ELSE t[i - a]
  BY <1>1 DEF a, b, u
<1>3. \A i \in 1..a : u(i) = s[i]
  BY <1>2
<1>4. ASSUME NEW i \in 1..b PROVE u(a + i) = t[i]
  <2>1. a + i \in 1..a + b /\ ~(a + i <= a) /\ a + i - a = i
    BY <1>2
  <2> QED
    BY <1>2, <2>1
<1> QED
  BY <1>1, <1>3, <1>4 DEF a, b, u, IsConcat

(* The concatenations of the first parts of q. *)
Joined(n, q) == CHOOSE t : t = [k \in 1..n |-> IF k = 1 THEN q[k] ELSE t[k - 1] \o q[k]]

(* The recursion that the concatenations satisfy. *)
Joins(t, n, q) ==
  t[1] = q[1] /\ \A k \in 1..n - 1 : t[k + 1] = t[k] \o q[k + 1]

(* FlattenSeq, which folds from the right end, is the last of these concatenations. *)
LEMMA FlattenSteps ==
  ASSUME NEW n \in Nat \ {0}, NEW X, NEW q \in [1..n -> Seq(X)]
  PROVE  /\ Joined(n, q) \in [1..n -> Seq(X)]
         /\ Joins(Joined(n, q), n, q)
         /\ FlattenSeq(q) = Joined(n, q)[n]
<1> DEFINE Flat(t) == t = [k \in 1..n |-> IF k = 1 THEN q[k] ELSE t[k - 1] \o q[k]]
           V == Seq(X)
           v == q[1]
           G == [k \in 1..n - 1 |-> [x \in V |-> x \o q[k + 1]]]
           d == Chain(n - 1, v, G)
           c == Joined(n, q)
<1>0. c = CHOOSE t : Flat(t)
  BY DEF Joined
<1>1. Len(q) = n
  BY AsSequence
<1>2. FlattenSeq(q) = c[n]
  BY <1>1 DEF FlattenSeq, Joined
<1>3. v \in V /\ \A k \in 1..n - 1 : \A x \in V : G[k][x] = x \o q[k + 1] /\ G[k][x] \in V
  <2>1. ASSUME NEW k \in 1..n - 1, NEW x \in V
        PROVE  G[k][x] = x \o q[k + 1] /\ G[k][x] \in V
    <3>1. q[k + 1] \in Seq(X)
      OBVIOUS
    <3> QED
      BY <3>1
  <2> QED
    BY <2>1
<1> HIDE DEF V, G, v, c
<1>4. n - 1 \in Nat
  OBVIOUS
<1>4a. v \in V /\ \A k \in 1..n - 1 : \A x \in V : G[k][x] \in V
  BY <1>3
<1>5. d \in [0..n - 1 -> V] /\ d[0] = v /\ \A k \in 1..n - 1 : d[k] = G[k][d[k - 1]]
  BY <1>4a, <1>4, Recursion
<1> HIDE DEF d
<1> DEFINE t == [k \in 1..n |-> d[k - 1]]
<1>6. \A k \in 1..n : t[k] = d[k - 1] /\ t[k] \in V
  BY <1>5
<1>7. Flat(t)
  <2>1. ASSUME NEW k \in 1..n PROVE t[k] = IF k = 1 THEN q[k] ELSE t[k - 1] \o q[k]
    <3>1. CASE k = 1
      BY <1>5, <1>6, <3>1 DEF v
    <3>2. CASE k # 1
      <4>1. k - 1 \in 1..n - 1 /\ k - 1 \in 1..n /\ (k - 1) + 1 = k
        BY <3>2
      <4>2. t[k] = d[k - 1] /\ t[k - 1] = d[(k - 1) - 1] /\ d[(k - 1) - 1] \in V
        BY <1>6, <4>1
      <4>3. d[k - 1] = G[k - 1][d[(k - 1) - 1]]
        BY <1>5, <4>1
      <4>4. G[k - 1][d[(k - 1) - 1]] = d[(k - 1) - 1] \o q[(k - 1) + 1]
        BY <1>3, <4>1, <4>2
      <4> QED
        BY <3>2, <4>1, <4>2, <4>3, <4>4
    <3> QED
      BY <3>1, <3>2
  <2> QED
    BY <2>1
<1> HIDE DEF t
<1>8. Flat(c)
  BY <1>0, <1>7
<1>9. c[1] = q[1] /\ \A k \in 1..n - 1 : c[k + 1] = c[k] \o q[k + 1]
  <2>1. c[1] = q[1]
    BY <1>8
  <2>2. ASSUME NEW k \in 1..n - 1 PROVE c[k + 1] = c[k] \o q[k + 1]
    <3>1. k + 1 \in 1..n /\ k + 1 # 1 /\ (k + 1) - 1 = k
      OBVIOUS
    <3> QED
      BY <1>8, <3>1
  <2> QED
    BY <2>1, <2>2
<1> DEFINE S == {k \in 0..n - 1 : c[k + 1] \in Seq(X)}
<1>10. \A k \in 0..n - 1 : k \in S
  <2>1. 0 \in S
    BY <1>9
  <2>2. ASSUME NEW k \in 0..(n - 1) - 1, k \in S PROVE k + 1 \in S
    <3>1. k + 1 \in 1..n - 1 /\ k + 1 \in 0..n - 1 /\ (k + 1) + 1 \in 1..n
      OBVIOUS
    <3>2. c[(k + 1) + 1] = c[k + 1] \o q[(k + 1) + 1]
      BY <1>9, <3>1
    <3>3. c[k + 1] \in Seq(X) /\ q[(k + 1) + 1] \in Seq(X)
      BY <2>2, <3>1
    <3>4. c[k + 1] \o q[(k + 1) + 1] \in Seq(X)
      BY <3>3, ConcatProperties
    <3> QED
      BY <3>1, <3>2, <3>4
  <2> HIDE DEF S
  <2> QED
    BY <1>4, <2>1, <2>2, InductTo
<1>11. ASSUME NEW k \in 1..n PROVE c[k] \in Seq(X)
  <2>1. k - 1 \in 0..n - 1 /\ (k - 1) + 1 = k
    OBVIOUS
  <2> QED
    BY <1>10, <2>1
<1>12. c = [k \in 1..n |-> c[k]]
  BY <1>8
<1>13. c \in [1..n -> Seq(X)]
  BY <1>11, <1>12
<1> QED
  BY <1>2, <1>9, <1>13 DEF c, Joins

(* Where the elements of a concatenation are, when all parts but the last have
   the same length. *)
Even(q, n, L) == \A k \in 1..n - 1 : Len(q[k]) = L
Placed(w, q, n, L) ==
  \A m \in 1..n : \A x \in 1..Len(q[m]) :
    (m - 1) * L + x \in 1..Len(w) /\ w[(m - 1) * L + x] = q[m][x]

(* Element x of part m of a concatenation is at (m - 1) * L + x. *)
LEMMA FlattenAt ==
  ASSUME NEW n \in Nat \ {0}, NEW X, NEW q \in [1..n -> Seq(X)], NEW L \in Nat, Even(q, n, L)
  PROVE  /\ FlattenSeq(q) \in Seq(X)
         /\ Len(FlattenSeq(q)) = (n - 1) * L + Len(q[n])
         /\ Placed(FlattenSeq(q), q, n, L)
<1>0. \A k \in 1..n - 1 : Len(q[k]) = L
  BY DEF Even
<1> DEFINE t == Joined(n, q)
<1>a. t \in [1..n -> Seq(X)]
  BY FlattenSteps
<1>b. Joins(t, n, q)
  BY FlattenSteps
<1>d. FlattenSeq(q) = t[n]
  BY FlattenSteps
<1>1. /\ t \in [1..n -> Seq(X)] /\ t[1] = q[1]
      /\ \A k \in 1..n - 1 : t[k + 1] = t[k] \o q[k + 1]
      /\ FlattenSeq(q) = t[n]
  BY <1>a, <1>b, <1>d DEF Joins
<1> HIDE DEF t
<1> DEFINE Holds(k) == /\ Len(t[k]) = (k - 1) * L + Len(q[k])
                       /\ \A m \in 1..k : \A x \in 1..Len(q[m]) :
                            /\ (m - 1) * L + x \in 1..Len(t[k])
                            /\ t[k][(m - 1) * L + x] = q[m][x]
           S == {k \in 0..n - 1 : Holds(k + 1)}
<1>2. 0 \in S
  <2>1. 0 * L = 0
    OBVIOUS
  <2>2. Len(q[1]) \in Nat /\ 0 \in 0..n - 1 /\ 0 + 1 = 1 /\ 1 - 1 = 0
    OBVIOUS
  <2>3. Holds(1)
    <3>1. ASSUME NEW m \in 1..1, NEW x \in 1..Len(q[m])
          PROVE  /\ (m - 1) * L + x \in 1..Len(t[1])
                 /\ t[1][(m - 1) * L + x] = q[m][x]
      <4>1. m = 1
        OBVIOUS
      <4>2. (m - 1) * L + x = x
        BY <2>1, <2>2, <4>1
      <4> QED
        BY <1>1, <4>1, <4>2
    <3>2. Len(t[1]) = (1 - 1) * L + Len(q[1])
      BY <1>1, <2>1, <2>2
    <3> QED
      BY <3>1, <3>2
  <2> HIDE DEF Holds
  <2> QED
    BY <2>2, <2>3
<1>3. ASSUME NEW i \in 0..(n - 1) - 1, i \in S PROVE i + 1 \in S
  <2> DEFINE k == i + 1
  <2>1. k \in 1..n - 1 /\ k + 1 \in 1..n /\ i + 1 \in 0..n - 1
    OBVIOUS
  <2>2. Holds(k)
    BY <1>3
  <2>3a. t[k] \in Seq(X)
    BY <1>1, <2>1
  <2>3b. q[k] \in Seq(X) /\ q[k + 1] \in Seq(X)
    BY <2>1
  <2>3c. t[k + 1] = t[k] \o q[k + 1]
    BY <1>1, <2>1
  <2>3d. Len(q[k]) = L
    BY <1>0, <2>1
  <2>3. /\ t[k] \in Seq(X) /\ q[k] \in Seq(X) /\ q[k + 1] \in Seq(X)
        /\ t[k + 1] = t[k] \o q[k + 1] /\ Len(q[k]) = L
    BY <2>3a, <2>3b, <2>3c, <2>3d
  <2> HIDE DEF k
  <2>4. (k - 1) * L + L = k * L /\ k * L \in Nat
    BY <2>1
  <2>5. Len(t[k]) = k * L
    BY <2>2, <2>3, <2>4
  <2> DEFINE a == t[k]
             b == q[k + 1]
             w == t[k + 1]
             K == k * L
  <2>5a. a \in Seq(X) /\ b \in Seq(X) /\ w = a \o b /\ Len(a) = K
    BY <2>3, <2>5
  <2> HIDE DEF a, b, w, K
  <2>5c. Len(b) \in Nat
    BY <2>5a, LenProperties
  <2>5d. IsConcat(w, a, b)
    BY <2>5a, Concatenated
  <2>5b. /\ Len(w) = K + Len(b) /\ Len(b) \in Nat
         /\ \A y \in 1..K : w[y] = a[y]
         /\ \A y \in 1..Len(b) : w[K + y] = b[y]
    BY <2>5a, <2>5c, <2>5d DEF IsConcat
  <2>6. /\ Len(t[k + 1]) = k * L + Len(q[k + 1]) /\ Len(q[k + 1]) \in Nat
        /\ \A y \in 1..k * L : t[k + 1][y] = t[k][y]
        /\ \A y \in 1..Len(q[k + 1]) : t[k + 1][k * L + y] = q[k + 1][y]
    BY <2>5b DEF a, b, w, K
  <2>7. ASSUME NEW m \in 1..k + 1, NEW x \in 1..Len(q[m])
        PROVE  /\ (m - 1) * L + x \in 1..Len(t[k + 1])
               /\ t[k + 1][(m - 1) * L + x] = q[m][x]
    <3>1. CASE m = k + 1
      <4>1. (m - 1) * L + x = k * L + x
        BY <2>1, <3>1
      <4>2. x \in 1..Len(q[k + 1])
        BY <3>1
      <4>3. k * L + x \in 1..k * L + Len(q[k + 1])
        BY <2>4, <2>6, <4>2
      <4>4. t[k + 1][k * L + x] = q[k + 1][x]
        BY <2>6, <4>2
      <4> QED
        BY <2>6, <3>1, <4>1, <4>3, <4>4
    <3>2. CASE m \in 1..k
      <4> DEFINE y == (m - 1) * L + x
      <4>1. y \in 1..Len(t[k]) /\ t[k][y] = q[m][x]
        BY <2>2, <3>2
      <4> HIDE DEF y
      <4>2. y \in 1..k * L
        BY <2>5, <4>1
      <4>3. y \in 1..Len(t[k + 1]) /\ t[k + 1][y] = t[k][y]
        BY <2>4, <2>6, <4>2
      <4> QED
        BY <4>1, <4>3 DEF y
    <3> QED
      BY <2>1, <3>1, <3>2
  <2>8. Holds(k + 1)
    <3>1. ((k + 1) - 1) * L = k * L
      BY <2>1
    <3> QED
      BY <2>6, <2>7, <3>1
  <2> HIDE DEF Holds
  <2> QED
    BY <2>1, <2>8 DEF k
<1>4. n - 1 \in Nat /\ n - 1 \in 0..n - 1 /\ (n - 1) + 1 = n
  OBVIOUS
<1> HIDE DEF S
<1>5. \A i \in 0..n - 1 : i \in S
  BY <1>2, <1>3, <1>4, InductTo
<1>6. n - 1 \in S
  BY <1>4, <1>5
<1>7. Holds(n)
  BY <1>4, <1>6 DEF S
<1> DEFINE w == FlattenSeq(q)
<1>8. w = t[n] /\ t[n] \in Seq(X)
  BY <1>1
<1> HIDE DEF w
<1>9. /\ w \in Seq(X) /\ Len(w) = (n - 1) * L + Len(q[n])
      /\ Placed(w, q, n, L)
  BY <1>7, <1>8, Zenon DEF Placed
<1> QED
  BY <1>9 DEF w
=============================================================================
