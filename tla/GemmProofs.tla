------------------------------ MODULE GemmProofs -----------------------------
(***************************************************************************)
(* Generated GEMM programs are accepted and exact, for every size, all     *)
(* data and every array size that the model's constants allow.             *)
(*                                                                         *)
(*   Sums         the partial sums that SumTo is defined with              *)
(*   Tiles        how the tiles of a dimension divide it                   *)
(*   Programs     which instruction is at which position of a program      *)
(*   Machine      what each instruction does to the simulated memories     *)
(*   Products     the array's rows are partial sums of the product         *)
(*   Places       what the memories hold at each place of a run            *)
(*   Collecting   the tiles stored so far make up a region of C            *)
(*   Driving      every instruction leads from a place to the next         *)
(*   Single tile  the same for the program of a size that fits the array   *)
(*   GEMM         the inductive invariant and what follows from it         *)
(*   Files        the words written decode to the programs                 *)
(*   Addresses    the plan meets every element of each matrix once         *)
(***************************************************************************)
EXTENDS TiledGemm, Inductions, FunctionTheorems, FiniteSetTheorems

-----------------------------------------------------------------------------
(* Sums, and tiles *)

(* The partial sums of f up to n, the function that SumTo is defined with. *)
Sums(f, n, s) == s = [k \in 0..n |-> IF k = 0 THEN 0 ELSE s[k - 1] + f[k - 1]]

(* The partial sums exist, and SumTo is the last of them. *)
LEMMA SumSteps ==
  ASSUME NEW n \in Nat, NEW f, \A k \in 0..n - 1 : f[k] \in Int
  PROVE  \E s \in [0..n -> Int] : Sums(f, n, s) /\ SumTo(f, n) = s[n]
<1> DEFINE G == [k \in 1..n |-> [x \in Int |-> x + f[k - 1]]]
           c == CHOOSE s : Sums(f, n, s)
<1>1. \A k \in 1..n : \A x \in Int : G[k][x] = x + f[k - 1] /\ f[k - 1] \in Int
  OBVIOUS
<1> HIDE DEF G
<1>2. \A k \in 1..n : \A x \in Int : G[k][x] \in Int
  BY <1>1
<1> DEFINE d == Chain(n, 0, G)
<1> DEFINE Z == Int
<1>a. 0 \in Z /\ \A k \in 1..n : \A x \in Z : G[k][x] \in Z
  BY <1>2
<1> HIDE DEF Z
<1>b. /\ d \in [0..n -> Z] /\ d[0] = 0
      /\ \A k \in 1..n : d[k] = G[k][d[k - 1]]
  BY <1>a, Recursion
<1> HIDE DEF d
<1>3. /\ d \in [0..n -> Int] /\ d[0] = 0
      /\ \A k \in 1..n : d[k] = G[k][d[k - 1]]
  BY <1>b DEF Z
<1>4. \A k \in 1..n : d[k] = d[k - 1] + f[k - 1]
  <2> SUFFICES ASSUME NEW k \in 1..n PROVE d[k] = d[k - 1] + f[k - 1]
    OBVIOUS
  <2>1. d[k - 1] \in Int
    BY <1>3
  <2> QED
    BY <1>1, <1>3, <2>1
<1>5. Sums(f, n, d)
  <2>1. d = [k \in 0..n |-> d[k]]
    BY <1>3
  <2>2. \A k \in 0..n : d[k] = IF k = 0 THEN 0 ELSE d[k - 1] + f[k - 1]
    BY <1>3, <1>4
  <2> QED
    BY <2>1, <2>2 DEF Sums
<1>6. Sums(f, n, c)
  BY <1>5
<1>7. SumTo(f, n) = c[n]
  BY DEF SumTo, Sums
<1> HIDE DEF c
<1>8. c[0] = 0 /\ \A k \in 1..n : c[k] = c[k - 1] + f[k - 1]
  BY <1>6 DEF Sums
<1> DEFINE T == {k \in 0..n : c[k] \in Int}
<1>9. \A k \in 0..n : k \in T
  <2>1. 0 \in T
    BY <1>8
  <2>2. ASSUME NEW k \in 0..n - 1, k \in T PROVE k + 1 \in T
    <3>1. k + 1 \in 1..n /\ k + 1 \in 0..n /\ (k + 1) - 1 = k
      OBVIOUS
    <3>2. c[k + 1] = c[k] + f[k]
      BY <1>8, <3>1
    <3> QED
      BY <2>2, <3>1, <3>2
  <2> HIDE DEF T
  <2> QED
    BY <2>1, <2>2, InductTo
<1>10. c \in [0..n -> Int]
  BY <1>6, <1>9 DEF Sums
<1> QED
  BY <1>6, <1>7, <1>10

(* Two solutions agree as far as both go. *)
LEMMA SumsAgree ==
  ASSUME NEW m \in Nat, NEW n \in Nat, NEW f, NEW g, NEW s, NEW t, Sums(f, m, s), Sums(g, n, t),
         m <= n, \A k \in 0..m - 1 : f[k] = g[k]
  PROVE  s[m] = t[m]
<1> DEFINE T == {k \in 0..m : s[k] = t[k]}
<1>0. /\ s[0] = 0 /\ \A k \in 1..m : s[k] = s[k - 1] + f[k - 1]
      /\ t[0] = 0 /\ \A k \in 1..m : t[k] = t[k - 1] + g[k - 1]
  BY DEF Sums
<1>1. 0 \in T
  BY <1>0
<1>2. ASSUME NEW k \in 0..m - 1, k \in T PROVE k + 1 \in T
  <2>1. k + 1 \in 1..m /\ k + 1 \in 0..m /\ (k + 1) - 1 = k
    OBVIOUS
  <2>2. s[k + 1] = s[k] + f[k] /\ t[k + 1] = t[k] + g[k]
    BY <1>0, <2>1
  <2> QED
    BY <1>2, <2>1, <2>2
<1> HIDE DEF T
<1>3. \A k \in 0..m : k \in T
  BY <1>1, <1>2, InductTo
<1>4. m \in T
  BY <1>3
<1> QED
  BY <1>4 DEF T

(* The empty sum. *)
LEMMA SumNone == ASSUME NEW f PROVE SumTo(f, 0) = 0
<1>0. 0 \in Nat /\ \A k \in 0..0 - 1 : f[k] \in Int
  OBVIOUS
<1>1. PICK s \in [0..0 -> Int] : Sums(f, 0, s) /\ SumTo(f, 0) = s[0]
  BY <1>0, SumSteps
<1> QED
  BY <1>1 DEF Sums

(* One term more. *)
LEMMA SumNext ==
  ASSUME NEW n \in Nat, NEW f, \A k \in 0..n : f[k] \in Int
  PROVE  SumTo(f, n) \in Int /\ SumTo(f, n + 1) = SumTo(f, n) + f[n]
<1>1. PICK s \in [0..n -> Int] : Sums(f, n, s) /\ SumTo(f, n) = s[n]
  BY SumSteps
<1>2. n + 1 \in Nat /\ \A k \in 0..(n + 1) - 1 : f[k] \in Int
  OBVIOUS
<1>3. PICK t \in [0..n + 1 -> Int] : Sums(f, n + 1, t) /\ SumTo(f, n + 1) = t[n + 1]
  BY <1>2, SumSteps
<1>4. s[n] = t[n]
  BY <1>1, <1>2, <1>3, SumsAgree
<1>5. t[n + 1] = t[n] + f[n]
  BY <1>3 DEF Sums
<1> QED
  BY <1>1, <1>3, <1>4, <1>5

(* A sum over an interval, term by term. *)
LEMMA SumSplit ==
  ASSUME NEW a \in Nat, NEW n \in Nat, NEW f, NEW g,
         \A k \in 0..a + n - 1 : f[k] \in Int, \A k \in 0..n - 1 : g[k] = f[a + k]
  PROVE  SumTo(f, a) \in Int /\ SumTo(f, a + n) = SumTo(f, a) + SumTo(g, n)
<1> DEFINE T == {m \in 0..n : /\ SumTo(f, a) \in Int /\ SumTo(g, m) \in Int
                              /\ SumTo(f, a + m) = SumTo(f, a) + SumTo(g, m)}
<1>1. 0 \in T
  <2>0. \A k \in 0..a - 1 : f[k] \in Int
    OBVIOUS
  <2>1. PICK s \in [0..a -> Int] : Sums(f, a, s) /\ SumTo(f, a) = s[a]
    BY <2>0, SumSteps
  <2> QED
    BY <2>1, SumNone
<1>2. ASSUME NEW m \in 0..n - 1, m \in T PROVE m + 1 \in T
  <2>1. \A k \in 0..m : g[k] = f[a + k] /\ f[a + k] \in Int
    OBVIOUS
  <2>2. SumTo(g, m) \in Int /\ SumTo(g, m + 1) = SumTo(g, m) + g[m]
    BY <2>1, SumNext
  <2>3. a + m \in Nat /\ \A k \in 0..a + m : f[k] \in Int
    OBVIOUS
  <2>4. SumTo(f, (a + m) + 1) = SumTo(f, a + m) + f[a + m]
    BY <2>3, SumNext
  <2>5. (a + m) + 1 = a + (m + 1) /\ m + 1 \in 0..n
    OBVIOUS
  <2>6. g[m] = f[a + m] /\ g[m] \in Int
    BY <2>1
  <2> QED
    BY <1>2, <2>2, <2>4, <2>5, <2>6
<1> HIDE DEF T
<1>3. \A m \in 0..n : m \in T
  BY <1>1, <1>2, InductTo
<1>4. n \in T
  BY <1>3
<1> QED
  BY <1>4 DEF T

(* A sum of integers is an integer. *)
LEMMA SumInt ==
  ASSUME NEW n \in Nat, NEW f, \A k \in 0..n - 1 : f[k] \in Int
  PROVE  SumTo(f, n) \in Int
<1>1. PICK s \in [0..n -> Int] : Sums(f, n, s) /\ SumTo(f, n) = s[n]
  BY SumSteps
<1> QED
  BY <1>1

(* Equal terms have equal sums. *)
LEMMA SumSame ==
  ASSUME NEW n \in Nat, NEW f, NEW g, \A k \in 0..n - 1 : f[k] \in Int /\ g[k] = f[k]
  PROVE  SumTo(g, n) = SumTo(f, n)
<1>1. SumTo(f, 0 + n) = SumTo(f, 0) + SumTo(g, n)
  BY SumSplit
<1>0. \A k \in 0..n - 1 : g[k] \in Int
  OBVIOUS
<1>2. SumTo(g, n) \in Int
  BY <1>0, SumInt
<1> QED
  BY <1>1, <1>2, SumNone

(* Zeros add nothing. *)
LEMMA SumOfZeros ==
  ASSUME NEW n \in Nat, NEW f, \A k \in 0..n - 1 : f[k] = 0
  PROVE  SumTo(f, n) = 0
<1>0. \A k \in 0..n - 1 : f[k] \in Int
  OBVIOUS
<1>1. PICK s \in [0..n -> Int] : Sums(f, n, s) /\ SumTo(f, n) = s[n]
  BY <1>0, SumSteps
<1>2. s[0] = 0 /\ \A k \in 1..n : s[k] = s[k - 1]
  <2>1. s[0] = 0 /\ \A k \in 1..n : s[k] = s[k - 1] + f[k - 1]
    BY <1>1 DEF Sums
  <2>2. ASSUME NEW k \in 1..n PROVE s[k] = s[k - 1]
    <3>1. k - 1 \in 0..n - 1
      OBVIOUS
    <3>2. f[k - 1] = 0
      BY <3>1
    <3>3. s[k - 1] \in Int /\ s[k] = s[k - 1] + f[k - 1]
      BY <2>1, <3>1
    <3> QED
      BY <3>2, <3>3
  <2> QED
    BY <2>1, <2>2
<1> DEFINE T == {k \in 0..n : s[k] = 0}
<1>3. 0 \in T
  BY <1>2
<1>4. ASSUME NEW k \in 0..n - 1, k \in T PROVE k + 1 \in T
  <2>1. k + 1 \in 1..n /\ k + 1 \in 0..n /\ (k + 1) - 1 = k
    OBVIOUS
  <2> QED
    BY <1>2, <1>4, <2>1
<1> HIDE DEF T
<1>5. \A k \in 0..n : k \in T
  BY <1>3, <1>4, InductTo
<1>6. n \in T
  BY <1>5
<1> QED
  BY <1>1, <1>6 DEF T

(* Padding with zeros changes no sum. *)
LEMMA SumPadded ==
  ASSUME NEW m \in Nat, NEW n \in Nat, m <= n, NEW f, NEW g,
         \A k \in 0..m - 1 : f[k] \in Int /\ g[k] = f[k], \A k \in m..n - 1 : g[k] = 0
  PROVE  SumTo(g, n) = SumTo(f, m)
<1> DEFINE h == [k \in 0..n - m - 1 |-> 0]
<1>1. n - m \in Nat /\ m + (n - m) = n
  OBVIOUS
<1>2. \A k \in 0..m + (n - m) - 1 : g[k] \in Int
  OBVIOUS
<1>3. \A k \in 0..(n - m) - 1 : h[k] = g[m + k] /\ h[k] = 0
  OBVIOUS
<1> HIDE DEF h
<1>4. SumTo(g, m) \in Int /\ SumTo(g, n) = SumTo(g, m) + SumTo(h, n - m)
  BY <1>1, <1>2, <1>3, SumSplit
<1>5. SumTo(h, n - m) = 0
  BY <1>1, <1>3, SumOfZeros
<1>6. SumTo(g, m) = SumTo(f, m)
  BY SumSame
<1> QED
  BY <1>4, <1>5, <1>6

(* What the provers need to know of division. *)
LEMMA Division ==
  ASSUME NEW x \in Nat, NEW y \in Nat \ {0}
  PROVE  x \div y \in Nat /\ y * (x \div y) <= x /\ x < y * (x \div y) + y
OBVIOUS

(* What they need to know of products of variables. *)
LEMMA Multiples ==
  /\ \A a, b \in Int : a * b \in Int /\ a * b = b * a /\ (a + 1) * b = a * b + b
                       /\ (a - 1) * b = a * b - b
  /\ \A a, b, c \in Nat : a <= b => a * c <= b * c
  /\ \A a, b \in Nat : a * b \in Nat
<1>1. \A a, b \in Int : a * b \in Int /\ a * b = b * a /\ (a + 1) * b = a * b + b
                       /\ (a - 1) * b = a * b - b
  OBVIOUS
<1>2. \A a, b, c \in Nat : a <= b => a * c <= b * c
  OBVIOUS
<1>3. \A a, b \in Nat : a * b \in Nat
  OBVIOUS
<1> QED
  BY <1>1, <1>2, <1>3

(* The array has a row. *)
LEMMA RowsPositive == P \in Nat \ {0} /\ Row = 0..P - 1
BY IsaAssumption DEF P, Row

(* The tiles of x cover it, and the last one holds something. *)
LEMMA TileBounds ==
  ASSUME NEW x \in Nat \ {0}
  PROVE  /\ CeilDiv(x, P) \in Nat \ {0}
         /\ x <= CeilDiv(x, P) * P
         /\ CeilDiv(x, P) * P < x + P
<1> DEFINE d == CeilDiv(x, P)
<1>1. P \in Nat \ {0}
  BY RowsPositive
<1> HIDE DEF P
<1>2. d \in Nat /\ P * d <= x + P - 1 /\ x + P - 1 < P * d + P
  BY <1>1, Division DEF CeilDiv
<1> HIDE DEF d
<1>3. d * P = P * d /\ P * d \in Nat /\ (d = 0 => P * d = 0)
  BY <1>1, <1>2
<1>4. d # 0 /\ x <= d * P /\ d * P < x + P
  BY <1>1, <1>2, <1>3
<1> QED
  BY <1>2, <1>4 DEF d

(* Tile t of x holds P elements, the last tile those that are left. *)
LEMMA TileParts ==
  ASSUME NEW x \in Nat \ {0}, NEW t \in Tiles(x)
  PROVE  /\ t \in Nat /\ t * P \in Nat /\ (t + 1) * P = t * P + P
         /\ InTile(x, t) \in 1..P /\ t * P + InTile(x, t) <= x
         /\ t + 1 < CeilDiv(x, P) => InTile(x, t) = P /\ t + 1 \in Tiles(x)
         /\ t + 1 = CeilDiv(x, P) => t * P + InTile(x, t) = x
<1> DEFINE d == CeilDiv(x, P)
           p == P
<1>1. p \in Nat \ {0} /\ d \in Nat \ {0} /\ x <= d * p /\ d * p < x + p
  BY RowsPositive, TileBounds
<1>2. t \in 0..d - 1 /\ InTile(x, t) = IF x - t * p < p THEN x - t * p ELSE p
  BY DEF Tiles, InTile
<1>3. Tiles(x) = 0..d - 1
  BY DEF Tiles
<1> HIDE DEF p, d
<1>4. t \in Nat /\ t * p \in Nat /\ (t + 1) * p = t * p + p /\ (t + 1) * p <= d * p
  BY <1>1, <1>2, Multiples
<1>5. t + 1 < d => (t + 2) * p <= d * p /\ (t + 2) * p = t * p + p + p
  BY <1>1, <1>2
<1>6. d * p \in Nat
  BY <1>1
<1>7. t * p < x
  BY <1>1, <1>4, <1>6
<1>8. InTile(x, t) \in 1..p /\ t * p + InTile(x, t) <= x
  BY <1>1, <1>2, <1>4, <1>7
<1>9. ASSUME t + 1 < d PROVE InTile(x, t) = p /\ t + 1 \in 0..d - 1
  BY <1>1, <1>2, <1>4, <1>5, <1>6, <1>9
<1>10. ASSUME t + 1 = d PROVE t * p + InTile(x, t) = x
  BY <1>1, <1>2, <1>4, <1>6, <1>10
<1> QED
  BY <1>3, <1>4, <1>8, <1>9, <1>10 DEF p, d

-----------------------------------------------------------------------------
(* Programs *)

(* What a program is made of. *)
Ins == [op : Op, src : Bank, dst : Bank, base : Base, addr : Int, len : Int, ctrl : Ctrl, imm : Int]
(* The tiles that a transfer can be bound to. *)
Tile == {NoTile} \cup {<<"weight", a, b>> : a, b \in Int} \cup {<<"act", a, b, c>> : a, b, c \in Int}
          \cup {<<"bias", a>> : a \in Int} \cup {<<"store", a, b>> : a, b \in Int}

(* An instruction of a program with the tile bound to it. *)
ProgramStep == [ins : Ins, tile : Tile]

(* Every instruction that the generator writes is a step of a program. *)
LEMMA StepsTyped ==
  /\ \A i \in {NOP, SWAP_WGT, END} : Do(i) \in ProgramStep
  /\ \A r \in Int : \A c \in Ctrl : Do(MATMUL(0, r, c)) \in ProgramStep
  /\ \A r \in Int : Do(VECTOR(0, r)) \in ProgramStep
  /\ \A l \in Int : /\ Do(LOAD_WGT(0, l)) \in ProgramStep /\ Do(LOAD_ACT(0, 0, l)) \in ProgramStep
                    /\ Do(LOAD_BIAS(0, l)) \in ProgramStep /\ Do(STORE(0, 0, l)) \in ProgramStep
  /\ \A kt, j \in Int : LoadWeights(kt, j) \in ProgramStep
  /\ \A i, r, kt \in Int : LoadRow(i, r, kt) \in ProgramStep
  /\ \A l, j \in Int : With(LOAD_BIAS(0, l), <<"bias", j>>) \in ProgramStep
  /\ \A l, i, j \in Int : With(STORE(0, 0, l), <<"store", i, j>>) \in ProgramStep
<1>1. \A i \in Ins : \A t \in Tile : Do(i) \in ProgramStep /\ With(i, t) \in ProgramStep
  BY DEF ProgramStep, Do, With, Tile
<1>2. /\ \A kt, j \in Int : <<"weight", kt, j>> \in Tile
      /\ \A i, r, kt \in Int : <<"act", i, r, kt>> \in Tile
      /\ \A j \in Int : <<"bias", j>> \in Tile
      /\ \A i, j \in Int : <<"store", i, j>> \in Tile
  BY DEF Tile
<1>3. NOP \in Ins /\ SWAP_WGT \in Ins /\ END \in Ins
  BY DEF NOP, SWAP_WGT, END, Blank, Ins, Op, Bank, Base, Ctrl
<1>4. ASSUME NEW r \in Int, NEW l \in Int
      PROVE  /\ VECTOR(0, r) \in Ins /\ LOAD_WGT(r, l) \in Ins /\ LOAD_ACT(0, r, l) \in Ins
             /\ LOAD_BIAS(r, l) \in Ins /\ STORE(0, r, l) \in Ins
             /\ \A c \in Ctrl : MATMUL(0, r, c) \in Ins
  <2>1. /\ {"VECTOR", "LOAD_WGT", "LOAD_ACT", "LOAD_BIAS", "STORE", "MATMUL"} \subseteq Op
        /\ 0 \in Bank /\ "NONE" \in Ctrl /\ 0 \in Base /\ 0 \in Int
    BY DEF Op, Bank, Base, Ctrl
  <2>2. VECTOR(0, r) \in Ins
    BY <2>1 DEF VECTOR, Blank, Ins
  <2>3. LOAD_WGT(r, l) \in Ins
    BY <2>1 DEF LOAD_WGT, Blank, Ins
  <2>4. LOAD_ACT(0, r, l) \in Ins
    BY <2>1 DEF LOAD_ACT, Blank, Ins
  <2>5. LOAD_BIAS(r, l) \in Ins
    BY <2>1 DEF LOAD_BIAS, Blank, Ins
  <2>6. STORE(0, r, l) \in Ins
    BY <2>1 DEF STORE, Blank, Ins
  <2>7. \A c \in Ctrl : MATMUL(0, r, c) \in Ins
    BY <2>1 DEF MATMUL, Blank, Ins
  <2> QED
    BY <2>2, <2>3, <2>4, <2>5, <2>6, <2>7
<1>5. P - 1 \in Int /\ 0 \in Int
  BY RowsPositive
<1>6. NoTile \in Tile
  BY DEF Tile
<1> HIDE DEF Ins, Tile, ProgramStep
<1>7. /\ \A i \in {NOP, SWAP_WGT, END} : Do(i) \in ProgramStep
      /\ \A r \in Int : \A c \in Ctrl : Do(MATMUL(0, r, c)) \in ProgramStep
      /\ \A r \in Int : Do(VECTOR(0, r)) \in ProgramStep
      /\ \A l \in Int : /\ Do(LOAD_WGT(0, l)) \in ProgramStep
                         /\ Do(LOAD_ACT(0, 0, l)) \in ProgramStep
                         /\ Do(LOAD_BIAS(0, l)) \in ProgramStep
                         /\ Do(STORE(0, 0, l)) \in ProgramStep
  BY <1>1, <1>3, <1>4, <1>5, <1>6
<1>8. /\ \A kt, j \in Int : LoadWeights(kt, j) \in ProgramStep
      /\ \A i, r, kt \in Int : LoadRow(i, r, kt) \in ProgramStep
  BY <1>1, <1>2, <1>4, <1>5 DEF LoadWeights, LoadRow
<1>9. /\ \A l, j \in Int : With(LOAD_BIAS(0, l), <<"bias", j>>) \in ProgramStep
      /\ \A l, i, j \in Int : With(STORE(0, 0, l), <<"store", i, j>>) \in ProgramStep
  BY <1>1, <1>2, <1>4, <1>5
<1> QED
  BY <1>7, <1>8, <1>9

(* The lengths of a reduction, a row of a tile and a full row tile. *)
KTiles(p) == CeilDiv(p.K, P)
ReductionLen(p) == IF OneWeightTile(p) THEN 2 ELSE 4 * KTiles(p)
RowLen(p) == ReductionLen(p) + 1
HeadLen(p) == IF OneWeightTile(p) THEN 4 ELSE 2

(* A size that GemmParams accepts. *)
IsSize(p) == p.M \in Nat \ {0} /\ p.K \in Nat \ {0} /\ p.N \in Nat \ {0}

(* The instructions of a reduction over the tiles of K, one by one. *)
ReductionSteps(p, j, i, r) ==
  LET red == Reduction(p, j, i, r)
  IN  /\ OneWeightTile(p) =>
           red[1] = LoadRow(i, r, 0) /\ red[2] = Do(MATMUL(0, r, "NONE"))
      /\ ~OneWeightTile(p) =>
           \A kt \in Tiles(p.K) :
             /\ red[4 * kt + 1] = LoadWeights(kt, j) /\ red[4 * kt + 2] = LoadRow(i, r, kt)
             /\ red[4 * kt + 3] = Do(SWAP_WGT)
             /\ red[4 * kt + 4] = Do(MATMUL(0, r, CtrlOf(p, kt)))

(* Reduction concatenates exactly these instructions. *)
LEMMA ReductionAt ==
  ASSUME NEW p, IsSize(p), NEW j \in Nat, NEW i \in Nat, NEW r \in Nat
  PROVE  /\ Reduction(p, j, i, r) \in Seq(ProgramStep)
         /\ Len(Reduction(p, j, i, r)) = ReductionLen(p)
         /\ ReductionSteps(p, j, i, r)
<1> DEFINE red == Reduction(p, j, i, r)
           X == ProgramStep
<1>1. CASE OneWeightTile(p)
  <2> DEFINE a == LoadRow(i, r, 0)
             b == Do(MATMUL(0, r, "NONE"))
  <2>1. red = <<a, b>>
    BY <1>1 DEF Reduction
  <2>2. a \in X /\ b \in X
    BY StepsTyped DEF Ctrl
  <2> HIDE DEF a, b, X
  <2>3. red \in Seq(X) /\ Len(red) = 2 /\ red[1] = a /\ red[2] = b
    BY <2>1, <2>2
  <2> QED
    BY <1>1, <2>3 DEF ReductionLen, ReductionSteps, a, b, X
<1>2. CASE ~OneWeightTile(p)
  <2> DEFINE n == CeilDiv(p.K, P)
             q == [t \in 1..n |-> <<LoadWeights(t - 1, j), LoadRow(i, r, t - 1), Do(SWAP_WGT),
                                    Do(MATMUL(0, r, CtrlOf(p, t - 1)))>>]
  <2>1. n \in Nat \ {0}
    BY TileBounds DEF IsSize
  <2>2. red = FlattenSeq(q)
    BY <1>2 DEF Reduction, Concat
  <2>3. ASSUME NEW t \in 1..n
        PROVE  /\ q[t] \in Seq(X) /\ Len(q[t]) = 4
               /\ q[t][1] = LoadWeights(t - 1, j) /\ q[t][2] = LoadRow(i, r, t - 1)
               /\ q[t][3] = Do(SWAP_WGT) /\ q[t][4] = Do(MATMUL(0, r, CtrlOf(p, t - 1)))
    <3> DEFINE a == LoadWeights(t - 1, j)
               b == LoadRow(i, r, t - 1)
               c == Do(SWAP_WGT)
               d == Do(MATMUL(0, r, CtrlOf(p, t - 1)))
    <3>1. t - 1 \in Int /\ CtrlOf(p, t - 1) \in Ctrl
      BY DEF CtrlOf, Ctrl
    <3>2. a \in X /\ b \in X /\ c \in X /\ d \in X
      BY <3>1, StepsTyped
    <3>3. q[t] = <<a, b, c, d>>
      OBVIOUS
    <3> HIDE DEF a, b, c, d, X, q
    <3>4. q[t] \in Seq(X) /\ Len(q[t]) = 4 /\ q[t][1] = a /\ q[t][2] = b /\ q[t][3] = c /\ q[t][4] = d
      BY <3>2, <3>3
    <3> QED
      BY <3>4 DEF a, b, c, d
  <2>4. q = [t \in 1..n |-> q[t]]
    OBVIOUS
  <2> HIDE DEF q, X
  <2>5. q \in [1..n -> Seq(X)]
    BY <2>3, <2>4
  <2>6. Even(q, n, 4)
    BY <2>1, <2>3 DEF Even
  <2> HIDE DEF n
  <2>7. /\ FlattenSeq(q) \in Seq(X)
        /\ Len(FlattenSeq(q)) = (n - 1) * 4 + Len(q[n])
        /\ Placed(FlattenSeq(q), q, n, 4)
    BY <2>1, <2>5, <2>6, FlattenAt
  <2>8. Len(red) = 4 * n
    <3>1. Len(q[n]) = 4
      BY <2>1, <2>3
    <3> QED
      BY <2>1, <2>2, <2>7, <3>1
  <2>8a. \A m \in 1..n : \A x \in 1..4 : red[(m - 1) * 4 + x] = q[m][x]
    BY <2>2, <2>3, <2>7 DEF Placed
  <2>9. ASSUME NEW kt \in Tiles(p.K)
        PROVE  /\ red[4 * kt + 1] = LoadWeights(kt, j)
               /\ red[4 * kt + 2] = LoadRow(i, r, kt)
               /\ red[4 * kt + 3] = Do(SWAP_WGT)
               /\ red[4 * kt + 4] = Do(MATMUL(0, r, CtrlOf(p, kt)))
    <3>1. kt \in 0..n - 1 /\ kt + 1 \in 1..n /\ (kt + 1) - 1 = kt
      BY <2>1 DEF Tiles, n
    <3>2. \A x \in 1..4 : red[4 * kt + x] = q[kt + 1][x]
      <4>1. ((kt + 1) - 1) * 4 = 4 * kt
        BY <3>1
      <4> QED
        BY <2>8a, <3>1, <4>1
    <3> HIDE DEF red
    <3>3. /\ red[4 * kt + 1] = q[kt + 1][1] /\ red[4 * kt + 2] = q[kt + 1][2]
          /\ red[4 * kt + 3] = q[kt + 1][3] /\ red[4 * kt + 4] = q[kt + 1][4]
      BY <3>2
    <3> QED
      BY <2>3, <3>1, <3>3
  <2> QED
    BY <1>2, <2>2, <2>7, <2>8, <2>9 DEF ReductionLen, ReductionSteps, KTiles, X, n
<1> QED
  BY <1>1, <1>2

(* No part of a program is empty. *)
LEMMA LengthsPositive ==
  ASSUME NEW p, IsSize(p)
  PROVE  ReductionLen(p) \in Nat \ {0} /\ RowLen(p) \in Nat \ {0} /\ HeadLen(p) \in {2, 4}
<1>1. CeilDiv(p.K, P) \in Nat \ {0}
  BY TileBounds DEF IsSize
<1> QED
  BY <1>1 DEF ReductionLen, RowLen, HeadLen, KTiles

(* Row r of a row tile starts at r * RowLen; the store follows the last row. *)
LEMMA RowAtPosition ==
  ASSUME NEW p, IsSize(p), NEW j \in Nat, NEW i \in Tiles(p.M)
  PROVE  LET n == InTile(p.M, i)
             L == RowLen(p)
             w == RowTile(p, j, i)
         IN  /\ w \in Seq(ProgramStep) /\ Len(w) = n * L + 1
             /\ \A r \in 0..n - 1 :
                  /\ \A x \in 1..ReductionLen(p) : w[r * L + x] = Reduction(p, j, i, r)[x]
                  /\ w[r * L + L] = Do(VECTOR(0, r))
             /\ w[n * L + 1] = With(STORE(0, 0, n - 1), <<"store", i, j>>)
<1> DEFINE n == InTile(p.M, i)
           L == RowLen(p)
           R == ReductionLen(p)
           X == ProgramStep
           red(r) == Reduction(p, j, i, r)
           vec(r) == Do(VECTOR(0, r))
           q == [t \in 1..n |-> Append(red(t - 1), vec(t - 1))]
           last == With(STORE(0, 0, n - 1), <<"store", i, j>>)
           w == RowTile(p, j, i)
<1>1. n \in Nat \ {0} /\ i \in Nat
  BY TileParts, RowsPositive DEF IsSize
<1>2. R \in Nat /\ L = R + 1 /\ L \in Nat
  BY LengthsPositive DEF RowLen
<1>3. w = FlattenSeq(q) \o <<last>>
  BY DEF RowTile, Concat
<1>4. last \in X
  BY <1>1, StepsTyped
<1>5. ASSUME NEW r \in 0..n - 1
      PROVE  red(r) \in Seq(X) /\ Len(red(r)) = R /\ vec(r) \in X
  <2>1. r \in Nat /\ r \in Int
    BY <1>1
  <2>2. vec(r) \in X
    BY <2>1, StepsTyped
  <2>3. red(r) \in Seq(X) /\ Len(red(r)) = R
    BY <1>1, <2>1, ReductionAt
  <2> QED
    BY <2>2, <2>3
<1> HIDE DEF red, vec, last, L, R, X
<1>6. ASSUME NEW t \in 1..n
      PROVE  /\ q[t] \in Seq(X) /\ Len(q[t]) = L
             /\ \A x \in 1..R : q[t][x] = red(t - 1)[x]
             /\ q[t][L] = vec(t - 1)
  <2> DEFINE a == red(t - 1)
             b == vec(t - 1)
  <2>1. t - 1 \in 0..n - 1
    BY <1>1
  <2>2. a \in Seq(X) /\ Len(a) = R /\ b \in X /\ q[t] = Append(a, b)
    BY <1>5, <2>1
  <2> HIDE DEF a, b
  <2>3. /\ Append(a, b) \in Seq(X) /\ Len(Append(a, b)) = R + 1
        /\ \A x \in 1..R : Append(a, b)[x] = a[x]
        /\ Append(a, b)[R + 1] = b
    BY <1>2, <2>2
  <2> QED
    BY <1>2, <2>2, <2>3 DEF a, b
<1>7. q = [t \in 1..n |-> q[t]]
  OBVIOUS
<1> HIDE DEF q
<1>8. q \in [1..n -> Seq(X)] /\ Even(q, n, L)
  BY <1>1, <1>6, <1>7 DEF Even
<1> HIDE DEF n
<1> DEFINE f == FlattenSeq(q)
<1>9. f \in Seq(X) /\ Len(f) = (n - 1) * L + Len(q[n]) /\ Placed(f, q, n, L)
  BY <1>1, <1>2, <1>8, FlattenAt
<1> HIDE DEF f
<1>10. Len(f) = n * L
  <2>1. Len(q[n]) = L /\ (n - 1) * L + L = n * L
    BY <1>1, <1>2, <1>6, Multiples
  <2> QED
    BY <1>9, <2>1
<1>11. \A m \in 1..n : \A x \in 1..L : (m - 1) * L + x \in 1..Len(f) /\ f[(m - 1) * L + x] = q[m][x]
  BY <1>6, <1>9 DEF Placed
<1>12. <<last>> \in Seq(X) /\ Len(<<last>>) = 1 /\ <<last>>[1] = last
  BY <1>4
<1>13. w \in Seq(X) /\ IsConcat(w, f, <<last>>)
  BY <1>3, <1>9, <1>12, Concatenated DEF f
<1>14. Len(w) = n * L + 1 /\ w[n * L + 1] = last
  BY <1>10, <1>12, <1>13 DEF IsConcat
<1>15. ASSUME NEW r \in 0..n - 1, NEW x \in 1..L
       PROVE  w[r * L + x] = q[r + 1][x]
  <2>1. r + 1 \in 1..n /\ (r + 1) - 1 = r
    BY <1>1
  <2>2. r * L + x \in 1..Len(f) /\ f[r * L + x] = q[r + 1][x]
    BY <1>11, <2>1
  <2> QED
    BY <1>13, <2>2 DEF IsConcat
<1>16. ASSUME NEW r \in 0..n - 1
       PROVE  /\ \A x \in 1..R : w[r * L + x] = red(r)[x]
              /\ w[r * L + L] = vec(r)
  <2>1. r + 1 \in 1..n /\ (r + 1) - 1 = r
    BY <1>1
  <2>2. L \in 1..L /\ \A x \in 1..R : x \in 1..L
    BY <1>2
  <2> QED
    BY <1>6, <1>15, <2>1, <2>2
<1> QED
  BY <1>13, <1>14, <1>16 DEF n, L, R, X, red, vec, last

(* The position before row r of row tile i in the program of column tile j. *)
RowAt(p, i, r) == HeadLen(p) + i * (P * RowLen(p) + 1) + r * RowLen(p)

(* The programs of the tiled GEMM, instruction by instruction. *)
LEMMA RunAtPosition ==
  ASSUME NEW p, IsSize(p), NEW j \in Nat
  PROVE  LET run == ColumnRun(p, j)
             m == CeilDiv(p.M, P)
         IN  /\ run \in Seq(ProgramStep)
             /\ Len(run) = RowAt(p, m - 1, InTile(p.M, m - 1)) + 2
             /\ run[1] = Do(NOP)
             /\ run[2] = With(LOAD_BIAS(0, BIAS_BEATS - 1), <<"bias", j>>)
             /\ OneWeightTile(p) => run[3] = LoadWeights(0, j) /\ run[4] = Do(SWAP_WGT)
             /\ run[Len(run)] = Do(END)
             /\ \A i \in Tiles(p.M) :
                  /\ \A x \in 1..InTile(p.M, i) * RowLen(p) + 1 :
                       run[RowAt(p, i, 0) + x] = RowTile(p, j, i)[x]
                  /\ \A x \in 0..InTile(p.M, i) * RowLen(p) + 1 :
                       RowAt(p, i, 0) + x \in 1..Len(run) - 1
<1> DEFINE m == CeilDiv(p.M, P)
           L == RowLen(p)
           W == P * L + 1
           H == HeadLen(p)
           X == ProgramStep
           n(i) == InTile(p.M, i)
           tile(i) == RowTile(p, j, i)
           q == [t \in 1..m |-> tile(t - 1)]
           f == FlattenSeq(q)
           run == ColumnRun(p, j)
           a == Do(NOP)
           b == With(LOAD_BIAS(0, BIAS_BEATS - 1), <<"bias", j>>)
           c == LoadWeights(0, j)
           d == Do(SWAP_WGT)
           e == Do(END)
           first == IF OneWeightTile(p) THEN <<c, d>> ELSE <<>>
<1>1. m \in Nat \ {0} /\ Tiles(p.M) = 0..m - 1
  BY TileBounds DEF IsSize, Tiles
<1>2. L \in Nat \ {0} /\ H \in {2, 4} /\ (OneWeightTile(p) <=> H = 4)
  BY LengthsPositive DEF HeadLen
<1>3. P \in Nat \ {0} /\ BIAS_BEATS - 1 \in Int
  BY RowsPositive, IsaAssumption
<1>4. P * L \in Nat /\ W \in Nat
  BY <1>2, <1>3
<1>5. a \in X /\ b \in X /\ c \in X /\ d \in X /\ e \in X
  BY <1>3, StepsTyped
<1>6. ((<<a, b>> \o first) \o f) \o <<e>> = run
  BY DEF ColumnRun, Concat
<1>7. ASSUME NEW i \in 0..m - 1
      PROVE  /\ n(i) \in 1..P /\ (i + 1 < m => n(i) = P)
             /\ tile(i) \in Seq(X) /\ Len(tile(i)) = n(i) * L + 1
             /\ n(i) * L \in Nat
             /\ RowAt(p, i, 0) = H + i * W /\ RowAt(p, i, n(i)) = H + i * W + n(i) * L
             /\ i * W \in Nat
  <2>1. i \in Tiles(p.M) /\ i \in Nat
    BY <1>1
  <2>2. n(i) \in 1..P /\ (i + 1 < m => n(i) = P)
    BY <2>1, TileParts DEF IsSize
  <2>3. tile(i) \in Seq(X) /\ Len(tile(i)) = n(i) * L + 1
    BY <2>1, RowAtPosition
  <2>4. n(i) * L \in Nat /\ i * W \in Nat /\ 0 * L = 0
    BY <1>2, <1>4, <2>1, <2>2
  <2>5. RowAt(p, i, 0) = H + i * W + 0 * L /\ RowAt(p, i, n(i)) = H + i * W + n(i) * L
    BY DEF RowAt
  <2>6. RowAt(p, i, 0) = H + i * W
    BY <1>2, <2>4, <2>5
  <2> QED
    BY <2>2, <2>3, <2>4, <2>5, <2>6
<1> HIDE DEF a, b, c, d, e, L, W, H, X, n, tile, m
<1>8. ASSUME NEW t \in 1..m
      PROVE  q[t] = tile(t - 1) /\ q[t] \in Seq(X) /\ Len(q[t]) = n(t - 1) * L + 1
  <2>1. t - 1 \in 0..m - 1
    BY <1>1
  <2> QED
    BY <1>7, <2>1
<1>9. q = [t \in 1..m |-> q[t]]
  OBVIOUS
<1> HIDE DEF q
<1>10. q \in [1..m -> Seq(X)]
  BY <1>8, <1>9
<1>11. Even(q, m, W)
  <2> SUFFICES ASSUME NEW k \in 1..m - 1 PROVE Len(q[k]) = W
    BY DEF Even
  <2>1. k \in 1..m /\ k - 1 \in 0..m - 1 /\ (k - 1) + 1 < m
    BY <1>1
  <2> QED
    BY <1>7, <1>8, <2>1 DEF W
<1>12. f \in Seq(X) /\ Len(f) = (m - 1) * W + Len(q[m]) /\ Placed(f, q, m, W)
  BY <1>1, <1>4, <1>10, <1>11, FlattenAt
<1> HIDE DEF f
<1> DEFINE h == <<a, b>> \o first
           g == h \o f
<1>13. h \in Seq(X) /\ Len(h) = H /\ h[1] = a /\ h[2] = b /\ (H = 4 => h[3] = c /\ h[4] = d)
  <2>1. CASE OneWeightTile(p)
    <3>1. h = <<a, b>> \o <<c, d>>
      BY <2>1
    <3> HIDE DEF h
    <3> DEFINE u == <<a, b>>
               v == <<c, d>>
    <3>2. /\ u \in Seq(X) /\ Len(u) = 2 /\ u[1] = a /\ u[2] = b
          /\ v \in Seq(X) /\ Len(v) = 2 /\ v[1] = c /\ v[2] = d
      BY <1>5
    <3>3. h = u \o v
      BY <3>1
    <3> HIDE DEF u, v
    <3>4. h \in Seq(X) /\ IsConcat(h, u, v)
      BY <3>2, <3>3, Concatenated
    <3>5. Len(h) = 4 /\ h[1] = a /\ h[2] = b /\ h[3] = c /\ h[4] = d
      <4>1. h[2 + 1] = v[1] /\ h[2 + 2] = v[2]
        BY <3>2, <3>4 DEF IsConcat
      <4>2. h[1] = u[1] /\ h[2] = u[2] /\ Len(h) = 2 + 2
        BY <3>2, <3>4 DEF IsConcat
      <4> QED
        BY <3>2, <4>1, <4>2
    <3> QED
      BY <1>2, <2>1, <3>4, <3>5
  <2>2. CASE ~OneWeightTile(p)
    <3>1. h = <<a, b>>
      BY <2>2
    <3> HIDE DEF h
    <3> QED
      BY <1>2, <1>5, <2>2, <3>1
  <2> QED
    BY <2>1, <2>2
<1> HIDE DEF h
<1>14. g \in Seq(X) /\ IsConcat(g, h, f)
  BY <1>12, <1>13, Concatenated
<1> HIDE DEF g
<1>15. <<e>> \in Seq(X) /\ Len(<<e>>) = 1 /\ <<e>>[1] = e
  BY <1>5
<1>16. run \in Seq(X) /\ IsConcat(run, g, <<e>>)
  BY <1>6, <1>14, <1>15, Concatenated DEF g, h
<1> HIDE DEF run
<1>17. Len(f) \in Nat /\ Len(g) = H + Len(f) /\ Len(run) = H + Len(f) + 1
  BY <1>2, <1>12, <1>13, <1>14, <1>15, <1>16, LenProperties DEF IsConcat
<1>18. /\ \A x \in 1..H : run[x] = h[x]
       /\ \A x \in 1..Len(f) : run[H + x] = f[x]
       /\ run[Len(run)] = e
  <2>1. \A x \in 1..H : x \in 1..Len(g) /\ g[x] = h[x]
    BY <1>2, <1>13, <1>14, <1>17 DEF IsConcat
  <2>2. \A x \in 1..Len(f) : H + x \in 1..Len(g) /\ g[H + x] = f[x]
    BY <1>2, <1>13, <1>14, <1>17 DEF IsConcat
  <2>3. \A x \in 1..Len(g) : run[x] = g[x]
    BY <1>16 DEF IsConcat
  <2>4. run[Len(g) + 1] = e
    BY <1>15, <1>16 DEF IsConcat
  <2> QED
    BY <1>2, <1>17, <2>1, <2>2, <2>3, <2>4
<1>19. /\ run[1] = a /\ run[2] = b /\ (OneWeightTile(p) => run[3] = c /\ run[4] = d)
  BY <1>2, <1>13, <1>18
<1>20. Len(run) = RowAt(p, m - 1, n(m - 1)) + 2
  <2>1. m \in 1..m /\ m - 1 \in 0..m - 1
    BY <1>1
  <2>2. Len(q[m]) = n(m - 1) * L + 1 /\ (m - 1) * W \in Nat /\ n(m - 1) * L \in Nat
    BY <1>7, <1>8, <2>1
  <2> DEFINE A == (m - 1) * W
             B == n(m - 1) * L
             z == Len(q[m])
             y == Len(f)
  <2>3. RowAt(p, m - 1, n(m - 1)) = H + A + B
    BY <1>7, <2>1
  <2>4. A \in Nat /\ B \in Nat /\ z = B + 1 /\ y = A + z /\ Len(run) = H + y + 1
    BY <1>12, <1>17, <2>2
  <2> HIDE DEF A, B, z, y
  <2> QED
    BY <1>2, <2>3, <2>4
<1>21. ASSUME NEW i \in 0..m - 1
       PROVE  /\ \A x \in 1..n(i) * L + 1 : run[RowAt(p, i, 0) + x] = tile(i)[x]
              /\ \A x \in 0..n(i) * L + 1 : RowAt(p, i, 0) + x \in 1..Len(run) - 1
  <2>1. i + 1 \in 1..m /\ (i + 1) - 1 = i
    BY <1>1
  <2>2. /\ n(i) * L \in Nat /\ i * W \in Nat /\ RowAt(p, i, 0) = H + i * W
        /\ q[i + 1] = tile(i) /\ Len(q[i + 1]) = n(i) * L + 1
    BY <1>7, <1>8, <2>1
  <2>3. ASSUME NEW x \in 1..n(i) * L + 1
        PROVE  i * W + x \in 1..Len(f) /\ f[i * W + x] = tile(i)[x]
    <3>1. x \in 1..Len(q[i + 1])
      BY <2>2
    <3>2. /\ ((i + 1) - 1) * W + x \in 1..Len(f)
          /\ f[((i + 1) - 1) * W + x] = q[i + 1][x]
      BY <1>12, <2>1, <3>1 DEF Placed
    <3> QED
      BY <2>1, <2>2, <3>2
  <2>4. ASSUME NEW x \in 1..n(i) * L + 1
        PROVE  run[RowAt(p, i, 0) + x] = tile(i)[x]
    <3>1. RowAt(p, i, 0) + x = H + (i * W + x)
      BY <1>2, <2>2
    <3> QED
      BY <1>18, <2>3, <3>1
  <2>5. i * W + (n(i) * L + 1) \in 1..Len(f)
    <3>1. n(i) * L + 1 \in 1..n(i) * L + 1
      BY <2>2
    <3> QED
      BY <2>3, <3>1
  <2>6. ASSUME NEW x \in 0..n(i) * L + 1
        PROVE  RowAt(p, i, 0) + x \in 1..Len(run) - 1
    <3> DEFINE A == i * W
               B == n(i) * L
               y == Len(f)
               k == RowAt(p, i, 0)
               z == Len(run)
    <3>1. A \in Nat /\ B \in Nat /\ y \in Nat /\ H \in Nat /\ H >= 2
      BY <1>2, <1>17, <2>2
    <3>2. A + (B + 1) <= y /\ k = H + A /\ z = H + y + 1 /\ x \in 0..B + 1
      BY <1>17, <2>2, <2>5
    <3> HIDE DEF A, B, y, k, z
    <3>3. k + x \in 1..z - 1
      BY <3>1, <3>2
    <3> QED
      BY <3>3 DEF k, z
  <2> QED
    BY <2>4, <2>6
<1> QED
  BY <1>1, <1>16, <1>18, <1>19, <1>20, <1>21 DEF a, b, c, d, e, L, X, n, tile, m, run

-----------------------------------------------------------------------------
(* Machine *)

(* A state of the simulated machine has the fields of a fresh one. *)
IsMachine(s) ==
  /\ DOMAIN s = DOMAIN Fresh
  /\ DOMAIN s.act = Bank /\ DOMAIN s.out = Bank /\ DOMAIN s.rows = Bank
  /\ DOMAIN s.actData = Bank /\ DOMAIN s.outData = Bank

(* What an instruction leaves alone, by the memories it concerns. *)
KeptWeights(s, t) ==
  t.wgt = s.wgt /\ t.wgtValid = s.wgtValid /\ t.staging = s.staging /\ t.array = s.array
KeptRows(s, t) == t.act = s.act /\ t.rows = s.rows /\ t.actData = s.actData
KeptBias(s, t) == t.bias = s.bias /\ t.biasData = s.biasData
KeptSums(s, t) == t.accum = s.accum /\ t.accumData = s.accumData
KeptOuts(s, t) == t.out = s.out /\ t.outData = s.outData
KeptDram(s, t) ==
  /\ t.dramWeight = s.dramWeight /\ t.dramAct = s.dramAct /\ t.dramBias = s.dramBias
  /\ t.dramOut = s.dramOut
Kept(s, t) ==
  /\ KeptWeights(s, t) /\ KeptRows(s, t) /\ KeptBias(s, t) /\ KeptSums(s, t) /\ KeptOuts(s, t)

(* A fresh machine is one. *)
LEMMA FreshMachine ==
  /\ IsMachine(Fresh) /\ ~Fresh.ended /\ Fresh.dramOut = NoData /\ Fresh.wgt = "EMPTY"
  /\ Fresh.act[0] = "EMPTY" /\ Fresh.accum = "EMPTY" /\ Fresh.bias = "EMPTY"
  /\ Fresh.out[0] = "EMPTY"
BY DEF IsMachine, Fresh, Bank

(* NOP is accepted and changes nothing. *)
LEMMA Waits ==
  ASSUME NEW s, IsMachine(s), NEW v, NEW i, i.op = "NOP"
  PROVE  Perform(s, i, v) = s /\ (~s.ended => Accepts(s, i))
BY DEF Perform, Accepts, CanStep, Served

(* LOAD_WGT stages the bound weight tile. *)
LEMMA LoadsWeights ==
  ASSUME NEW s, IsMachine(s), NEW v, NEW i, i.op = "LOAD_WGT", i.addr = 0, i.len = P - 1
  PROVE  LET t == Perform(s, i, v)
         IN  /\ IsMachine(t) /\ t.ended = s.ended /\ t.wgt = "READY"
             /\ t.staging = [r \in Row |-> s.dramWeight[0 + r]]
             /\ t.wgtValid = s.wgtValid /\ t.array = s.array
             /\ KeptRows(s, t) /\ KeptBias(s, t) /\ KeptSums(s, t) /\ KeptOuts(s, t)
             /\ KeptDram(s, t)
             /\ ~s.ended /\ s.wgt = "EMPTY" => Accepts(s, i)
<1> DEFINE t == Perform(s, i, v)
<1>1. t = [s EXCEPT !.wgt = "READY", !.staging = [r \in Row |-> s.dramWeight[0 + r]]]
  BY DEF Perform
<1>2. /\ IsMachine(t) /\ t.ended = s.ended /\ t.wgt = "READY"
      /\ t.staging = [r \in Row |-> s.dramWeight[0 + r]]
      /\ t.wgtValid = s.wgtValid /\ t.array = s.array
  <2> HIDE DEF t
  <2> QED
    BY <1>1 DEF IsMachine, Fresh
<1>3. /\ KeptRows(s, t) /\ KeptBias(s, t) /\ KeptSums(s, t) /\ KeptOuts(s, t)
      /\ KeptDram(s, t)
  <2> HIDE DEF t
  <2> QED
    BY <1>1 DEF IsMachine, Fresh, KeptRows, KeptBias, KeptSums, KeptOuts, KeptDram
<1>4. ASSUME ~s.ended, s.wgt = "EMPTY" PROVE Accepts(s, i)
  <2>1. i.addr + i.len + 1 <= ROWS /\ i.len + 1 = ROWS
    BY IsaAssumption DEF P
  <2> QED
    BY <1>4, <2>1 DEF Accepts, CanStep, Served
<1> QED
  BY <1>2, <1>3, <1>4

(* SWAP_WGT moves the staged tile into the array. *)
LEMMA Swaps ==
  ASSUME NEW s, IsMachine(s), NEW v, NEW i, i.op = "SWAP_WGT"
  PROVE  LET t == Perform(s, i, v)
         IN  /\ IsMachine(t) /\ t.ended = s.ended /\ t.wgt = "EMPTY"
             /\ t.wgtValid /\ t.array = s.staging /\ t.staging = s.staging
             /\ KeptRows(s, t) /\ KeptBias(s, t) /\ KeptSums(s, t) /\ KeptOuts(s, t)
             /\ KeptDram(s, t)
             /\ ~s.ended /\ s.wgt = "READY" => Accepts(s, i)
<1> DEFINE t == Perform(s, i, v)
<1>1. t = [s EXCEPT !.array = s.staging, !.wgtValid = TRUE, !.wgt = "EMPTY"]
  BY DEF Perform
<1>2. /\ IsMachine(t) /\ t.ended = s.ended /\ t.wgt = "EMPTY"
      /\ t.wgtValid /\ t.array = s.staging /\ t.staging = s.staging
  <2> HIDE DEF t
  <2> QED
    BY <1>1 DEF IsMachine, Fresh
<1>3. /\ KeptRows(s, t) /\ KeptBias(s, t) /\ KeptSums(s, t) /\ KeptOuts(s, t)
      /\ KeptDram(s, t)
  <2> HIDE DEF t
  <2> QED
    BY <1>1 DEF IsMachine, Fresh, KeptRows, KeptBias, KeptSums, KeptOuts, KeptDram
<1>4. ASSUME ~s.ended, s.wgt = "READY" PROVE Accepts(s, i)
  BY <1>4 DEF Accepts, CanStep, Served
<1> QED
  BY <1>2, <1>3, <1>4

(* LOAD_BIAS takes the bound bias. *)
LEMMA LoadsBias ==
  ASSUME NEW s, IsMachine(s), NEW v, NEW i, i.op = "LOAD_BIAS", i.len = BIAS_BEATS - 1
  PROVE  LET t == Perform(s, i, v)
         IN  /\ IsMachine(t) /\ t.ended = s.ended /\ t.bias = "READY"
             /\ t.biasData = s.dramBias
             /\ KeptRows(s, t) /\ KeptWeights(s, t) /\ KeptSums(s, t) /\ KeptOuts(s, t)
             /\ KeptDram(s, t)
             /\ ~s.ended /\ s.bias = "EMPTY" => Accepts(s, i)
<1> DEFINE t == Perform(s, i, v)
<1>1. t = [s EXCEPT !.bias = "READY", !.biasData = s.dramBias]
  BY DEF Perform
<1>2. IsMachine(t) /\ t.ended = s.ended /\ t.bias = "READY" /\ t.biasData = s.dramBias
  <2> HIDE DEF t
  <2> QED
    BY <1>1 DEF IsMachine, Fresh
<1>3. /\ KeptRows(s, t) /\ KeptWeights(s, t) /\ KeptSums(s, t) /\ KeptOuts(s, t)
      /\ KeptDram(s, t)
  <2> HIDE DEF t
  <2> QED
    BY <1>1 DEF IsMachine, Fresh, KeptRows, KeptWeights, KeptSums, KeptOuts, KeptDram
<1>4. ASSUME ~s.ended, s.bias = "EMPTY" PROVE Accepts(s, i)
  <2>1. (i.len + 1) * BIAS_EPB = ROWS
    <3>1. i.len + 1 = BIAS_BEATS
      BY IsaAssumption
    <3> QED
      BY <3>1, SimAssumption
  <2> QED
    BY <1>4, <2>1 DEF Accepts, CanStep, Served
<1> QED
  BY <1>2, <1>3, <1>4

(* LOAD_ACT takes the bound rows. *)
LEMMA LoadsRows ==
  ASSUME NEW s, IsMachine(s), NEW v, NEW i, i.op = "LOAD_ACT", i.dst = 0,
         i.addr \in Nat, i.len \in Nat
  PROVE  LET t == Perform(s, i, v)
         IN  /\ IsMachine(t) /\ t.ended = s.ended
             /\ t.act[0] = "READY" /\ t.rows[0] = i.len + 1
             /\ \A a \in i.addr..i.addr + i.len :
                  a \in DOMAIN t.actData[0] /\ t.actData[0][a] = s.dramAct[a]
             /\ KeptBias(s, t) /\ KeptWeights(s, t) /\ KeptSums(s, t) /\ KeptOuts(s, t)
             /\ KeptDram(s, t)
             /\ ~s.ended /\ s.act[0] = "EMPTY" /\ i.addr..i.addr + i.len \subseteq DOMAIN s.dramAct
                  => Accepts(s, i)
<1> DEFINE t == Perform(s, i, v)
           n == RowsLoaded(i)
           f == [a \in DOMAIN s.actData[0] \cup i.addr..i.addr + i.len |->
                   IF a \in i.addr..i.addr + i.len THEN s.dramAct[a] ELSE s.actData[0][a]]
<1>1. t = [s EXCEPT !.act[0] = "READY", !.rows[0] = n, !.actData[0] = f]
  BY DEF Perform
<1>2. n = i.len + 1
  <2>1. n = (i.len + 1) \div 1
    BY SimAssumption DEF RowsLoaded
  <2> QED
    BY <2>1
<1>3. \A a \in i.addr..i.addr + i.len : a \in DOMAIN f /\ f[a] = s.dramAct[a]
  OBVIOUS
<1> HIDE DEF f, n
<1>4. /\ IsMachine(t) /\ t.ended = s.ended
      /\ t.act[0] = "READY" /\ t.rows[0] = n /\ t.actData[0] = f
  <2> HIDE DEF t
  <2> QED
    BY <1>1 DEF IsMachine, Fresh, Bank
<1>5. /\ KeptBias(s, t) /\ KeptWeights(s, t) /\ KeptSums(s, t) /\ KeptOuts(s, t)
      /\ KeptDram(s, t)
  <2> HIDE DEF t
  <2> QED
    BY <1>1 DEF IsMachine, Fresh, KeptBias, KeptWeights, KeptSums, KeptOuts, KeptDram
<1>6. ASSUME ~s.ended, s.act[0] = "EMPTY", i.addr..i.addr + i.len \subseteq DOMAIN s.dramAct
      PROVE  Accepts(s, i)
  <2>1. \A k \in 0..i.len : i.addr + k \in DOMAIN s.dramAct
    <3>1. \A k \in 0..i.len : i.addr + k \in i.addr..i.addr + i.len
      OBVIOUS
    <3> QED
      BY <1>6, <3>1
  <2> QED
    BY <1>6, <2>1 DEF Accepts, CanStep, Served
<1> QED
  BY <1>2, <1>3, <1>4, <1>5, <1>6

(* What a MATMUL does to the accumulator. *)
Adds(s, t, i) ==
  /\ i.addr \in DOMAIN t.accumData
  /\ i.ctrl \in {"NONE", "INIT"} =>
       t.accumData[i.addr] = RowTimes(s.actData[0][i.addr], s.array)
  /\ i.ctrl \notin {"NONE", "INIT"} /\ i.addr \in DOMAIN s.accumData =>
       t.accumData[i.addr] =
         RowPlus(s.accumData[i.addr], RowTimes(s.actData[0][i.addr], s.array))
  /\ t.accum = IF i.ctrl \in {"NONE", "LAST"} THEN "READY" ELSE "FILLING"

(* The simulator accepts a MATMUL. *)
Multipliable(s, i) ==
  /\ ~s.ended /\ s.wgtValid /\ s.act[0] = "READY" /\ i.addr \in DOMAIN s.actData[0]
  /\ s.accum = (IF i.ctrl \in {"NONE", "INIT"} THEN "EMPTY" ELSE "FILLING")

(* MATMUL writes or adds the array's product of a row at its address. *)
LEMMA Multiplies ==
  ASSUME NEW s, IsMachine(s), NEW v, NEW i, i.op = "MATMUL", i.src = 0
  PROVE  LET t == Perform(s, i, v)
         IN  /\ IsMachine(t) /\ t.ended = s.ended
             /\ t.rows[0] = s.rows[0] - 1
             /\ t.act[0] = IF s.rows[0] - 1 <= 0 THEN "EMPTY" ELSE "READY"
             /\ t.actData = s.actData
             /\ Adds(s, t, i)
             /\ KeptBias(s, t) /\ KeptWeights(s, t) /\ KeptOuts(s, t) /\ KeptDram(s, t)
             /\ Multipliable(s, i) => Accepts(s, i)
<1> DEFINE t == Perform(s, i, v)
           left == s.rows[0] - 1
           result == RowTimes(s.actData[0][i.addr], s.array)
           before == IF i.addr \in DOMAIN s.accumData THEN s.accumData[i.addr] ELSE Zeros
           x == IF i.ctrl \in {"NONE", "INIT"} THEN result ELSE RowPlus(before, result)
           f == With1(s.accumData, i.addr, x)
           e == IF left <= 0 THEN "EMPTY" ELSE "READY"
           g == IF i.ctrl \in {"NONE", "LAST"} THEN "READY" ELSE "FILLING"
<1>1. t = [s EXCEPT !.accumData = f, !.rows[0] = left, !.act[0] = e, !.accum = g]
  BY DEF Perform, Compute
<1>2. i.addr \in DOMAIN f /\ f[i.addr] = x
  <2> HIDE DEF x
  <2> QED
    BY DEF With1
<1> HIDE DEF f
<1>3. /\ IsMachine(t) /\ t.ended = s.ended /\ t.rows[0] = left /\ t.act[0] = e
      /\ t.actData = s.actData /\ t.accumData = f /\ t.accum = g
  <2> HIDE DEF t, left, e, g
  <2> QED
    BY <1>1 DEF IsMachine, Fresh, Bank
<1>4. KeptBias(s, t) /\ KeptWeights(s, t) /\ KeptOuts(s, t) /\ KeptDram(s, t)
  <2> HIDE DEF t, left, e, g
  <2> QED
    BY <1>1 DEF IsMachine, Fresh, KeptBias, KeptWeights, KeptOuts, KeptDram
<1>5. Adds(s, t, i)
  <2> HIDE DEF t, result
  <2> QED
    BY <1>2, <1>3 DEF Adds, result
<1>6. Multipliable(s, i) => Accepts(s, i)
  BY DEF Multipliable, Accepts, CanStep, Served
<1> HIDE DEF t, g, result, x
<1> QED
  BY <1>3, <1>4, <1>5, <1>6 DEF t

(* The simulator accepts a VECTOR. *)
Finishable(s, i) ==
  /\ ~s.ended /\ s.accum = "READY" /\ s.bias = "READY" /\ s.out[0] # "IN_USE"
  /\ i.addr \in DOMAIN s.accumData

(* VECTOR turns a finished sum into a row of the output buffer. *)
LEMMA Finishes ==
  ASSUME NEW s, IsMachine(s), NEW v, NEW i, i.op = "VECTOR", i.dst = 0
  PROVE  LET t == Perform(s, i, v)
         IN  /\ IsMachine(t) /\ t.ended = s.ended
             /\ t.accum = "EMPTY" /\ t.accumData = s.accumData
             /\ t.out[0] = "READY"
             /\ i.addr \in DOMAIN t.outData[0]
             /\ t.outData[0][i.addr] =
                  [c \in Row |-> Lane(s.accumData[i.addr][c], s.biasData[c], v)]
             /\ \A a \in DOMAIN s.outData[0] : a # i.addr =>
                  a \in DOMAIN t.outData[0] /\ t.outData[0][a] = s.outData[0][a]
             /\ KeptBias(s, t) /\ KeptWeights(s, t) /\ KeptRows(s, t) /\ KeptDram(s, t)
             /\ Finishable(s, i) => Accepts(s, i)
<1> DEFINE t == Perform(s, i, v)
           x == [c \in Row |-> Lane(s.accumData[i.addr][c], s.biasData[c], v)]
           f == With1(s.outData[0], i.addr, x)
<1>1. t = [s EXCEPT !.accum = "EMPTY", !.out[0] = "READY", !.outData[0] = f]
  BY DEF Perform
<1> HIDE DEF x
<1>2. /\ i.addr \in DOMAIN f /\ f[i.addr] = x
      /\ \A a \in DOMAIN s.outData[0] : a # i.addr => a \in DOMAIN f /\ f[a] = s.outData[0][a]
  BY DEF With1
<1> HIDE DEF f
<1>3. /\ IsMachine(t) /\ t.ended = s.ended /\ t.accum = "EMPTY" /\ t.accumData = s.accumData
      /\ t.out[0] = "READY" /\ t.outData[0] = f
  <2> HIDE DEF t
  <2> QED
    BY <1>1 DEF IsMachine, Fresh, Bank
<1>4. KeptBias(s, t) /\ KeptWeights(s, t) /\ KeptRows(s, t) /\ KeptDram(s, t)
  <2> HIDE DEF t
  <2> QED
    BY <1>1 DEF IsMachine, Fresh, KeptBias, KeptWeights, KeptRows, KeptDram
<1>5. Finishable(s, i) => Accepts(s, i)
  BY DEF Finishable, Accepts, CanStep, Served
<1> HIDE DEF t
<1>6. i.addr \in DOMAIN t.outData[0] /\ t.outData[0][i.addr] = x
  BY <1>2, <1>3
<1>7. \A a \in DOMAIN s.outData[0] : a # i.addr =>
        a \in DOMAIN t.outData[0] /\ t.outData[0][a] = s.outData[0][a]
  BY <1>2, <1>3
<1> QED
  BY <1>3, <1>4, <1>5, <1>6, <1>7 DEF t, x

(* The simulator accepts a STORE. *)
Storable(s, i) ==
  ~s.ended /\ s.out[0] = "READY" /\ \A a \in 0..i.len : a \in DOMAIN s.outData[0]

(* The rows that a STORE leaves in the bound DRAM. *)
StoresRows(s, t, n) ==
  DOMAIN t.dramOut = 0..n /\ \A a \in 0..n : t.dramOut[a] = s.outData[0][a]

(* STORE moves the rows out and frees the output buffer. *)
LEMMA Stores ==
  ASSUME NEW s, IsMachine(s), NEW v, NEW i, i.op = "STORE", i.src = 0,
         i.addr = 0, i.len \in Nat, s.dramOut = NoData
  PROVE  LET t == Perform(s, i, v)
         IN  /\ IsMachine(t) /\ t.ended = s.ended
             /\ t.out[0] = "EMPTY"
             /\ t.outData = s.outData
             /\ StoresRows(s, t, i.len)
             /\ KeptBias(s, t) /\ KeptWeights(s, t) /\ KeptRows(s, t) /\ KeptSums(s, t)
             /\ Storable(s, i) => Accepts(s, i)
<1> DEFINE t == Perform(s, i, v)
           f == [a \in DOMAIN s.dramOut \cup i.addr..i.addr + i.len |->
                      IF a \in i.addr..i.addr + i.len THEN s.outData[0][a] ELSE s.dramOut[a]]
<1>1. t = [s EXCEPT !.out[0] = "EMPTY", !.dramOut = f]
  BY DEF Perform
<1>2. DOMAIN f = 0..i.len /\ \A a \in 0..i.len : f[a] = s.outData[0][a]
  <2>1. DOMAIN s.dramOut = {}
    BY DEF NoData
  <2>2. i.addr..i.addr + i.len = 0..i.len
    OBVIOUS
  <2> QED
    BY <2>1, <2>2
<1> HIDE DEF f
<1>3. IsMachine(t) /\ t.ended = s.ended /\ t.out[0] = "EMPTY" /\ t.outData = s.outData
      /\ t.dramOut = f
  <2> HIDE DEF t
  <2> QED
    BY <1>1 DEF IsMachine, Fresh, Bank
<1>4. KeptBias(s, t) /\ KeptWeights(s, t) /\ KeptRows(s, t) /\ KeptSums(s, t)
  <2> HIDE DEF t
  <2> QED
    BY <1>1 DEF IsMachine, Fresh, KeptBias, KeptWeights, KeptRows, KeptSums
<1>5. ASSUME Storable(s, i) PROVE Accepts(s, i)
  <2>1. \A k \in 0..i.len : i.addr + k \in DOMAIN s.outData[0]
    BY <1>5 DEF Storable
  <2> QED
    BY <1>5, <2>1 DEF Accepts, CanStep, Served, Storable
<1> HIDE DEF t
<1> QED
  BY <1>2, <1>3, <1>4, <1>5 DEF t, StoresRows

(* END stops the machine. *)
LEMMA Ends ==
  ASSUME NEW s, IsMachine(s), NEW v, NEW i, i.op = "END"
  PROVE  LET t == Perform(s, i, v)
         IN  /\ IsMachine(t) /\ t.ended /\ Kept(s, t) /\ KeptDram(s, t)
             /\ ~s.ended => Accepts(s, i)
<1> DEFINE t == Perform(s, i, v)
<1>1. t = [s EXCEPT !.ended = TRUE]
  BY DEF Perform
<1>2. IsMachine(t) /\ t.ended /\ Kept(s, t) /\ KeptDram(s, t)
  <2> HIDE DEF t
  <2> QED
    BY <1>1 DEF IsMachine, Fresh, Kept, KeptDram, KeptRows, KeptWeights, KeptBias, KeptSums,
                KeptOuts
<1>3. ~s.ended => Accepts(s, i)
  BY DEF Accepts, CanStep, Served
<1> QED
  BY <1>2, <1>3

-----------------------------------------------------------------------------
(* Products *)

(* The tiles and rows that the driver binds, and what the array makes of
   them, for size p and data d. *)
WeightTile(p, d, kt, j) ==
  [r \in Row |-> [c \in Row |-> Element(d.B, kt * P + r, j * P + c, p.K, p.N)]]

(* Row x of A in tile kt of K, padded with zeros. *)
PaddedRow(p, d, x, kt) == [c \in Row |-> Element(d.A, x, kt * P + c, p.M, p.K)]
(* The biases of column tile j, padded with zeros. *)
BiasTile(p, d, j) == [c \in Row |-> IF j * P + c < p.N THEN d.bias[j * P + c] ELSE 0]

(* The products that row x of A and column y of B add up, padding included. *)
Terms(p, d, x, y) ==
  [k \in 0..KTiles(p) * P - 1 |-> Element(d.A, x, k, p.M, p.K) * Element(d.B, k, y, p.K, p.N)]

(* Their sum over the first n tiles of K, for each column of tile j. *)
Partial(p, d, j, x, n) == [c \in Row |-> SumTo(Terms(p, d, x, j * P + c), n * P)]
(* What the vector unit makes of the sum over all of K. *)
ResultRow(p, d, j, x) ==
  [c \in Row |-> Lane(Partial(p, d, j, x, KTiles(p))[c], BiasTile(p, d, j)[c], d.vec)]

(* The element that the product asks for, with no padding and no tile. *)
Product(p, d, x, y) ==
  Lane(SumTo([k \in 0..p.K - 1 |-> d.A[x][k] * d.B[k][y]], p.K), d.bias[y], d.vec)

(* A size, and matrices of integers of that size. *)
IsJob(p, d) ==
  /\ IsSize(p)
  /\ \A k \in 0..p.K - 1 : /\ \A x \in 0..p.M - 1 : d.A[x][k] \in Int
                           /\ \A y \in 0..p.N - 1 : d.B[k][y] \in Int

(* A padded matrix holds integers too. *)
LEMMA ElementsInt ==
  ASSUME NEW p, NEW d, IsJob(p, d), NEW x \in Nat, NEW k \in Nat, NEW y \in Nat
  PROVE  /\ Element(d.A, x, k, p.M, p.K) \in Int
         /\ Element(d.B, k, y, p.K, p.N) \in Int
BY DEF IsJob, IsSize, Element

(* Where tile n of K ends. *)
LEMMA KTileBounds ==
  ASSUME NEW p, IsSize(p), NEW n \in 0..KTiles(p) - 1
  PROVE  /\ n \in Nat /\ n + 1 \in Nat /\ n * P \in Nat /\ KTiles(p) * P \in Nat
         /\ (n + 1) * P = n * P + P /\ n * P + P <= KTiles(p) * P
         /\ KTiles(p) \in Nat \ {0} /\ p.K <= KTiles(p) * P /\ 0 * P = 0 /\ 1 * P = P
<1> DEFINE q == P
           m == KTiles(p)
<1>1. q \in Nat \ {0} /\ m \in Nat \ {0} /\ p.K <= m * q
  BY RowsPositive, TileBounds DEF IsSize, KTiles
<1>2. n \in 0..m - 1
  OBVIOUS
<1> HIDE DEF q, m
<1>3. n \in Nat /\ n + 1 \in Nat /\ n + 1 <= m
  BY <1>1, <1>2
<1>4. n * q \in Nat /\ m * q \in Nat /\ (n + 1) * q = n * q + q /\ (n + 1) * q <= m * q
  BY <1>1, <1>3, Multiples
<1>5. 0 * q = 0 /\ 1 * q = q
  BY <1>1
<1> QED
  BY <1>1, <1>3, <1>4, <1>5 DEF q, m

(* The array's product of tile n extends the sum over the first n tiles to n + 1. *)
LEMMA OneTileMore ==
  ASSUME NEW p, NEW d, IsJob(p, d), NEW x \in Nat, NEW j \in Nat, NEW n \in 0..KTiles(p) - 1,
         NEW c \in Row
  PROVE  LET f == Terms(p, d, x, j * P + c)
             w == RowTimes(PaddedRow(p, d, x, n), WeightTile(p, d, n, j))
         IN  /\ SumTo(f, n * P) \in Int /\ w[c] \in Int
             /\ SumTo(f, (n + 1) * P)
                  = SumTo(f, n * P) + w[c]
<1> DEFINE f == Terms(p, d, x, j * P + c)
           g == [r \in Row |-> PaddedRow(p, d, x, n)[r] * WeightTile(p, d, n, j)[r][c]]
           q == P
           a == n * q
           y == j * P + c
<1>1. /\ q \in Nat \ {0} /\ a \in Nat /\ (n + 1) * q = a + q
      /\ \A k \in 0..a + q - 1 : k \in 0..KTiles(p) * P - 1
      /\ Row = 0..q - 1
  <2> DEFINE m == KTiles(p) * q
  <2>1. q \in Nat \ {0} /\ Row = 0..q - 1
    BY RowsPositive
  <2>2. a \in Nat /\ m \in Nat /\ (n + 1) * q = a + q /\ a + q <= m
    BY KTileBounds DEF IsJob
  <2> HIDE DEF q, a, m
  <2>3. \A k \in 0..a + q - 1 : k \in 0..m - 1
    BY <2>1, <2>2
  <2> QED
    BY <2>1, <2>2, <2>3 DEF m, q
<1>2. y \in Nat
  <2>1. j * q \in Nat
    BY <1>1, Multiples
  <2>2. c \in Nat
    BY <1>1
  <2> QED
    BY <2>1, <2>2
<1>3. ASSUME NEW k \in 0..a + q - 1
      PROVE  /\ f[k] = Element(d.A, x, k, p.M, p.K) * Element(d.B, k, y, p.K, p.N)
             /\ f[k] \in Int
  <2> DEFINE u == Element(d.A, x, k, p.M, p.K)
             v == Element(d.B, k, y, p.K, p.N)
  <2>1. k \in 0..KTiles(p) * P - 1 /\ k \in Nat
    BY <1>1
  <2>2. f[k] = u * v
    BY <2>1 DEF Terms
  <2>3. u \in Int /\ v \in Int
    BY <1>2, <2>1, ElementsInt
  <2> HIDE DEF u, v, f
  <2>4. u * v \in Int
    BY <2>3
  <2> QED
    BY <2>2, <2>4 DEF u, v
<1>4. ASSUME NEW r \in 0..q - 1 PROVE g[r] = f[a + r]
  <2>1. r \in Row /\ a + r \in 0..a + q - 1
    BY <1>1
  <2>2. /\ PaddedRow(p, d, x, n)[r] = Element(d.A, x, a + r, p.M, p.K)
        /\ WeightTile(p, d, n, j)[r][c] = Element(d.B, a + r, y, p.K, p.N)
    BY <2>1 DEF PaddedRow, WeightTile
  <2>3. g[r] = PaddedRow(p, d, x, n)[r] * WeightTile(p, d, n, j)[r][c]
    BY <2>1
  <2> HIDE DEF f, g, y, a
  <2> QED
    BY <1>3, <2>1, <2>2, <2>3
<1>5. RowTimes(PaddedRow(p, d, x, n), WeightTile(p, d, n, j))[c] = SumTo(g, q)
  BY DEF RowTimes, P
<1> HIDE DEF f, g, a, q, y
<1>6a. q \in Nat /\ \A k \in 0..a + q - 1 : f[k] \in Int
  BY <1>1, <1>3
<1>6b. a \in Nat /\ \A r \in 0..q - 1 : g[r] = f[a + r]
  BY <1>1, <1>4
<1>6. SumTo(f, a) \in Int /\ SumTo(f, a + q) = SumTo(f, a) + SumTo(g, q)
  BY <1>6a, <1>6b, SumSplit
<1>7. SumTo(g, q) \in Int
  <2>1. \A r \in 0..q - 1 : g[r] \in Int
    <3>1. \A r \in 0..q - 1 : a + r \in 0..a + q - 1
      BY <1>1
    <3> QED
      BY <1>3, <1>4, <3>1
  <2> QED
    BY <1>6a, <2>1, SumInt
<1> QED
  BY <1>1, <1>5, <1>6, <1>7 DEF f, a, q, y

(* The array's row on the first tile of K, and what one more tile adds. *)
LEMMA FirstTile ==
  ASSUME NEW p, NEW d, IsJob(p, d), NEW x \in Nat, NEW j \in Nat
  PROVE  RowTimes(PaddedRow(p, d, x, 0), WeightTile(p, d, 0, j)) = Partial(p, d, j, x, 1)
<1> DEFINE w == RowTimes(PaddedRow(p, d, x, 0), WeightTile(p, d, 0, j))
<1>1. w = [c \in Row |-> w[c]]
  BY DEF RowTimes
<1>2. 0 \in 0..KTiles(p) - 1 /\ 0 * P = 0 /\ 0 + 1 = 1
  <2>1. 0 \in 0..KTiles(p) - 1
    BY TileBounds DEF IsJob, IsSize, KTiles
  <2>2. 0 * P = 0
    BY RowsPositive
  <2> QED
    BY <2>1, <2>2
<1>3. ASSUME NEW c \in Row PROVE w[c] = Partial(p, d, j, x, 1)[c]
  <2> DEFINE f == Terms(p, d, x, j * P + c)
             z == w[c]
  <2>1. z \in Int /\ SumTo(f, 1 * P) = SumTo(f, 0) + z
    BY <1>2, OneTileMore
  <2>2. SumTo(f, 0) = 0
    BY SumNone
  <2> HIDE DEF z, f
  <2>3. SumTo(f, 1 * P) = z
    BY <2>1, <2>2
  <2> QED
    BY <2>3 DEF Partial, f, z
<1> HIDE DEF w
<1> QED
  BY <1>1, <1>3 DEF Partial, w

(* What the accumulator adds on tile n. *)
LEMMA NextTile ==
  ASSUME NEW p, NEW d, IsJob(p, d), NEW x \in Nat, NEW j \in Nat, NEW n \in 0..KTiles(p) - 1
  PROVE  RowPlus(Partial(p, d, j, x, n), RowTimes(PaddedRow(p, d, x, n), WeightTile(p, d, n, j)))
           = Partial(p, d, j, x, n + 1)
<1> DEFINE w == RowTimes(PaddedRow(p, d, x, n), WeightTile(p, d, n, j))
           a == Partial(p, d, j, x, n)
           b == Partial(p, d, j, x, n + 1)
<1>1. ASSUME NEW c \in Row PROVE a[c] + w[c] = b[c]
  BY OneTileMore DEF Partial
<1>2. b = [c \in Row |-> b[c]]
  BY DEF Partial
<1> HIDE DEF a, b, w
<1> QED
  BY <1>1, <1>2 DEF RowPlus, a, b, w

(* The padding changes no element of the product. *)
LEMMA ResultExact ==
  ASSUME NEW p, NEW d, IsJob(p, d), NEW x \in 0..p.M - 1, NEW j \in Nat, NEW c \in Row,
         j * P + c < p.N
  PROVE  ResultRow(p, d, j, x)[c] = Product(p, d, x, j * P + c)
<1> DEFINE y == j * P + c
           f == [k \in 0..p.K - 1 |-> d.A[x][k] * d.B[k][y]]
           g == Terms(p, d, x, y)
           m == KTiles(p) * P
<1>1. x \in Nat /\ y \in 0..p.N - 1 /\ p.K \in Nat \ {0}
  <2>1. P \in Nat \ {0} /\ c \in Nat
    BY RowsPositive
  <2>2. j * P \in Nat
    BY <2>1, Multiples
  <2>3. y \in Nat
    BY <2>1, <2>2
  <2> QED
    BY <2>3 DEF IsJob, IsSize
<1>2. m \in Nat /\ p.K <= m
  <2>1. 0 \in 0..KTiles(p) - 1
    BY TileBounds DEF IsJob, IsSize, KTiles
  <2> QED
    BY <2>1, KTileBounds DEF IsJob
<1>3. ASSUME NEW k \in 0..p.K - 1 PROVE f[k] \in Int /\ g[k] = f[k]
  <2> DEFINE u == d.A[x][k]
             v == d.B[k][y]
  <2>1. u \in Int /\ v \in Int /\ f[k] = u * v
    BY <1>1 DEF IsJob
  <2>2. k \in 0..m - 1
    BY <1>1, <1>2
  <2>3. g[k] = Element(d.A, x, k, p.M, p.K) * Element(d.B, k, y, p.K, p.N)
    BY <2>2 DEF Terms
  <2>4. Element(d.A, x, k, p.M, p.K) = u /\ Element(d.B, k, y, p.K, p.N) = v
    BY <1>1 DEF Element, IsJob, IsSize
  <2> HIDE DEF u, v, f, g
  <2>5. u * v \in Int
    BY <2>1
  <2> QED
    BY <2>1, <2>3, <2>4, <2>5
<1>4. ASSUME NEW k \in p.K..m - 1 PROVE g[k] = 0
  <2>1. k \in 0..m - 1 /\ ~(k < p.K)
    BY <1>1
  <2>2. g[k] = Element(d.A, x, k, p.M, p.K) * Element(d.B, k, y, p.K, p.N)
    BY <2>1 DEF Terms
  <2>3. Element(d.A, x, k, p.M, p.K) = 0 /\ Element(d.B, k, y, p.K, p.N) = 0
    BY <2>1 DEF Element
  <2> HIDE DEF g
  <2> QED
    BY <2>2, <2>3
<1> HIDE DEF f, g, m, y
<1>5. p.K \in Nat /\ (\A k \in 0..p.K - 1 : f[k] \in Int /\ g[k] = f[k])
      /\ \A k \in p.K..m - 1 : g[k] = 0
  BY <1>1, <1>3, <1>4
<1>6. SumTo(g, m) = SumTo(f, p.K)
  BY <1>2, <1>5, SumPadded
<1>7. Partial(p, d, j, x, KTiles(p))[c] = SumTo(g, m)
  BY DEF Partial, g, m, y
<1>8. BiasTile(p, d, j)[c] = d.bias[y]
  BY DEF BiasTile, y
<1>9. ResultRow(p, d, j, x)[c] = Lane(SumTo(f, p.K), d.bias[y], d.vec)
  BY <1>6, <1>7, <1>8 DEF ResultRow
<1> QED
  BY <1>9 DEF Product, f, y

-----------------------------------------------------------------------------
(* Programs, position by position *)

(* The positions of the rows follow one another, from tile to tile. *)
LEMMA RowPositions ==
  ASSUME NEW p, IsSize(p), NEW i \in Tiles(p.M)
  PROVE  /\ \A r \in 0..InTile(p.M, i) :
              /\ RowAt(p, i, r) = RowAt(p, i, 0) + r * RowLen(p)
              /\ r * RowLen(p) \in 0..InTile(p.M, i) * RowLen(p)
              /\ RowAt(p, i, r) \in Nat /\ RowAt(p, i, r) >= 2
              /\ RowAt(p, i, r + 1) = RowAt(p, i, r) + RowLen(p)
         /\ \A r \in 0..InTile(p.M, i) - 1 :
              r * RowLen(p) + RowLen(p) \in 0..InTile(p.M, i) * RowLen(p)
         /\ RowAt(p, i, 0) \in Nat
         /\ RowAt(p, 0, 0) = HeadLen(p)
         /\ InTile(p.M, i) = P => RowAt(p, i + 1, 0) = RowAt(p, i, P) + 1
<1> DEFINE n == InTile(p.M, i)
           L == RowLen(p)
           H == HeadLen(p)
           W == P * L + 1
           A == i * W
<1>1. n \in Nat \ {0} /\ i \in Nat /\ P \in Nat \ {0}
  BY TileParts, RowsPositive DEF IsSize
<1>2. L \in Nat \ {0} /\ H \in {2, 4}
  BY LengthsPositive
<1>3. P * L \in Nat
  BY <1>1, <1>2, Multiples
<1>4. A \in Nat /\ (i + 1) * W = A + W /\ 0 * L = 0 /\ 0 * W = 0
  BY <1>1, <1>2, <1>3, Multiples
<1>5. ASSUME NEW r \in Nat
      PROVE  /\ r * L \in Nat /\ (r + 1) * L = r * L + L
             /\ RowAt(p, i, r) = H + A + r * L
             /\ RowAt(p, i, r + 1) = H + A + (r + 1) * L
             /\ r <= n => r * L <= n * L
             /\ r + 1 <= n => (r + 1) * L <= n * L
             /\ n * L \in Nat
  <2>1. r + 1 \in Nat /\ n \in Nat /\ L \in Nat
    BY <1>1, <1>2
  <2>2. r * L \in Nat /\ (r + 1) * L = r * L + L /\ n * L \in Nat
    BY <2>1, Multiples
  <2>3. r <= n => r * L <= n * L
    BY <2>1, Multiples
  <2>4. r + 1 <= n => (r + 1) * L <= n * L
    BY <2>1, Multiples
  <2>5. RowAt(p, i, r) = H + A + r * L /\ RowAt(p, i, r + 1) = H + A + (r + 1) * L
    BY DEF RowAt
  <2> QED
    BY <2>2, <2>3, <2>4, <2>5
<1>6. /\ RowAt(p, i, 0) = H + A + 0 * L /\ RowAt(p, 0, 0) = H + 0 * W + 0 * L
      /\ RowAt(p, i + 1, 0) = H + (i + 1) * W + 0 * L
      /\ RowAt(p, i, P) = H + A + P * L
  BY DEF RowAt
<1>7. /\ RowAt(p, i, 0) = H + A /\ RowAt(p, 0, 0) = H
      /\ RowAt(p, i + 1, 0) = RowAt(p, i, P) + 1
  <2> DEFINE B == P * L
  <2>1. B \in Nat /\ W = B + 1
    BY <1>3
  <2> HIDE DEF A, B, W, H, L
  <2>2. RowAt(p, i, P) = H + A + B
    BY <1>6 DEF B
  <2> QED
    BY <1>2, <1>4, <1>6, <2>1, <2>2
<1> HIDE DEF A, L, H, W, n
<1>8. ASSUME NEW r \in 0..n
      PROVE  /\ RowAt(p, i, r) = RowAt(p, i, 0) + r * L
             /\ r * L \in 0..n * L
             /\ RowAt(p, i, r) \in Nat /\ RowAt(p, i, r) >= 2
             /\ RowAt(p, i, r + 1) = RowAt(p, i, r) + L
  <2>1. r \in Nat /\ r <= n
    BY <1>1
  <2> DEFINE x == r * L
             y == n * L
             z == (r + 1) * L
  <2>2. /\ x \in Nat /\ z = x + L
        /\ RowAt(p, i, r) = H + A + x /\ RowAt(p, i, r + 1) = H + A + z
        /\ x <= y /\ y \in Nat
    BY <1>5, <2>1
  <2> HIDE DEF x, y, z
  <2>3. x \in 0..y
    BY <2>2
  <2> QED
    BY <1>2, <1>4, <1>7, <2>2, <2>3 DEF x, y
<1>9. ASSUME NEW r \in 0..n - 1 PROVE r * L + L \in 0..n * L
  <2>1. r \in Nat /\ r + 1 <= n
    BY <1>1
  <2> DEFINE x == r * L
             y == n * L
             z == (r + 1) * L
  <2>2. x \in Nat /\ z = x + L /\ z <= y /\ y \in Nat
    BY <1>5, <2>1
  <2> HIDE DEF x, y, z
  <2>3. x + L \in 0..y
    BY <1>2, <2>2
  <2> QED
    BY <2>3 DEF x, y
<1>10. RowAt(p, i, 0) \in Nat
  BY <1>2, <1>4, <1>7
<1> QED
  BY <1>7, <1>8, <1>9, <1>10 DEF n, L, H

(* k is a position before the END of the program. *)
InRun(p, j, k) == k \in 1..Len(ColumnRun(p, j)) - 1

(* The instructions of row r of row tile i, and where the row ends. *)
LEMMA RowSteps ==
  ASSUME NEW p, IsSize(p), NEW j \in Nat, NEW i \in Tiles(p.M), NEW r \in 0..InTile(p.M, i) - 1
  PROVE  LET run == ColumnRun(p, j)
             k == RowAt(p, i, r)
         IN  /\ run[k + RowLen(p)] = Do(VECTOR(0, r)) /\ InRun(p, j, k + RowLen(p))
             /\ k \in Nat /\ RowAt(p, i, r + 1) = k + RowLen(p)
             /\ \A x \in 1..ReductionLen(p) :
                  run[k + x] = Reduction(p, j, i, r)[x] /\ InRun(p, j, k + x)
<1> DEFINE run == ColumnRun(p, j)
           k == RowAt(p, i, r)
           b == RowAt(p, i, 0)
           n == InTile(p.M, i)
           L == RowLen(p)
           R == ReductionLen(p)
           w == RowTile(p, j, i)
           a == r * L
           z == n * L
<1>1. n \in Nat \ {0} /\ L = R + 1 /\ R \in Nat
  <2>1. n \in 1..P /\ P \in Nat
    BY TileParts, RowsPositive DEF IsSize
  <2>2. R \in Nat
    BY LengthsPositive
  <2>3. L = R + 1
    BY DEF RowLen
  <2>4. n \in Nat \ {0}
    <3> HIDE DEF n
    <3> QED
      BY <2>1
  <2> QED
    BY <2>2, <2>3, <2>4
<1>2. r \in 0..n
  BY <1>1
<1>3. k = b + a /\ a \in 0..z /\ k \in Nat /\ b \in Nat
  BY <1>2, RowPositions
<1>3a. RowAt(p, i, r + 1) = k + L
  BY <1>2, RowPositions
<1>3b. a + L \in 0..z
  BY RowPositions
<1>4. /\ \A x \in 1..z + 1 : run[b + x] = w[x]
      /\ \A x \in 0..z + 1 : b + x \in 1..Len(run) - 1
  BY RunAtPosition
<1>5. /\ \A x \in 1..R : w[a + x] = Reduction(p, j, i, r)[x]
      /\ w[a + L] = Do(VECTOR(0, r))
  BY RowAtPosition
<1>6. z \in Nat
  BY <1>1, Multiples
<1> HIDE DEF run, k, b, n, L, R, w, a, z
<1>7. ASSUME NEW x \in 1..L
      PROVE  run[k + x] = w[a + x] /\ k + x \in 1..Len(run) - 1
  <2>1. a + x \in 1..z + 1 /\ a + x \in 0..z + 1 /\ k + x = b + (a + x)
    BY <1>1, <1>3, <1>3b, <1>6
  <2> QED
    BY <1>4, <2>1
<1>8. L \in 1..L /\ \A x \in 1..R : x \in 1..L
  BY <1>1
<1>9. /\ run[k + L] = Do(VECTOR(0, r)) /\ k + L \in 1..Len(run) - 1
      /\ \A x \in 1..R : run[k + x] = Reduction(p, j, i, r)[x] /\ k + x \in 1..Len(run) - 1
  BY <1>5, <1>7, <1>8
<1> QED
  BY <1>3, <1>3a, <1>9 DEF run, k, L, R, InRun

(* The instructions of a row when one weight tile serves the whole program. *)
LEMMA OneTileSteps ==
  ASSUME NEW p, IsSize(p), NEW j \in Nat, NEW i \in Tiles(p.M), NEW r \in 0..InTile(p.M, i) - 1,
         OneWeightTile(p)
  PROVE  LET run == ColumnRun(p, j)
             k == RowAt(p, i, r)
         IN  /\ run[k + 1] = LoadRow(i, r, 0) /\ InRun(p, j, k + 1)
             /\ run[k + 2] = Do(MATMUL(0, r, "NONE")) /\ InRun(p, j, k + 2)
             /\ RowLen(p) = 3
<1>1. i \in Nat /\ r \in Nat
  BY TileParts, RowsPositive DEF IsSize
<1>2. ReductionLen(p) = 2 /\ RowLen(p) = 3
  BY DEF ReductionLen, RowLen
<1>3. 1 \in 1..ReductionLen(p) /\ 2 \in 1..ReductionLen(p)
  BY <1>2
<1>4. /\ Reduction(p, j, i, r)[1] = LoadRow(i, r, 0)
      /\ Reduction(p, j, i, r)[2] = Do(MATMUL(0, r, "NONE"))
  <2>1. ReductionSteps(p, j, i, r)
    BY <1>1, ReductionAt
  <2> QED
    BY <2>1 DEF ReductionSteps
<1>5. \A x \in 1..ReductionLen(p) :
        /\ ColumnRun(p, j)[RowAt(p, i, r) + x] = Reduction(p, j, i, r)[x]
        /\ InRun(p, j, RowAt(p, i, r) + x)
  BY RowSteps
<1> QED
  BY <1>2, <1>3, <1>4, <1>5

(* The instructions of tile n of K in a row, when weights are reloaded. *)
LEMMA TileSteps ==
  ASSUME NEW p, IsSize(p), NEW j \in Nat, NEW i \in Tiles(p.M), NEW r \in 0..InTile(p.M, i) - 1,
         ~OneWeightTile(p), NEW n \in 0..KTiles(p) - 1
  PROVE  LET run == ColumnRun(p, j)
             k == RowAt(p, i, r) + 4 * n
         IN  /\ run[k + 1] = LoadWeights(n, j) /\ InRun(p, j, k + 1)
             /\ run[k + 2] = LoadRow(i, r, n) /\ InRun(p, j, k + 2)
             /\ run[k + 3] = Do(SWAP_WGT) /\ InRun(p, j, k + 3)
             /\ run[k + 4] = Do(MATMUL(0, r, CtrlOf(p, n))) /\ InRun(p, j, k + 4)
             /\ RowLen(p) = 4 * KTiles(p) + 1
<1> DEFINE run == ColumnRun(p, j)
           b == RowAt(p, i, r)
           red == Reduction(p, j, i, r)
<1>1. i \in Nat /\ r \in Nat /\ KTiles(p) \in Nat \ {0} /\ n \in Tiles(p.K)
  <2>1. i \in Nat /\ r \in Nat
    BY TileParts, RowsPositive DEF IsSize
  <2>2. KTiles(p) \in Nat \ {0}
    BY TileBounds DEF IsSize, KTiles
  <2> QED
    BY <2>1, <2>2 DEF Tiles, KTiles
<1>2. ReductionLen(p) = 4 * KTiles(p) /\ RowLen(p) = 4 * KTiles(p) + 1
  BY DEF ReductionLen, RowLen
<1>3. ASSUME NEW x \in 1..4 PROVE 4 * n + x \in 1..ReductionLen(p) /\ (b + 4 * n) + x = b + (4 * n + x)
  <2>1. b \in Nat
    BY RowSteps
  <2> HIDE DEF b
  <2> QED
    BY <1>1, <1>2, <2>1
<1>4. \A x \in 1..4 : run[(b + 4 * n) + x] = red[4 * n + x] /\ InRun(p, j, (b + 4 * n) + x)
  <2>1. \A x \in 1..ReductionLen(p) : run[b + x] = red[x] /\ InRun(p, j, b + x)
    BY RowSteps
  <2> HIDE DEF run, b, red
  <2> QED
    BY <1>3, <2>1
<1>5. /\ red[4 * n + 1] = LoadWeights(n, j) /\ red[4 * n + 2] = LoadRow(i, r, n)
      /\ red[4 * n + 3] = Do(SWAP_WGT) /\ red[4 * n + 4] = Do(MATMUL(0, r, CtrlOf(p, n)))
  <2>1. ReductionSteps(p, j, i, r)
    BY <1>1, ReductionAt
  <2> QED
    BY <1>1, <2>1 DEF ReductionSteps
<1> HIDE DEF run, b, red
<1>6. /\ run[(b + 4 * n) + 1] = LoadWeights(n, j) /\ InRun(p, j, (b + 4 * n) + 1)
      /\ run[(b + 4 * n) + 2] = LoadRow(i, r, n) /\ InRun(p, j, (b + 4 * n) + 2)
      /\ run[(b + 4 * n) + 3] = Do(SWAP_WGT) /\ InRun(p, j, (b + 4 * n) + 3)
      /\ run[(b + 4 * n) + 4] = Do(MATMUL(0, r, CtrlOf(p, n))) /\ InRun(p, j, (b + 4 * n) + 4)
  BY <1>4, <1>5
<1> QED
  BY <1>2, <1>6 DEF run, b

(* The store of row tile i, and what comes after it. *)
LEMMA StoreSteps ==
  ASSUME NEW p, IsSize(p), NEW j \in Nat, NEW i \in Tiles(p.M)
  PROVE  LET run == ColumnRun(p, j)
             n == InTile(p.M, i)
             k == RowAt(p, i, n)
         IN  /\ run[k + 1] = With(STORE(0, 0, n - 1), <<"store", i, j>>)
             /\ InRun(p, j, k + 1) /\ k \in Nat
             /\ i + 1 < CeilDiv(p.M, P) => i + 1 \in Tiles(p.M) /\ RowAt(p, i + 1, 0) = k + 1
             /\ i + 1 = CeilDiv(p.M, P) => Len(run) = k + 2
             /\ run[Len(run)] = Do(END)
<1> DEFINE run == ColumnRun(p, j)
           n == InTile(p.M, i)
           k == RowAt(p, i, n)
           b == RowAt(p, i, 0)
           z == n * RowLen(p)
           w == RowTile(p, j, i)
           m == CeilDiv(p.M, P)
<1>1. n \in Nat \ {0} /\ (i + 1 < m => n = P /\ i + 1 \in Tiles(p.M))
  <2>1. n \in 1..P /\ (i + 1 < m => n = P /\ i + 1 \in Tiles(p.M))
    BY TileParts DEF IsSize
  <2>2. P \in Nat
    BY RowsPositive
  <2> QED
    BY <2>1, <2>2
<1>2. n \in 0..n
  BY <1>1
<1>3. k = b + z /\ z \in 0..z /\ k \in Nat /\ b \in Nat
  BY <1>2, RowPositions
<1>4. InTile(p.M, i) = P => RowAt(p, i + 1, 0) = RowAt(p, i, P) + 1
  BY RowPositions
<1>5. i + 1 < m => i + 1 \in Tiles(p.M) /\ RowAt(p, i + 1, 0) = k + 1
  BY <1>1, <1>4
<1>6. /\ \A x \in 1..z + 1 : run[b + x] = w[x]
      /\ \A x \in 0..z + 1 : b + x \in 1..Len(run) - 1
      /\ run[Len(run)] = Do(END)
      /\ Len(run) = RowAt(p, m - 1, InTile(p.M, m - 1)) + 2
  BY RunAtPosition
<1>7. w[z + 1] = With(STORE(0, 0, n - 1), <<"store", i, j>>)
  BY RowAtPosition
<1>8. ASSUME i + 1 = m PROVE Len(run) = k + 2
  <2>1. i = m - 1
    BY <1>8, TileParts DEF IsSize
  <2> QED
    BY <1>6, <2>1
<1>9. run[k + 1] = w[z + 1] /\ k + 1 \in 1..Len(run) - 1
  <2> HIDE DEF run, k, b, z, w, m, n
  <2>1. z + 1 \in 1..z + 1 /\ z + 1 \in 0..z + 1 /\ k + 1 = b + (z + 1)
    BY <1>3
  <2> QED
    BY <1>6, <2>1
<1> QED
  BY <1>3, <1>5, <1>6, <1>7, <1>8, <1>9 DEF InRun

-----------------------------------------------------------------------------
(* Places *)

(* The machine in the middle of a run: what its memories hold. *)
Alive(s) == IsMachine(s) /\ ~s.ended /\ s.dramOut = NoData
(* The memories' contents at a place of the run, one at a time. *)
BiasIn(p, d, j, s) == s.bias = "READY" /\ s.biasData = BiasTile(p, d, j)
Staged(p, d, j, kt, s) == s.wgt = "READY" /\ s.staging = WeightTile(p, d, kt, j)
Loaded(p, d, j, kt, s) == s.wgtValid /\ s.array = WeightTile(p, d, kt, j)
HasRow(p, d, x, r, kt, s) ==
  s.act[0] = "READY" /\ r \in DOMAIN s.actData[0] /\ s.actData[0][r] = PaddedRow(p, d, x, kt)
NoRow(s) == s.act[0] = "EMPTY"

(* The accumulator after n tiles of K, at address r for row x of A. *)
Summed(p, d, j, x, r, n, s) ==
  /\ n = 0 => s.accum = "EMPTY"
  /\ n > 0 => /\ s.accum = IF n = KTiles(p) THEN "READY" ELSE "FILLING"
              /\ r \in DOMAIN s.accumData /\ s.accumData[r] = Partial(p, d, j, x, n)

(* The output bank with r rows of row tile i. *)
Outputs(p, d, j, i, r, s) ==
  /\ s.out[0] \in {"EMPTY", "READY"} /\ (r > 0 => s.out[0] = "READY")
  /\ \A a \in 0..r - 1 : /\ a \in DOMAIN s.outData[0]
                         /\ s.outData[0][a] = ResultRow(p, d, j, i * P + a)

(* Between rows 0 and r of row tile i, n tiles of K into row r. *)
AtRow(p, d, j, i, r, n, s) ==
  /\ Alive(s) /\ BiasIn(p, d, j, s)
  /\ Summed(p, d, j, i * P + r, r, n, s) /\ Outputs(p, d, j, i, r, s)

(* The accumulate control of tile n, which a single tile does without. *)
CtrlFor(p, n) == IF OneWeightTile(p) THEN "NONE" ELSE CtrlOf(p, n)

-----------------------------------------------------------------------------
(* The place after each instruction: a load of weights, *)
LEMMA TakeWeights ==
  ASSUME NEW p, NEW d, NEW j, NEW i, NEW r, NEW n, NEW kt, NEW s, NEW v,
         AtRow(p, d, j, i, r, n, s), s.wgt = "EMPTY",
         [x \in Row |-> s.dramWeight[0 + x]] = WeightTile(p, d, kt, j)
  PROVE  LET t == Perform(s, LOAD_WGT(0, P - 1), v)
         IN  /\ Accepts(s, LOAD_WGT(0, P - 1))
             /\ AtRow(p, d, j, i, r, n, t) /\ Staged(p, d, j, kt, t) /\ KeptRows(s, t)
             /\ t.wgtValid = s.wgtValid /\ t.array = s.array
<1> DEFINE e == LOAD_WGT(0, P - 1)
           t == Perform(s, e, v)
<1>1. e.op = "LOAD_WGT" /\ e.addr = 0 /\ e.len = P - 1
  BY DEF LOAD_WGT, Blank
<1>2. IsMachine(s) /\ ~s.ended
  BY DEF AtRow, Alive
<1> HIDE DEF e
<1>3. /\ IsMachine(t) /\ t.ended = s.ended /\ t.wgt = "READY"
      /\ t.staging = [x \in Row |-> s.dramWeight[0 + x]]
      /\ t.wgtValid = s.wgtValid /\ t.array = s.array
      /\ KeptRows(s, t) /\ KeptBias(s, t) /\ KeptSums(s, t) /\ KeptOuts(s, t)
      /\ KeptDram(s, t) /\ Accepts(s, e)
  BY <1>1, <1>2, LoadsWeights
<1> HIDE DEF t
<1>4. Staged(p, d, j, kt, t)
  BY <1>3 DEF Staged
<1>5. AtRow(p, d, j, i, r, n, t)
  BY <1>3 DEF AtRow, Alive, BiasIn, Summed, Outputs, KeptBias, KeptSums, KeptOuts, KeptDram
<1> QED
  BY <1>3, <1>4, <1>5 DEF t, e

(* The swap, *)
LEMMA TakeSwap ==
  ASSUME NEW p, NEW d, NEW j, NEW i, NEW r, NEW n, NEW kt, NEW s, NEW v,
         AtRow(p, d, j, i, r, n, s), Staged(p, d, j, kt, s)
  PROVE  LET t == Perform(s, SWAP_WGT, v)
         IN  /\ Accepts(s, SWAP_WGT)
             /\ AtRow(p, d, j, i, r, n, t) /\ Loaded(p, d, j, kt, t) /\ KeptRows(s, t)
             /\ t.wgt = "EMPTY"
<1> DEFINE e == SWAP_WGT
           t == Perform(s, e, v)
<1>1. e.op = "SWAP_WGT"
  BY DEF SWAP_WGT, Blank
<1>2. IsMachine(s) /\ ~s.ended /\ s.wgt = "READY"
  BY DEF AtRow, Alive, Staged
<1> HIDE DEF e
<1>3. /\ IsMachine(t) /\ t.ended = s.ended /\ t.wgt = "EMPTY"
      /\ t.wgtValid /\ t.array = s.staging
      /\ KeptRows(s, t) /\ KeptBias(s, t) /\ KeptSums(s, t) /\ KeptOuts(s, t)
      /\ KeptDram(s, t) /\ Accepts(s, e)
  BY <1>1, <1>2, Swaps
<1> HIDE DEF t
<1>4. Loaded(p, d, j, kt, t)
  BY <1>3 DEF Staged, Loaded
<1>5. AtRow(p, d, j, i, r, n, t)
  BY <1>3 DEF AtRow, Alive, BiasIn, Summed, Outputs, KeptBias, KeptSums, KeptOuts, KeptDram
<1> QED
  BY <1>3, <1>4, <1>5 DEF t, e

(* the row of A, *)
LEMMA TakeRow ==
  ASSUME NEW p, NEW d, NEW j, NEW i, NEW r \in Row, NEW n, NEW kt, NEW s, NEW v,
         AtRow(p, d, j, i, r, n, s), NoRow(s),
         r \in DOMAIN s.dramAct, s.dramAct[r] = PaddedRow(p, d, i * P + r, kt)
  PROVE  LET t == Perform(s, LOAD_ACT(0, r, 0), v)
         IN  /\ Accepts(s, LOAD_ACT(0, r, 0))
             /\ AtRow(p, d, j, i, r, n, t) /\ HasRow(p, d, i * P + r, r, kt, t)
             /\ t.rows[0] = 1 /\ KeptWeights(s, t)
<1> DEFINE e == LOAD_ACT(0, r, 0)
           t == Perform(s, e, v)
           x == i * P + r
<1>1. e.op = "LOAD_ACT" /\ e.dst = 0 /\ e.addr = r /\ e.len = 0
  BY DEF LOAD_ACT, Blank
<1>2. IsMachine(s) /\ ~s.ended /\ s.act[0] = "EMPTY"
  BY DEF AtRow, Alive, NoRow
<1>2a. r \in Nat
  BY RowsPositive
<1>2b. r..r + 0 = {r} /\ 0 + 1 = 1 /\ 0 \in Nat
  BY <1>2a
<1> HIDE DEF e, x
<1>3. /\ IsMachine(t) /\ t.ended = s.ended
      /\ t.act[0] = "READY" /\ t.rows[0] = e.len + 1
      /\ \A a \in e.addr..e.addr + e.len :
           a \in DOMAIN t.actData[0] /\ t.actData[0][a] = s.dramAct[a]
      /\ KeptBias(s, t) /\ KeptWeights(s, t) /\ KeptSums(s, t) /\ KeptOuts(s, t)
      /\ KeptDram(s, t)
      /\ ~s.ended /\ s.act[0] = "EMPTY" /\ e.addr..e.addr + e.len \subseteq DOMAIN s.dramAct
           => Accepts(s, e)
  BY <1>1, <1>2, <1>2a, <1>2b, LoadsRows
<1> HIDE DEF t
<1>4. /\ t.rows[0] = 1 /\ r \in DOMAIN t.actData[0] /\ t.actData[0][r] = s.dramAct[r]
      /\ Accepts(s, e)
  BY <1>1, <1>2, <1>2b, <1>3
<1>5. HasRow(p, d, x, r, kt, t)
  BY <1>3, <1>4 DEF HasRow, x
<1>6. AtRow(p, d, j, i, r, n, t)
  BY <1>3 DEF AtRow, Alive, BiasIn, Summed, Outputs, KeptBias, KeptSums, KeptOuts, KeptDram
<1> QED
  BY <1>3, <1>4, <1>5, <1>6 DEF t, e, x

(* the array's product, *)
LEMMA TakeProduct ==
  ASSUME NEW p, NEW d, IsJob(p, d), NEW j \in Nat, NEW i \in Nat, NEW r \in Row,
         NEW n \in 0..KTiles(p) - 1, NEW s, NEW v,
         AtRow(p, d, j, i, r, n, s), HasRow(p, d, i * P + r, r, n, s), Loaded(p, d, j, n, s)
  PROVE  LET e == MATMUL(0, r, CtrlFor(p, n))
             t == Perform(s, e, v)
         IN  /\ Accepts(s, e)
             /\ AtRow(p, d, j, i, r, n + 1, t) /\ KeptWeights(s, t)
             /\ t.rows[0] = s.rows[0] - 1 /\ t.actData = s.actData
             /\ t.act[0] = IF s.rows[0] - 1 <= 0 THEN "EMPTY" ELSE "READY"
<1> DEFINE e == MATMUL(0, r, CtrlFor(p, n))
           t == Perform(s, e, v)
           x == i * P + r
           g == CtrlFor(p, n)
           w == RowTimes(PaddedRow(p, d, x, n), WeightTile(p, d, n, j))
<1>1. e.op = "MATMUL" /\ e.src = 0 /\ e.addr = r /\ e.ctrl = g
  BY DEF MATMUL, Blank
<1>2. IsMachine(s) /\ ~s.ended
  BY DEF AtRow, Alive
<1>3. KTiles(p) \in Nat \ {0} /\ n \in Nat /\ x \in Nat
  <2>1. P \in Nat \ {0} /\ r \in Nat
    BY RowsPositive
  <2>2. i * P \in Nat
    BY <2>1, Multiples
  <2>3. KTiles(p) \in Nat \ {0}
    BY TileBounds DEF IsJob, IsSize, KTiles
  <2> QED
    BY <2>1, <2>2, <2>3
<1>4. /\ (g \in {"NONE", "INIT"} <=> n = 0)
      /\ (g \in {"NONE", "LAST"} <=> n + 1 = KTiles(p))
  BY <1>3 DEF CtrlFor, CtrlOf, OneWeightTile, KTiles
<1> HIDE DEF e, x, g
<1>5. /\ IsMachine(t) /\ t.ended = s.ended
      /\ t.rows[0] = s.rows[0] - 1
      /\ t.act[0] = IF s.rows[0] - 1 <= 0 THEN "EMPTY" ELSE "READY"
      /\ t.actData = s.actData
      /\ Adds(s, t, e)
      /\ KeptBias(s, t) /\ KeptWeights(s, t) /\ KeptOuts(s, t) /\ KeptDram(s, t)
      /\ Multipliable(s, e) => Accepts(s, e)
  BY <1>1, <1>2, Multiplies
<1> HIDE DEF t
<1>6. Summed(p, d, j, x, r, n, s) /\ Outputs(p, d, j, i, r, s)
  BY DEF AtRow, x
<1>7. Multipliable(s, e)
  BY <1>1, <1>2, <1>3, <1>4, <1>6 DEF Multipliable, HasRow, Loaded, Summed
<1>8. s.actData[0][r] = PaddedRow(p, d, x, n) /\ s.array = WeightTile(p, d, n, j)
  BY DEF HasRow, Loaded, x
<1>9. Summed(p, d, j, x, r, n + 1, t)
  <2>1. t.accum = (IF n + 1 = KTiles(p) THEN "READY" ELSE "FILLING") /\ r \in DOMAIN t.accumData
    BY <1>1, <1>4, <1>5 DEF Adds
  <2>2. t.accumData[r] = Partial(p, d, j, x, n + 1)
    <3>1. CASE n = 0
      <4>1. t.accumData[r] = w
        BY <1>1, <1>4, <1>5, <1>8, <3>1 DEF Adds
      <4>2. w = Partial(p, d, j, x, 1)
        BY <1>3, <3>1, FirstTile
      <4> QED
        BY <3>1, <4>1, <4>2
    <3>2. CASE n > 0
      <4>1. r \in DOMAIN s.accumData /\ s.accumData[r] = Partial(p, d, j, x, n)
        BY <1>6, <3>2 DEF Summed
      <4>2. t.accumData[r] = RowPlus(Partial(p, d, j, x, n), w)
        BY <1>1, <1>3, <1>4, <1>5, <1>8, <3>2, <4>1 DEF Adds
      <4>3. RowPlus(Partial(p, d, j, x, n), w) = Partial(p, d, j, x, n + 1)
        BY <1>3, NextTile
      <4> QED
        BY <4>2, <4>3
    <3> QED
      BY <1>3, <3>1, <3>2
  <2> QED
    BY <1>3, <2>1, <2>2 DEF Summed
<1>10. Outputs(p, d, j, i, r, t)
  BY <1>5, <1>6 DEF Outputs, KeptOuts
<1>11. AtRow(p, d, j, i, r, n + 1, t)
  BY <1>5, <1>9, <1>10 DEF AtRow, Alive, BiasIn, KeptBias, KeptDram, x
<1> QED
  BY <1>5, <1>7, <1>11 DEF t, e

(* the vector unit, *)
LEMMA TakeVector ==
  ASSUME NEW p, NEW d, IsJob(p, d), NEW j \in Nat, NEW i \in Nat, NEW r \in Row, NEW s,
         AtRow(p, d, j, i, r, KTiles(p), s)
  PROVE  LET t == Perform(s, VECTOR(0, r), d.vec)
         IN  /\ Accepts(s, VECTOR(0, r))
             /\ AtRow(p, d, j, i, r + 1, 0, t) /\ KeptWeights(s, t) /\ KeptRows(s, t)
<1> DEFINE e == VECTOR(0, r)
           t == Perform(s, e, d.vec)
           x == i * P + r
<1>1. e.op = "VECTOR" /\ e.dst = 0 /\ e.addr = r
  BY DEF VECTOR, Blank
<1>2. IsMachine(s) /\ ~s.ended
  BY DEF AtRow, Alive
<1>3. KTiles(p) \in Nat \ {0} /\ r \in Nat
  <2>1. P \in Nat \ {0} /\ r \in Nat
    BY RowsPositive
  <2>2. KTiles(p) \in Nat \ {0}
    BY TileBounds DEF IsJob, IsSize, KTiles
  <2> QED
    BY <2>1, <2>2
<1> HIDE DEF e, x
<1>4. /\ IsMachine(t) /\ t.ended = s.ended
      /\ t.accum = "EMPTY" /\ t.accumData = s.accumData
      /\ t.out[0] = "READY"
      /\ e.addr \in DOMAIN t.outData[0]
      /\ t.outData[0][e.addr] = [c \in Row |-> Lane(s.accumData[e.addr][c], s.biasData[c], d.vec)]
      /\ \A a \in DOMAIN s.outData[0] : a # e.addr =>
           a \in DOMAIN t.outData[0] /\ t.outData[0][a] = s.outData[0][a]
      /\ KeptBias(s, t) /\ KeptWeights(s, t) /\ KeptRows(s, t) /\ KeptDram(s, t)
      /\ Finishable(s, e) => Accepts(s, e)
  BY <1>1, <1>2, Finishes
<1> HIDE DEF t
<1>5. /\ s.accum = "READY" /\ r \in DOMAIN s.accumData
      /\ s.accumData[r] = Partial(p, d, j, x, KTiles(p))
      /\ Outputs(p, d, j, i, r, s) /\ BiasIn(p, d, j, s)
  BY <1>3 DEF AtRow, Summed, x
<1>6. Finishable(s, e)
  BY <1>1, <1>2, <1>5 DEF Finishable, BiasIn, Outputs
<1>7. r \in DOMAIN t.outData[0] /\ t.outData[0][r] = ResultRow(p, d, j, x)
  BY <1>1, <1>4, <1>5 DEF ResultRow, BiasIn
<1>8. Outputs(p, d, j, i, r + 1, t)
  <2>1. ASSUME NEW a \in 0..(r + 1) - 1
        PROVE  a \in DOMAIN t.outData[0] /\ t.outData[0][a] = ResultRow(p, d, j, i * P + a)
    <3>1. CASE a = r
      BY <1>7, <3>1 DEF x
    <3>2. CASE a \in 0..r - 1
      <4>1. a \in DOMAIN s.outData[0] /\ s.outData[0][a] = ResultRow(p, d, j, i * P + a) /\ a # r
        BY <1>3, <1>5, <3>2 DEF Outputs
      <4> QED
        BY <1>1, <1>4, <4>1
    <3> QED
      BY <1>3, <3>1, <3>2
  <2> QED
    BY <1>4, <2>1 DEF Outputs
<1>9. Summed(p, d, j, i * P + (r + 1), r + 1, 0, t)
  BY <1>4 DEF Summed
<1>10. AtRow(p, d, j, i, r + 1, 0, t)
  BY <1>2, <1>4, <1>5, <1>8, <1>9 DEF AtRow, Alive, BiasIn, KeptBias, KeptDram
<1> QED
  BY <1>4, <1>6, <1>10 DEF t, e

(* The rows that a store sends out. *)
Results(p, d, j, i, n, out) == \A a \in 0..n - 1 : out[a] = ResultRow(p, d, j, i * P + a)

(* the store of the row tile, *)
LEMMA TakeStore ==
  ASSUME NEW p, NEW d, NEW j, NEW i, NEW n \in Nat \ {0}, NEW s, NEW v,
         AtRow(p, d, j, i, n, 0, s)
  PROVE  LET t == Perform(s, STORE(0, 0, n - 1), v)
         IN  /\ Accepts(s, STORE(0, 0, n - 1))
             /\ AtRow(p, d, j, i + 1, 0, 0, [t EXCEPT !.dramOut = NoData])
             /\ IsMachine(t) /\ ~t.ended
             /\ KeptWeights(s, [t EXCEPT !.dramOut = NoData])
             /\ KeptRows(s, [t EXCEPT !.dramOut = NoData])
             /\ DOMAIN t.dramOut = 0..n - 1 /\ Results(p, d, j, i, n, t.dramOut)
<1> DEFINE e == STORE(0, 0, n - 1)
           t == Perform(s, e, v)
           u == [t EXCEPT !.dramOut = NoData]
<1>1. e.op = "STORE" /\ e.src = 0 /\ e.addr = 0 /\ e.len = n - 1 /\ n - 1 \in Nat
  BY DEF STORE, Blank
<1>2. IsMachine(s) /\ ~s.ended /\ s.dramOut = NoData
  BY DEF AtRow, Alive
<1>2a. Outputs(p, d, j, i, n, s)
  BY DEF AtRow
<1>2b. s.out[0] = "READY" /\ \A a \in 0..n - 1 : /\ a \in DOMAIN s.outData[0]
                                                 /\ s.outData[0][a] = ResultRow(p, d, j, i * P + a)
  BY <1>2a DEF Outputs
<1> HIDE DEF e
<1>3. /\ IsMachine(t) /\ t.ended = s.ended /\ t.out[0] = "EMPTY" /\ t.outData = s.outData
      /\ StoresRows(s, t, e.len)
      /\ KeptBias(s, t) /\ KeptWeights(s, t) /\ KeptRows(s, t) /\ KeptSums(s, t)
      /\ Storable(s, e) => Accepts(s, e)
  BY <1>1, <1>2, Stores
<1> HIDE DEF t
<1>4. /\ DOMAIN t.dramOut = 0..n - 1
      /\ \A a \in 0..n - 1 : t.dramOut[a] = ResultRow(p, d, j, i * P + a)
      /\ Accepts(s, e)
  BY <1>1, <1>2, <1>2b, <1>3 DEF StoresRows, Storable
<1>5. /\ IsMachine(u) /\ u.dramOut = NoData /\ u.ended = t.ended /\ u.out = t.out
      /\ KeptBias(t, u) /\ KeptWeights(t, u) /\ KeptRows(t, u) /\ KeptSums(t, u)
  BY <1>3 DEF IsMachine, Fresh, KeptBias, KeptWeights, KeptRows, KeptSums
<1> HIDE DEF u
<1>6. KeptBias(s, u) /\ KeptWeights(s, u) /\ KeptRows(s, u) /\ KeptSums(s, u)
  BY <1>3, <1>5 DEF KeptBias, KeptWeights, KeptRows, KeptSums
<1>7. Summed(p, d, j, (i + 1) * P + 0, 0, 0, u)
  BY <1>6 DEF Summed, AtRow, KeptSums
<1>8. Outputs(p, d, j, i + 1, 0, u)
  BY <1>3, <1>5 DEF Outputs
<1>9. AtRow(p, d, j, i + 1, 0, 0, u)
  BY <1>2, <1>3, <1>5, <1>6, <1>7, <1>8 DEF AtRow, Alive, BiasIn, KeptBias
<1>10. Results(p, d, j, i, n, t.dramOut)
  BY <1>4 DEF Results
<1> QED
  BY <1>2, <1>3, <1>4, <1>6, <1>9, <1>10 DEF u, t, e

(* the END, *)
LEMMA TakeEnd ==
  ASSUME NEW s, IsMachine(s), ~s.ended, NEW v
  PROVE  LET t == Perform(s, END, v)
         IN  Accepts(s, END) /\ IsMachine(t) /\ t.ended /\ t.dramOut = s.dramOut
<1>1. END.op = "END"
  BY DEF END, Blank
<1> QED
  BY <1>1, Ends DEF KeptDram

(* and the bias, at the head of the program. *)
LEMMA TakeBias ==
  ASSUME NEW p, NEW d, NEW j, NEW s, Alive(s), s.bias = "EMPTY", s.accum = "EMPTY",
         s.out[0] = "EMPTY", s.dramBias = BiasTile(p, d, j), NEW v
  PROVE  LET e == LOAD_BIAS(0, BIAS_BEATS - 1)
             t == Perform(s, e, v)
         IN  Accepts(s, e) /\ AtRow(p, d, j, 0, 0, 0, t) /\ KeptWeights(s, t) /\ KeptRows(s, t)
             /\ KeptDram(s, t)
<1> DEFINE e == LOAD_BIAS(0, BIAS_BEATS - 1)
           t == Perform(s, e, v)
<1>1. e.op = "LOAD_BIAS" /\ e.len = BIAS_BEATS - 1
  BY DEF LOAD_BIAS, Blank
<1>2. IsMachine(s) /\ ~s.ended /\ s.dramOut = NoData
  BY DEF Alive
<1> HIDE DEF e
<1>3. /\ IsMachine(t) /\ t.ended = s.ended /\ t.bias = "READY" /\ t.biasData = s.dramBias
      /\ KeptRows(s, t) /\ KeptWeights(s, t) /\ KeptSums(s, t) /\ KeptOuts(s, t)
      /\ KeptDram(s, t) /\ Accepts(s, e)
  BY <1>1, <1>2, LoadsBias
<1> HIDE DEF t
<1>4. /\ Alive(t) /\ BiasIn(p, d, j, t)
  BY <1>2, <1>3 DEF Alive, BiasIn, KeptDram
<1>5. Summed(p, d, j, 0 * P + 0, 0, 0, t)
  BY <1>3 DEF Summed, KeptSums
<1>6. Outputs(p, d, j, 0, 0, t)
  BY <1>3 DEF Outputs, KeptOuts
<1> QED
  BY <1>3, <1>4, <1>5, <1>6 DEF AtRow, t, e

-----------------------------------------------------------------------------
(* Collecting *)

(* C after the first j column tiles and i row tiles of the next one. *)
Whole(p) == (0..p.M - 1) \X (0..p.N - 1)
(* The cells of these tiles. *)
Region(p, j, i) ==
  {cell \in Whole(p) : cell[2] < j * P \/ (cell[2] < (j + 1) * P /\ cell[1] < i * P)}

(* They are all there, written once, and right. *)
Gathered(p, d, c, j, i) ==
  /\ DOMAIN c = Region(p, j, i)
  /\ \A cell \in DOMAIN c : c[cell] = <<Product(p, d, cell[1], cell[2])>>

(* C after the rows of a store are collected into c. *)
CollectInto(p, c, out, i, j) ==
  LET cells == Cells(i, j, InTile(p.M, i), InTile(p.N, j))
  IN  [cell \in DOMAIN c \cup cells |->
         IF cell \in cells
         THEN <<out[cell[1] - i * P][cell[2] - j * P]>>
                \o (IF cell \in DOMAIN c THEN c[cell] ELSE <<>>)
         ELSE c[cell]]

(* A cell is a row and a column. *)
LEMMA WholeParts ==
  ASSUME NEW p, IsSize(p), NEW cell \in Whole(p)
  PROVE  /\ cell[1] \in Nat /\ cell[1] < p.M /\ cell[2] \in Nat /\ cell[2] < p.N
         /\ cell = <<cell[1], cell[2]>>
BY DEF Whole, IsSize

(* A store's cells are those of its tile. *)
LEMMA CellsRegion ==
  ASSUME NEW p, IsSize(p), NEW i \in Tiles(p.M), NEW j \in Tiles(p.N)
  PROVE  \A cell : cell \in Cells(i, j, InTile(p.M, i), InTile(p.N, j)) <=>
           /\ cell \in Whole(p)
           /\ i * P <= cell[1] /\ cell[1] < (i + 1) * P
           /\ j * P <= cell[2] /\ cell[2] < (j + 1) * P
<1> DEFINE a == i * P
           b == j * P
           m == InTile(p.M, i)
           n == InTile(p.N, j)
           S == Cells(i, j, m, n)
<1>1. P \in Nat \ {0} /\ p.M \in Nat \ {0} /\ p.N \in Nat \ {0}
  BY RowsPositive DEF IsSize
<1>2. /\ a \in Nat /\ (i + 1) * P = a + P /\ m \in 1..P /\ a + m <= p.M
      /\ m = IF p.M - a < P THEN p.M - a ELSE P
  BY <1>1, TileParts DEF InTile
<1>3. /\ b \in Nat /\ (j + 1) * P = b + P /\ n \in 1..P /\ b + n <= p.N
      /\ n = IF p.N - b < P THEN p.N - b ELSE P
  BY <1>1, TileParts DEF InTile
<1>4. S = {<<a + r, b + c>> : r \in 0..m - 1, c \in 0..n - 1}
  BY DEF Cells
<1> HIDE DEF a, b, m, n, S
<1>5. ASSUME NEW cell \in S
      PROVE  /\ cell \in Whole(p) /\ a <= cell[1] /\ cell[1] < a + P
             /\ b <= cell[2] /\ cell[2] < b + P
  <2>1. PICK r \in 0..m - 1, c \in 0..n - 1 : cell = <<a + r, b + c>>
    BY <1>4
  <2>2. a + r \in 0..p.M - 1 /\ b + c \in 0..p.N - 1
    BY <1>1, <1>2, <1>3
  <2> QED
    BY <1>1, <1>2, <1>3, <2>1, <2>2 DEF Whole
<1>6. ASSUME NEW cell \in Whole(p), a <= cell[1], cell[1] < a + P, b <= cell[2], cell[2] < b + P
      PROVE  cell \in S
  <2> DEFINE r == cell[1] - a
             c == cell[2] - b
  <2>1. /\ cell[1] \in Nat /\ cell[1] < p.M /\ cell[2] \in Nat /\ cell[2] < p.N
        /\ cell = <<cell[1], cell[2]>>
    BY WholeParts
  <2>2. r \in 0..m - 1 /\ c \in 0..n - 1 /\ a + r = cell[1] /\ b + c = cell[2]
    BY <1>1, <1>2, <1>3, <1>6, <2>1
  <2> HIDE DEF r, c
  <2>3. cell = <<a + r, b + c>>
    BY <2>1, <2>2
  <2> QED
    BY <1>4, <2>2, <2>3
<1> QED
  BY <1>2, <1>3, <1>5, <1>6 DEF a, b, m, n, S

(* Storing row tile i: its cells are new, and get their values. *)
LEMMA Collects ==
  ASSUME NEW p, NEW d, IsJob(p, d), NEW i \in Tiles(p.M), NEW j \in Tiles(p.N),
         NEW c, Gathered(p, d, c, j, i), NEW out,
         Results(p, d, j, i, InTile(p.M, i), out)
  PROVE  Gathered(p, d, CollectInto(p, c, out, i, j), j, i + 1)
<1> DEFINE S == Cells(i, j, InTile(p.M, i), InTile(p.N, j))
           e == CollectInto(p, c, out, i, j)
           a == i * P
           b == j * P
           New(cell) == <<out[cell[1] - a][cell[2] - b]>>
                          \o (IF cell \in DOMAIN c THEN c[cell] ELSE <<>>)
<1>1. P \in Nat \ {0} /\ Row = 0..P - 1 /\ IsSize(p)
  BY RowsPositive DEF IsJob
<1>2. /\ a \in Nat /\ (i + 1) * P = a + P /\ i \in Nat /\ a + InTile(p.M, i) <= p.M
      /\ InTile(p.M, i) = IF p.M - a < P THEN p.M - a ELSE P
  BY <1>1, TileParts DEF InTile, IsSize
<1>3. b \in Nat /\ (j + 1) * P = b + P /\ j \in Nat
  BY <1>1, TileParts DEF IsSize
<1>4. \A cell : cell \in S <=>
        /\ cell \in Whole(p) /\ a <= cell[1] /\ cell[1] < a + P
        /\ b <= cell[2] /\ cell[2] < b + P
  BY <1>1, <1>2, <1>3, CellsRegion
<1>5. e = [cell \in DOMAIN c \cup S |-> IF cell \in S THEN New(cell) ELSE c[cell]]
  BY DEF CollectInto
<1>6. /\ DOMAIN c = {cell \in Whole(p) : cell[2] < b \/ (cell[2] < b + P /\ cell[1] < a)}
      /\ \A cell \in DOMAIN c : c[cell] = <<Product(p, d, cell[1], cell[2])>>
  BY <1>3 DEF Gathered, Region
<1> HIDE DEF S, e, New, a, b
<1>7. ASSUME NEW cell \in S
      PROVE  cell \notin DOMAIN c
  <2>1. /\ cell \in Whole(p) /\ a <= cell[1] /\ b <= cell[2]
    BY <1>4
  <2>2. cell[1] \in Nat /\ cell[2] \in Nat
    BY <1>1, <2>1, WholeParts
  <2> QED
    BY <1>2, <1>3, <1>6, <2>1, <2>2
<1>8. ASSUME NEW cell \in S
      PROVE  New(cell) = <<Product(p, d, cell[1], cell[2])>>
  <2> DEFINE r == cell[1] - a
             k == cell[2] - b
  <2>1. /\ cell \in Whole(p) /\ a <= cell[1] /\ cell[1] < a + P /\ b <= cell[2] /\ cell[2] < b + P
    BY <1>4
  <2>2. cell[1] \in Nat /\ cell[1] < p.M /\ cell[2] \in Nat /\ cell[2] < p.N /\ p.M \in Nat
    BY <1>1, <2>1, WholeParts DEF IsSize
  <2>3. /\ r \in 0..InTile(p.M, i) - 1 /\ a + r = cell[1] /\ k \in Row /\ b + k = cell[2]
        /\ a + r \in 0..p.M - 1
    <3> DEFINE m == InTile(p.M, i)
    <3>1. m = IF p.M - a < P THEN p.M - a ELSE P
      BY <1>2
    <3> HIDE DEF m
    <3>2. r \in 0..m - 1
      <4> DEFINE x == cell[1]
                 t == p.M
      <4>1. /\ x \in Nat /\ t \in Nat /\ a \in Nat /\ P \in Nat /\ x < t /\ a <= x /\ x < a + P
            /\ m = (IF t - a < P THEN t - a ELSE P) /\ r = x - a
        BY <1>1, <1>2, <2>1, <2>2, <3>1 DEF r
      <4> HIDE DEF x, t
      <4> QED
        BY <4>1
    <3>3. k \in 0..P - 1
      BY <1>1, <1>3, <2>1, <2>2
    <3>4. a + r = cell[1] /\ b + k = cell[2] /\ cell[1] \in 0..p.M - 1
      BY <1>2, <1>3, <2>2
    <3> QED
      BY <1>1, <3>2, <3>3, <3>4 DEF m
  <2> HIDE DEF r, k
  <2>4. out[r] = ResultRow(p, d, j, a + r)
    BY <2>3 DEF a, Results
  <2>5. ResultRow(p, d, j, a + r)[k] = Product(p, d, a + r, b + k)
    BY <1>3, <2>2, <2>3, ResultExact DEF b
  <2>6. New(cell) = <<out[r][k]>> \o <<>>
    BY <1>7 DEF New, r, k
  <2>7. out[r][k] = Product(p, d, cell[1], cell[2])
    BY <2>3, <2>4, <2>5
  <2> QED
    BY <2>6, <2>7
<1>9. DOMAIN e = DOMAIN c \cup S
  BY <1>5
<1>10. ASSUME NEW cell \in DOMAIN e PROVE e[cell] = <<Product(p, d, cell[1], cell[2])>>
  BY <1>5, <1>6, <1>8, <1>9
<1>11. DOMAIN c \cup S
         = {cell \in Whole(p) : cell[2] < b \/ (cell[2] < b + P /\ cell[1] < a + P)}
  <2>1. ASSUME NEW cell \in Whole(p)
        PROVE  cell \in DOMAIN c \cup S
                 <=> cell[2] < b \/ (cell[2] < b + P /\ cell[1] < a + P)
    <3> DEFINE x == cell[1]
               y == cell[2]
    <3>1. x \in Nat /\ y \in Nat
      BY <1>1, WholeParts
    <3>2. cell \in DOMAIN c <=> y < b \/ (y < b + P /\ x < a)
      BY <1>6
    <3>3. cell \in S <=> a <= x /\ x < a + P /\ b <= y /\ y < b + P
      BY <1>4
    <3> HIDE DEF x, y
    <3>4. cell \in DOMAIN c \cup S <=> y < b \/ (y < b + P /\ x < a + P)
      BY <1>1, <1>2, <1>3, <3>1, <3>2, <3>3
    <3> QED
      BY <3>4 DEF x, y
  <2>2. \A cell \in DOMAIN c \cup S : cell \in Whole(p)
    BY <1>4, <1>6
  <2> QED
    BY <2>1, <2>2
<1>12. DOMAIN e = Region(p, j, i + 1)
  BY <1>2, <1>3, <1>9, <1>11 DEF Region, b
<1> QED
  BY <1>10, <1>12 DEF Gathered, e

(* A column tile is complete after its last row tile, *)
LEMMA ColumnDone ==
  ASSUME NEW p, NEW d, IsSize(p), NEW j \in Nat, NEW c,
         Gathered(p, d, c, j, CeilDiv(p.M, P))
  PROVE  Gathered(p, d, c, j + 1, 0)
<1> DEFINE m == CeilDiv(p.M, P)
           a == m * P
           b == j * P
           e == (j + 1) * P
           f == ((j + 1) + 1) * P
<1>1. P \in Nat \ {0} /\ a \in Nat /\ p.M <= a
  <2>1. P \in Nat \ {0}
    BY RowsPositive
  <2>2. m \in Nat /\ p.M <= m * P
    BY TileBounds DEF IsSize
  <2>3. m * P \in Nat
    BY <2>1, <2>2, Multiples
  <2> QED
    BY <2>1, <2>2, <2>3
<1>2. b \in Nat /\ e = b + P /\ f \in Nat /\ 0 * P = 0
  <2>1. j \in Int /\ P \in Int /\ P \in Nat /\ (j + 1) + 1 \in Nat
    BY <1>1
  <2> QED
    BY <2>1, Multiples
<1> HIDE DEF a, b, e, f
<1>3. ASSUME NEW cell \in Whole(p)
      PROVE  (cell[2] < b \/ (cell[2] < e /\ cell[1] < a))
               <=> (cell[2] < e \/ (cell[2] < f /\ cell[1] < 0))
  <2>1. cell[1] \in Nat /\ cell[1] < p.M /\ cell[2] \in Nat /\ p.M \in Nat
    BY WholeParts DEF IsSize
  <2> QED
    BY <1>1, <1>2, <2>1
<1>4. Region(p, j, m) = Region(p, j + 1, 0)
  BY <1>2, <1>3 DEF Region, a, b, e, f
<1> QED
  BY <1>4 DEF Gathered

(* C after the last column tile, *)
LEMMA AllDone ==
  ASSUME NEW p, NEW d, IsSize(p), NEW c, Gathered(p, d, c, CeilDiv(p.N, P), 0)
  PROVE  DOMAIN c = Whole(p)
<1> DEFINE b == CeilDiv(p.N, P) * P
<1>1. b \in Nat /\ p.N <= b
  <2>1. P \in Nat \ {0}
    BY RowsPositive
  <2>2. CeilDiv(p.N, P) \in Nat /\ p.N <= b
    BY TileBounds DEF IsSize
  <2>3. b \in Nat
    BY <2>1, <2>2, Multiples
  <2> QED
    BY <2>2, <2>3
<1> HIDE DEF b
<1>2. \A cell \in Whole(p) : cell[2] < b
  <2> SUFFICES ASSUME NEW cell \in Whole(p) PROVE cell[2] < b
    OBVIOUS
  <2>1. cell[2] \in Nat /\ cell[2] < p.N /\ p.N \in Nat
    BY WholeParts DEF IsSize
  <2> QED
    BY <1>1, <2>1
<1> QED
  BY <1>2 DEF Gathered, Region, b

(* and before the first. *)
LEMMA NothingYet ==
  ASSUME NEW p, NEW d, IsSize(p)
  PROVE  Gathered(p, d, <<>>, 0, 0)
<1>1. 0 * P = 0 /\ P \in Nat /\ (0 + 1) * P = P
  BY RowsPositive
<1>2. \A cell \in Whole(p) : cell[1] \in Nat /\ cell[2] \in Nat
  BY WholeParts
<1>3. Region(p, 0, 0) = {}
  BY <1>1, <1>2 DEF Region
<1> QED
  BY <1>3 DEF Gathered

(* What is in C is right, whatever has been gathered. *)
LEMMA GatheredExact ==
  ASSUME NEW p, NEW d, IsSize(p), NEW c, NEW j, NEW i, Gathered(p, d, c, j, i)
  PROVE  \A cell \in DOMAIN c :
           /\ cell[1] < p.M /\ cell[2] < p.N
           /\ c[cell] = <<Product(p, d, cell[1], cell[2])>>
<1> SUFFICES ASSUME NEW cell \in DOMAIN c
             PROVE  /\ cell[1] < p.M /\ cell[2] < p.N
                    /\ c[cell] = <<Product(p, d, cell[1], cell[2])>>
  OBVIOUS
<1>1. cell \in Whole(p) /\ c[cell] = <<Product(p, d, cell[1], cell[2])>>
  BY DEF Gathered, Region
<1> QED
  BY <1>1, WholeParts

-----------------------------------------------------------------------------
(* Driving *)

(* Binding a tile sets one source array and nothing else. *)
ActTile(p, d, i, r, kt) ==
  [a \in Row |-> [c \in Row |->
     IF a = r THEN Element(d.A, i * P + r, kt * P + c, p.M, p.K) ELSE 0]]

(* What the driver binds a tile to, as in Bind. *)
Bound(p, d, s, tile) ==
  CASE tile = NoTile -> s
    [] tile # NoTile /\ tile[1] = "weight" ->
         [s EXCEPT !.dramWeight = WeightTile(p, d, tile[2], tile[3])]
    [] tile # NoTile /\ tile[1] = "act" ->
         [s EXCEPT !.dramAct = ActTile(p, d, tile[2], tile[3], tile[4])]
    [] tile # NoTile /\ tile[1] = "bias" -> [s EXCEPT !.dramBias = BiasTile(p, d, tile[2])]
    [] tile # NoTile /\ tile[1] = "store" -> s

(* Only a source array differs. *)
SameButSource(s, b) == Kept(s, b) /\ b.ended = s.ended /\ b.dramOut = s.dramOut

(* Binding a source does not move the machine. *)
LEMMA SameRow ==
  ASSUME NEW p, NEW d, NEW j, NEW i, NEW r, NEW n, NEW s, NEW b, IsMachine(b),
         SameButSource(s, b), AtRow(p, d, j, i, r, n, s)
  PROVE  AtRow(p, d, j, i, r, n, b)
BY DEF AtRow, Alive, BiasIn, Summed, Outputs, SameButSource, Kept, KeptBias, KeptSums, KeptOuts

(* What each binding makes readable: nothing, *)
LEMMA BoundNone ==
  ASSUME NEW p, NEW d, NEW s
  PROVE  Bound(p, d, s, NoTile) = s
BY DEF Bound, NoTile

(* nothing for a store, *)
LEMMA BoundStore ==
  ASSUME NEW p, NEW d, NEW s, NEW i, NEW j
  PROVE  Bound(p, d, s, <<"store", i, j>>) = s
<1> DEFINE tile == <<"store", i, j>>
<1>1. tile # NoTile /\ tile[1] = "store"
  BY DEF NoTile
<1> HIDE DEF tile
<1> QED
  BY <1>1 DEF Bound, tile

(* a padded weight tile, *)
LEMMA BoundWeights ==
  ASSUME NEW p, NEW d, NEW s, IsMachine(s), NEW kt, NEW j
  PROVE  LET b == Bound(p, d, s, <<"weight", kt, j>>)
         IN  /\ IsMachine(b) /\ SameButSource(s, b)
             /\ [x \in Row |-> b.dramWeight[0 + x]] = WeightTile(p, d, kt, j)
<1> DEFINE tile == <<"weight", kt, j>>
           b == Bound(p, d, s, tile)
           w == WeightTile(p, d, kt, j)
<1>1. tile # NoTile /\ tile[1] = "weight" /\ tile[2] = kt /\ tile[3] = j
  BY DEF NoTile
<1> HIDE DEF tile
<1>2. b = [s EXCEPT !.dramWeight = w]
  BY <1>1 DEF Bound
<1>3. w = [x \in Row |-> w[x]]
  BY DEF WeightTile
<1> HIDE DEF b, w
<1>4. IsMachine(b) /\ SameButSource(s, b) /\ b.dramWeight = w
  BY <1>2 DEF IsMachine, Fresh, SameButSource, Kept, KeptRows, KeptWeights, KeptBias, KeptSums,
              KeptOuts
<1>5. \A x \in Row : w[0 + x] = w[x]
  BY RowsPositive
<1>6. [x \in Row |-> b.dramWeight[0 + x]] = w
  BY <1>3, <1>4, <1>5
<1> QED
  BY <1>4, <1>6 DEF b, w, tile

(* a padded row, *)
LEMMA BoundRow ==
  ASSUME NEW p, NEW d, NEW s, IsMachine(s), NEW i, NEW r \in Row, NEW kt
  PROVE  LET b == Bound(p, d, s, <<"act", i, r, kt>>)
         IN  /\ IsMachine(b) /\ SameButSource(s, b)
             /\ r \in DOMAIN b.dramAct /\ b.dramAct[r] = PaddedRow(p, d, i * P + r, kt)
<1> DEFINE tile == <<"act", i, r, kt>>
           b == Bound(p, d, s, tile)
           w == ActTile(p, d, i, r, kt)
<1>1. tile # NoTile /\ tile[1] = "act" /\ tile[2] = i /\ tile[3] = r /\ tile[4] = kt
  BY DEF NoTile
<1> HIDE DEF tile
<1>2. b = [s EXCEPT !.dramAct = w]
  BY <1>1 DEF Bound
<1>3. r \in DOMAIN w /\ w[r] = PaddedRow(p, d, i * P + r, kt)
  BY DEF ActTile, PaddedRow
<1> HIDE DEF b, w
<1>4. IsMachine(b) /\ SameButSource(s, b) /\ b.dramAct = w
  BY <1>2 DEF IsMachine, Fresh, SameButSource, Kept, KeptRows, KeptWeights, KeptBias, KeptSums,
              KeptOuts
<1> QED
  BY <1>3, <1>4 DEF b, tile

(* a padded bias. *)
LEMMA BoundBias ==
  ASSUME NEW p, NEW d, NEW s, IsMachine(s), NEW j
  PROVE  LET b == Bound(p, d, s, <<"bias", j>>)
         IN  /\ IsMachine(b) /\ SameButSource(s, b) /\ b.dramBias = BiasTile(p, d, j)
<1> DEFINE tile == <<"bias", j>>
           b == Bound(p, d, s, tile)
           w == BiasTile(p, d, j)
<1>1. tile # NoTile /\ tile[1] = "bias" /\ tile[2] = j
  BY DEF NoTile
<1> HIDE DEF tile
<1>2. b = [s EXCEPT !.dramBias = w]
  BY <1>1 DEF Bound
<1> HIDE DEF b, w
<1>4. IsMachine(b) /\ SameButSource(s, b) /\ b.dramBias = w
  BY <1>2 DEF IsMachine, Fresh, SameButSource, Kept, KeptRows, KeptWeights, KeptBias, KeptSums,
              KeptOuts
<1> QED
  BY <1>4 DEF b, w, tile
-----------------------------------------------------------------------------
(* Where a run of the tiled program is, by its next instruction. *)
Between(p, d, j, s) ==
  NoRow(s) /\ s.wgt = "EMPTY" /\ (OneWeightTile(p) => Loaded(p, d, j, 0, s))

(* At the head of the program, before the first row. *)
AtHead(p, d, j, pc, s, c) ==
  /\ Gathered(p, d, c, j, 0)
  /\ \/ pc \in {1, 2} /\ s = Fresh
     \/ /\ OneWeightTile(p) /\ pc \in {3, 4}
        /\ AtRow(p, d, j, 0, 0, 0, s) /\ NoRow(s)
        /\ IF pc = 3 THEN s.wgt = "EMPTY" ELSE Staged(p, d, j, 0, s)

(* The k-th instruction of the row, in tile n of K. *)
Stage(p, d, j, i, r, n, k, s) ==
  LET In == HasRow(p, d, i * P + r, r, n, s) /\ s.rows[0] = 1
  IN  IF OneWeightTile(p)
      THEN /\ s.wgt = "EMPTY" /\ Loaded(p, d, j, 0, s)
           /\ (k = 1 /\ NoRow(s)) \/ (k = 2 /\ In)
      ELSE \/ k = 4 * n + 1 /\ NoRow(s) /\ s.wgt = "EMPTY"
           \/ k = 4 * n + 2 /\ NoRow(s) /\ Staged(p, d, j, n, s)
           \/ k = 4 * n + 3 /\ In /\ Staged(p, d, j, n, s)
           \/ k = 4 * n + 4 /\ In /\ s.wgt = "EMPTY" /\ Loaded(p, d, j, n, s)

(* In the reduction of a row, at the tile n of K. *)
AtTile(p, d, j, i, r, n, pc, s, c) ==
  /\ Gathered(p, d, c, j, i) /\ AtRow(p, d, j, i, r, n, s)
  /\ Stage(p, d, j, i, r, n, pc - RowAt(p, i, r), s)

(* Before the row's VECTOR. *)
AtVector(p, d, j, i, r, pc, s, c) ==
  /\ Gathered(p, d, c, j, i) /\ AtRow(p, d, j, i, r, KTiles(p), s) /\ Between(p, d, j, s)
  /\ pc = RowAt(p, i, r) + RowLen(p)

(* Before the row tile's STORE. *)
AtStore(p, d, j, i, pc, s, c) ==
  /\ Gathered(p, d, c, j, i) /\ AtRow(p, d, j, i, InTile(p.M, i), 0, s) /\ Between(p, d, j, s)
  /\ pc = RowAt(p, i, InTile(p.M, i)) + 1

(* Before END. *)
AtEnd(p, d, j, pc, s, c) ==
  Gathered(p, d, c, j + 1, 0) /\ pc = Len(ColumnRun(p, j)) /\ IsMachine(s) /\ ~s.ended

(* Past it. *)
Over(p, d, j, pc, c) == Gathered(p, d, c, j + 1, 0) /\ pc = Len(ColumnRun(p, j)) + 1

(* At one of these places: the invariant of a run. *)
Here(p, d, j, pc, s, c) ==
  \/ AtHead(p, d, j, pc, s, c)
  \/ \E i \in Tiles(p.M) : \E r \in 0..InTile(p.M, i) - 1 :
       \/ \E n \in 0..KTiles(p) - 1 : AtTile(p, d, j, i, r, n, pc, s, c)
       \/ AtVector(p, d, j, i, r, pc, s, c)
  \/ \E i \in Tiles(p.M) : AtStore(p, d, j, i, pc, s, c)
  \/ AtEnd(p, d, j, pc, s, c)
  \/ Over(p, d, j, pc, c)

(* The next instruction is accepted, and the run goes on. *)
Proceeds(p, d, j, pc, s, c) ==
  LET step == ColumnRun(p, j)[pc]
      bound == Bound(p, d, s, step.tile)
      ran == Perform(bound, step.ins, d.vec)
  IN  /\ pc \in 1..Len(ColumnRun(p, j)) /\ Accepts(bound, step.ins)
      /\ IF step.ins.op = "STORE"
         THEN Here(p, d, j, pc + 1, [ran EXCEPT !.dramOut = NoData],
                   CollectInto(p, c, ran.dramOut, step.tile[2], step.tile[3]))
         ELSE Here(p, d, j, pc + 1, ran, c)

(* A place in a tile, by how far into its row the instruction is. *)
LEMMA AtTileBy ==
  ASSUME NEW p, NEW d, NEW j, NEW i, NEW r, NEW n, NEW pc, NEW s, NEW c, NEW k,
         k = pc - RowAt(p, i, r), Gathered(p, d, c, j, i), AtRow(p, d, j, i, r, n, s),
         Stage(p, d, j, i, r, n, k, s)
  PROVE  AtTile(p, d, j, i, r, n, pc, s, c)
BY DEF AtTile

(* How a step that is not a store is shown to proceed. *)
LEMMA ProceedsBy ==
  ASSUME NEW p, NEW d, NEW j, NEW pc, NEW s, NEW c, NEW e, NEW tile,
         pc \in 1..Len(ColumnRun(p, j)), ColumnRun(p, j)[pc] = With(e, tile),
         e.op # "STORE", Accepts(Bound(p, d, s, tile), e),
         Here(p, d, j, pc + 1, Perform(Bound(p, d, s, tile), e, d.vec), c)
  PROVE  Proceeds(p, d, j, pc, s, c)
BY DEF Proceeds, With

(* From one row to the next. *)
LEMMA RowStarts ==
  ASSUME NEW p, NEW d, IsJob(p, d), NEW j \in Nat, NEW i \in Tiles(p.M),
         NEW r \in 0..InTile(p.M, i), NEW s, NEW c,
         Gathered(p, d, c, j, i), AtRow(p, d, j, i, r, 0, s), Between(p, d, j, s)
  PROVE  Here(p, d, j, RowAt(p, i, r) + 1, s, c)
<1> DEFINE pc == RowAt(p, i, r) + 1
           n == InTile(p.M, i)
<1>1. n \in Nat \ {0}
  <2>1. n \in 1..P /\ P \in Nat
    BY TileParts, RowsPositive DEF IsJob, IsSize
  <2> QED
    BY <2>1
<1>2. RowAt(p, i, r) \in Nat
  BY RowPositions DEF IsJob
<1>3. CASE r = n
  BY <1>3 DEF Here, AtStore
<1>4. CASE r \in 0..n - 1
  <2>1. 0 \in 0..KTiles(p) - 1
    BY TileBounds DEF IsJob, IsSize, KTiles
  <2>2. pc - RowAt(p, i, r) = 1
    BY <1>2
  <2>3. Stage(p, d, j, i, r, 0, 1, s)
    BY DEF Stage, Between
  <2>4. AtTile(p, d, j, i, r, 0, pc, s, c)
    BY <2>2, <2>3 DEF AtTile
  <2> QED
    BY <1>4, <2>1, <2>4 DEF Here
<1> QED
  BY <1>1, <1>3, <1>4

(* The instructions before the first row. *)
LEMMA HeadSteps ==
  ASSUME NEW p, IsSize(p), NEW j \in Nat
  PROVE  LET run == ColumnRun(p, j)
         IN  /\ run[1] = With(NOP, NoTile)
             /\ run[2] = With(LOAD_BIAS(0, BIAS_BEATS - 1), <<"bias", j>>)
             /\ OneWeightTile(p) =>
                  /\ run[3] = With(LOAD_WGT(0, P - 1), <<"weight", 0, j>>)
                  /\ run[4] = With(SWAP_WGT, NoTile)
             /\ \A k \in 1..HeadLen(p) : InRun(p, j, k)
             /\ 0 \in Tiles(p.M) /\ RowAt(p, 0, 0) = HeadLen(p)
<1> DEFINE run == ColumnRun(p, j)
<1>1. 0 \in Tiles(p.M)
  BY TileBounds DEF IsSize, Tiles
<1>2. RowAt(p, 0, 0) = HeadLen(p)
  BY <1>1, RowPositions
<1>3. /\ run[1] = Do(NOP)
      /\ run[2] = With(LOAD_BIAS(0, BIAS_BEATS - 1), <<"bias", j>>)
      /\ OneWeightTile(p) => run[3] = LoadWeights(0, j) /\ run[4] = Do(SWAP_WGT)
  BY RunAtPosition
<1>4. HeadLen(p) \in 1..Len(run) - 1
  <2>1. \A x \in 0..InTile(p.M, 0) * RowLen(p) + 1 : RowAt(p, 0, 0) + x \in 1..Len(run) - 1
    BY <1>1, RunAtPosition
  <2>2. 0 \in 0..InTile(p.M, 0) * RowLen(p) + 1
    <3>1. InTile(p.M, 0) \in 1..P /\ P \in Nat /\ RowLen(p) \in Nat
      BY <1>1, TileParts, RowsPositive, LengthsPositive DEF IsSize
    <3>2. InTile(p.M, 0) * RowLen(p) \in Nat
      BY <3>1, Multiples
    <3> QED
      BY <3>2
  <2>3. HeadLen(p) + 0 \in 1..Len(run) - 1
    BY <1>2, <2>1, <2>2
  <2> QED
    BY <2>3, LengthsPositive
<1>5. \A k \in 1..HeadLen(p) : InRun(p, j, k)
  <2>1. HeadLen(p) \in Nat
    BY LengthsPositive
  <2>2. Len(run) \in Nat
    BY RunAtPosition, LenProperties
  <2> QED
    BY <1>4, <2>1, <2>2 DEF InRun
<1> QED
  BY <1>1, <1>2, <1>3, <1>5 DEF Do, With, LoadWeights

(* A fresh machine with a source bound is ready for a run. *)
LEMMA FreshReady ==
  ASSUME NEW b, IsMachine(b), SameButSource(Fresh, b)
  PROVE  /\ Alive(b) /\ b.bias = "EMPTY" /\ b.accum = "EMPTY" /\ b.out[0] = "EMPTY"
         /\ b.act[0] = "EMPTY" /\ b.wgt = "EMPTY"
BY FreshMachine DEF Alive, SameButSource, Kept, KeptBias, KeptSums, KeptOuts, KeptRows, KeptWeights

(* Nothing before the first row is rejected. *)
LEMMA HeadProceeds ==
  ASSUME NEW p, NEW d, IsJob(p, d), NEW j \in Nat, NEW pc, NEW s, NEW c,
         AtHead(p, d, j, pc, s, c)
  PROVE  Proceeds(p, d, j, pc, s, c)
<1> DEFINE run == ColumnRun(p, j)
<1>0. IsSize(p)
  BY DEF IsJob
<1>1. /\ run[1] = With(NOP, NoTile)
      /\ run[2] = With(LOAD_BIAS(0, BIAS_BEATS - 1), <<"bias", j>>)
      /\ OneWeightTile(p) =>
           /\ run[3] = With(LOAD_WGT(0, P - 1), <<"weight", 0, j>>)
           /\ run[4] = With(SWAP_WGT, NoTile)
      /\ 0 \in Tiles(p.M) /\ RowAt(p, 0, 0) = HeadLen(p)
  BY <1>0, HeadSteps
<1>2. \A k \in 1..HeadLen(p) : k \in 1..Len(run)
  <2>1. \A k \in 1..HeadLen(p) : InRun(p, j, k)
    BY <1>0, HeadSteps
  <2>2. Len(run) \in Nat
    BY <1>0, RunAtPosition, LenProperties
  <2> QED
    BY <2>1, <2>2 DEF InRun
<1>3. 0 \in 0..InTile(p.M, 0)
  <2>1. InTile(p.M, 0) \in 1..P /\ P \in Nat
    BY <1>0, <1>1, TileParts, RowsPositive DEF IsSize
  <2> QED
    BY <2>1
<1>4. Gathered(p, d, c, j, 0)
  BY DEF AtHead
<1>5. CASE pc = 1 /\ s = Fresh
  <2>1. NOP.op = "NOP"
    BY DEF NOP, Blank
  <2>2. Perform(s, NOP, d.vec) = s /\ Accepts(s, NOP)
    BY <1>5, <2>1, FreshMachine, Waits
  <2>3. Here(p, d, j, 1 + 1, s, c)
    BY <1>4, <1>5 DEF Here, AtHead
  <2>4. 1 \in 1..Len(run)
    BY <1>2 DEF HeadLen
  <2> QED
    BY <1>1, <1>5, <2>1, <2>2, <2>3, <2>4, BoundNone, ProceedsBy
<1>6. CASE pc = 2 /\ s = Fresh
  <2> DEFINE tile == <<"bias", j>>
             e == LOAD_BIAS(0, BIAS_BEATS - 1)
             b == Bound(p, d, s, tile)
             t == Perform(b, e, d.vec)
  <2>1. IsMachine(b) /\ SameButSource(Fresh, b) /\ b.dramBias = BiasTile(p, d, j)
    BY <1>6, FreshMachine, BoundBias
  <2>2. /\ Alive(b) /\ b.bias = "EMPTY" /\ b.accum = "EMPTY" /\ b.out[0] = "EMPTY"
        /\ b.act[0] = "EMPTY" /\ b.wgt = "EMPTY"
    BY <2>1, FreshReady
  <2>3. Accepts(b, e) /\ AtRow(p, d, j, 0, 0, 0, t) /\ KeptWeights(b, t) /\ KeptRows(b, t)
    BY <2>1, <2>2, TakeBias
  <2>4. e.op # "STORE"
    BY DEF LOAD_BIAS, Blank
  <2> HIDE DEF e, b, t
  <2>5. NoRow(t) /\ t.wgt = "EMPTY"
    BY <2>2, <2>3 DEF NoRow, KeptWeights, KeptRows
  <2>6. Here(p, d, j, 2 + 1, t, c)
    <3>1. CASE OneWeightTile(p)
      BY <1>4, <2>3, <2>5, <3>1 DEF Here, AtHead
    <3>2. CASE ~OneWeightTile(p)
      <4>1. RowAt(p, 0, 0) = 2
        BY <1>1, <3>2 DEF HeadLen
      <4>2. Between(p, d, j, t)
        BY <2>5, <3>2 DEF Between
      <4> QED
        BY <1>1, <1>3, <1>4, <2>3, <4>1, <4>2, RowStarts
    <3> QED
      BY <3>1, <3>2
  <2>7. 2 \in 1..Len(run)
    BY <1>2 DEF HeadLen
  <2> QED
    BY <1>1, <1>6, <2>3, <2>4, <2>6, <2>7, ProceedsBy DEF e, b, t
<1>7. CASE OneWeightTile(p) /\ pc = 3 /\ AtRow(p, d, j, 0, 0, 0, s) /\ NoRow(s) /\ s.wgt = "EMPTY"
  <2> DEFINE tile == <<"weight", 0, j>>
             e == LOAD_WGT(0, P - 1)
             b == Bound(p, d, s, tile)
             t == Perform(b, e, d.vec)
  <2>0. IsMachine(s)
    BY <1>7 DEF AtRow, Alive
  <2>1. /\ IsMachine(b) /\ SameButSource(s, b)
        /\ [x \in Row |-> b.dramWeight[0 + x]] = WeightTile(p, d, 0, j)
    BY <2>0, BoundWeights
  <2>2. AtRow(p, d, j, 0, 0, 0, b) /\ b.wgt = "EMPTY" /\ NoRow(b)
    BY <1>7, <2>1, SameRow DEF SameButSource, Kept, KeptWeights, KeptRows, NoRow
  <2>3. /\ Accepts(b, e) /\ AtRow(p, d, j, 0, 0, 0, t) /\ Staged(p, d, j, 0, t)
        /\ KeptRows(b, t)
    BY <2>1, <2>2, TakeWeights
  <2>4. e.op # "STORE"
    BY DEF LOAD_WGT, Blank
  <2> HIDE DEF e, b, t
  <2>5. Here(p, d, j, 3 + 1, t, c)
    BY <1>4, <1>7, <2>2, <2>3 DEF Here, AtHead, NoRow, KeptRows
  <2>6. 3 \in 1..Len(run)
    BY <1>2, <1>7 DEF HeadLen
  <2> QED
    BY <1>1, <1>7, <2>3, <2>4, <2>5, <2>6, ProceedsBy DEF e, b, t
<1>8. CASE /\ OneWeightTile(p) /\ pc = 4 /\ AtRow(p, d, j, 0, 0, 0, s) /\ NoRow(s)
           /\ Staged(p, d, j, 0, s)
  <2> DEFINE e == SWAP_WGT
             t == Perform(s, e, d.vec)
  <2>1. /\ Accepts(s, e) /\ AtRow(p, d, j, 0, 0, 0, t) /\ Loaded(p, d, j, 0, t)
        /\ KeptRows(s, t) /\ t.wgt = "EMPTY"
    BY <1>8, TakeSwap
  <2>2. e.op # "STORE"
    BY DEF SWAP_WGT, Blank
  <2> HIDE DEF e, t
  <2>3. RowAt(p, 0, 0) = 4
    BY <1>1, <1>8 DEF HeadLen
  <2>4. Between(p, d, j, t)
    BY <1>8, <2>1 DEF Between, NoRow, KeptRows
  <2>5. Here(p, d, j, 4 + 1, t, c)
    BY <1>1, <1>3, <1>4, <2>1, <2>3, <2>4, RowStarts
  <2>6. 4 \in 1..Len(run)
    BY <1>2, <1>8 DEF HeadLen
  <2> QED
    BY <1>1, <1>8, <2>1, <2>2, <2>5, <2>6, BoundNone, ProceedsBy DEF e, t
<1> QED
  BY <1>5, <1>6, <1>7, <1>8 DEF AtHead

(* The row numbers of a tile are rows of the array. *)
LEMMA RowInTile ==
  ASSUME NEW p, IsSize(p), NEW i \in Tiles(p.M), NEW r \in 0..InTile(p.M, i) - 1
  PROVE  i \in Nat /\ r \in Row /\ r \in Nat /\ r + 1 \in 0..InTile(p.M, i)
<1>1. i \in Nat /\ InTile(p.M, i) \in 1..P
  BY TileParts DEF IsSize
<1>2. P \in Nat \ {0} /\ Row = 0..P - 1
  BY RowsPositive
<1> QED
  BY <1>1, <1>2

(* A position before END is one of the program. *)
LEMMA InRunPositions ==
  ASSUME NEW p, IsSize(p), NEW j \in Nat, NEW k, InRun(p, j, k)
  PROVE  k \in Nat /\ k \in 1..Len(ColumnRun(p, j))
<1>1. Len(ColumnRun(p, j)) \in Nat
  BY RunAtPosition, LenProperties
<1> QED
  BY <1>1 DEF InRun

(* The four kinds of instruction of a row. *)
LEMMA WeightsProceed ==
  ASSUME NEW p, NEW d, IsJob(p, d), NEW j \in Nat, NEW i \in Tiles(p.M),
         NEW r \in 0..InTile(p.M, i) - 1, NEW n \in 0..KTiles(p) - 1, NEW pc, NEW s, NEW c,
         ~OneWeightTile(p), Gathered(p, d, c, j, i), AtRow(p, d, j, i, r, n, s),
         pc = RowAt(p, i, r) + 4 * n + 1, NoRow(s), s.wgt = "EMPTY"
  PROVE  Proceeds(p, d, j, pc, s, c)
<1> DEFINE tile == <<"weight", n, j>>
           e == LOAD_WGT(0, P - 1)
           b == Bound(p, d, s, tile)
           t == Perform(b, e, d.vec)
<1>0. IsSize(p) /\ IsMachine(s)
  BY DEF IsJob, AtRow, Alive
<1>1. ColumnRun(p, j)[pc] = With(e, tile) /\ InRun(p, j, pc)
  BY <1>0, TileSteps DEF LoadWeights
<1>2. /\ IsMachine(b) /\ SameButSource(s, b)
      /\ [x \in Row |-> b.dramWeight[0 + x]] = WeightTile(p, d, n, j)
  <2>1. IsMachine(s)
    BY <1>0
  <2> HIDE <1>0
  <2> QED
    BY <2>1, BoundWeights
<1>3. AtRow(p, d, j, i, r, n, b) /\ b.wgt = "EMPTY" /\ NoRow(b)
  BY <1>2, SameRow DEF SameButSource, Kept, KeptWeights, KeptRows, NoRow
<1>4. Accepts(b, e) /\ AtRow(p, d, j, i, r, n, t) /\ Staged(p, d, j, n, t) /\ KeptRows(b, t)
  BY <1>2, <1>3, TakeWeights
<1>5. e.op # "STORE"
  BY DEF LOAD_WGT, Blank
<1>6. pc \in 1..Len(ColumnRun(p, j)) /\ RowAt(p, i, r) \in Nat /\ n \in Nat
  BY <1>0, <1>1, InRunPositions, RowSteps
<1> HIDE DEF e, b, t, tile
<1> DEFINE q == pc + 1
           k == q - RowAt(p, i, r)
<1>7. k = 4 * n + 2
  BY <1>6
<1> HIDE DEF k
<1>8. AtTile(p, d, j, i, r, n, q, t, c)
  <2>1. Stage(p, d, j, i, r, n, k, t)
    BY <1>3, <1>4, <1>7 DEF Stage, NoRow, KeptRows
  <2>2. k = q - RowAt(p, i, r)
    BY DEF k
  <2> HIDE DEF q
  <2> QED
    BY <1>4, <2>1, <2>2, AtTileBy
<1>9. Here(p, d, j, pc + 1, t, c)
  BY <1>8 DEF Here
<1> QED
  BY <1>1, <1>4, <1>5, <1>6, <1>9, ProceedsBy DEF b, t

(* The load of a row, *)
LEMMA RowProceeds ==
  ASSUME NEW p, NEW d, IsJob(p, d), NEW j \in Nat, NEW i \in Tiles(p.M),
         NEW r \in 0..InTile(p.M, i) - 1, NEW n \in 0..KTiles(p) - 1, NEW pc, NEW s, NEW c,
         Gathered(p, d, c, j, i), AtRow(p, d, j, i, r, n, s), NoRow(s),
         IF OneWeightTile(p)
         THEN pc = RowAt(p, i, r) + 1 /\ s.wgt = "EMPTY" /\ Loaded(p, d, j, 0, s)
         ELSE pc = RowAt(p, i, r) + 4 * n + 2 /\ Staged(p, d, j, n, s)
  PROVE  Proceeds(p, d, j, pc, s, c)
<1> DEFINE tile == <<"act", i, r, n>>
           e == LOAD_ACT(0, r, 0)
           b == Bound(p, d, s, tile)
           t == Perform(b, e, d.vec)
<1>0. IsSize(p) /\ IsMachine(s) /\ r \in Row
  BY RowInTile DEF IsJob, AtRow, Alive
<1>1. ColumnRun(p, j)[pc] = With(e, tile) /\ InRun(p, j, pc)
  <2>1. CASE OneWeightTile(p)
    <3>1. n = 0
      BY <2>1 DEF OneWeightTile, KTiles
    <3> QED
      BY <1>0, <2>1, <3>1, OneTileSteps DEF LoadRow
  <2>2. CASE ~OneWeightTile(p)
    BY <1>0, <2>2, TileSteps DEF LoadRow
  <2> QED
    BY <2>1, <2>2
<1>2. /\ IsMachine(b) /\ SameButSource(s, b)
      /\ r \in DOMAIN b.dramAct /\ b.dramAct[r] = PaddedRow(p, d, i * P + r, n)
  BY <1>0, BoundRow
<1>3. AtRow(p, d, j, i, r, n, b) /\ KeptWeights(s, b) /\ NoRow(b)
  BY <1>2, SameRow DEF SameButSource, Kept, KeptRows, NoRow
<1>4. /\ Accepts(b, e) /\ AtRow(p, d, j, i, r, n, t) /\ HasRow(p, d, i * P + r, r, n, t)
      /\ t.rows[0] = 1 /\ KeptWeights(b, t)
  BY <1>0, <1>2, <1>3, TakeRow
<1>5. e.op # "STORE"
  BY DEF LOAD_ACT, Blank
<1>6. pc \in 1..Len(ColumnRun(p, j)) /\ RowAt(p, i, r) \in Nat /\ n \in Nat
  BY <1>0, <1>1, InRunPositions, RowSteps
<1> HIDE DEF e, b, t, tile
<1> DEFINE q == pc + 1
           k == q - RowAt(p, i, r)
<1>7. k = IF OneWeightTile(p) THEN 2 ELSE 4 * n + 3
  BY <1>6
<1> HIDE DEF k
<1>8. /\ OneWeightTile(p) => t.wgt = "EMPTY" /\ Loaded(p, d, j, 0, t)
      /\ ~OneWeightTile(p) => Staged(p, d, j, n, t)
  BY <1>3, <1>4 DEF Loaded, Staged, KeptWeights
<1>9. AtTile(p, d, j, i, r, n, q, t, c)
  <2>1. Stage(p, d, j, i, r, n, k, t)
    BY <1>4, <1>7, <1>8 DEF Stage
  <2>2. k = q - RowAt(p, i, r)
    BY DEF k
  <2> HIDE DEF q
  <2> QED
    BY <1>4, <2>1, <2>2, AtTileBy
<1>10. Here(p, d, j, pc + 1, t, c)
  BY <1>9 DEF Here
<1> QED
  BY <1>1, <1>4, <1>5, <1>6, <1>10, ProceedsBy DEF b, t

(* the swap, *)
LEMMA SwapProceeds ==
  ASSUME NEW p, NEW d, IsJob(p, d), NEW j \in Nat, NEW i \in Tiles(p.M),
         NEW r \in 0..InTile(p.M, i) - 1, NEW n \in 0..KTiles(p) - 1, NEW pc, NEW s, NEW c,
         ~OneWeightTile(p), Gathered(p, d, c, j, i), AtRow(p, d, j, i, r, n, s),
         pc = RowAt(p, i, r) + 4 * n + 3, HasRow(p, d, i * P + r, r, n, s), s.rows[0] = 1,
         Staged(p, d, j, n, s)
  PROVE  Proceeds(p, d, j, pc, s, c)
<1> DEFINE e == SWAP_WGT
           t == Perform(s, e, d.vec)
<1>0. IsSize(p)
  BY DEF IsJob
<1>1. ColumnRun(p, j)[pc] = With(e, NoTile) /\ InRun(p, j, pc)
  BY <1>0, TileSteps DEF Do, With
<1>2. /\ Accepts(s, e) /\ AtRow(p, d, j, i, r, n, t) /\ Loaded(p, d, j, n, t)
      /\ KeptRows(s, t) /\ t.wgt = "EMPTY"
  BY TakeSwap
<1>3. e.op # "STORE"
  BY DEF SWAP_WGT, Blank
<1>4. pc \in 1..Len(ColumnRun(p, j)) /\ RowAt(p, i, r) \in Nat /\ n \in Nat
  BY <1>0, <1>1, InRunPositions, RowSteps
<1> HIDE DEF e, t
<1> DEFINE q == pc + 1
           k == q - RowAt(p, i, r)
<1>5. k = 4 * n + 4
  BY <1>4
<1> HIDE DEF k
<1>6. HasRow(p, d, i * P + r, r, n, t) /\ t.rows[0] = 1
  BY <1>2 DEF HasRow, KeptRows
<1>7. AtTile(p, d, j, i, r, n, q, t, c)
  <2>1. Stage(p, d, j, i, r, n, k, t)
    BY <1>2, <1>5, <1>6 DEF Stage
  <2>2. k = q - RowAt(p, i, r)
    BY DEF k
  <2> HIDE DEF q
  <2> QED
    BY <1>2, <2>1, <2>2, AtTileBy
<1>8. Here(p, d, j, pc + 1, t, c)
  BY <1>7 DEF Here
<1> QED
  BY <1>1, <1>2, <1>3, <1>4, <1>8, BoundNone, ProceedsBy DEF t

(* and the product. *)
LEMMA ProductProceeds ==
  ASSUME NEW p, NEW d, IsJob(p, d), NEW j \in Nat, NEW i \in Tiles(p.M),
         NEW r \in 0..InTile(p.M, i) - 1, NEW n \in 0..KTiles(p) - 1, NEW pc, NEW s, NEW c,
         Gathered(p, d, c, j, i), AtRow(p, d, j, i, r, n, s),
         HasRow(p, d, i * P + r, r, n, s), s.rows[0] = 1, s.wgt = "EMPTY", Loaded(p, d, j, n, s),
         pc = RowAt(p, i, r) + IF OneWeightTile(p) THEN 2 ELSE 4 * n + 4
  PROVE  Proceeds(p, d, j, pc, s, c)
<1> DEFINE e == MATMUL(0, r, CtrlFor(p, n))
           t == Perform(s, e, d.vec)
           k == RowAt(p, i, r)
<1>0. IsSize(p) /\ r \in Row /\ i \in Nat
  BY RowInTile DEF IsJob
<1>1. ColumnRun(p, j)[pc] = With(e, NoTile) /\ InRun(p, j, pc)
  <2>1. CASE OneWeightTile(p)
    BY <1>0, <2>1, OneTileSteps DEF Do, With, CtrlFor
  <2>2. CASE ~OneWeightTile(p)
    <3>1. pc = (k + 4 * n) + 4
      <4>1. k \in Nat
        BY <1>0, RowSteps
      <4>2. n \in Nat
        OBVIOUS
      <4>3. pc = k + (4 * n + 4)
        BY <2>2
      <4> HIDE DEF k
      <4> QED
        BY <4>1, <4>2, <4>3
    <3> QED
      BY <1>0, <2>2, <3>1, TileSteps DEF Do, With, CtrlFor
  <2> QED
    BY <2>1, <2>2
<1>2. /\ Accepts(s, e) /\ AtRow(p, d, j, i, r, n + 1, t) /\ KeptWeights(s, t)
      /\ t.act[0] = IF s.rows[0] - 1 <= 0 THEN "EMPTY" ELSE "READY"
  BY <1>0, TakeProduct
<1>3. e.op # "STORE"
  BY DEF MATMUL, Blank
<1>4. pc \in 1..Len(ColumnRun(p, j)) /\ k \in Nat /\ n \in Nat /\ KTiles(p) \in Nat
  <2>1. KTiles(p) \in Nat
    BY <1>0, TileBounds DEF IsSize, KTiles
  <2>2. pc \in 1..Len(ColumnRun(p, j))
    BY <1>0, <1>1, InRunPositions
  <2>3. k \in Nat
    BY <1>0, RowSteps
  <2>4. n \in Nat
    OBVIOUS
  <2> QED
    BY <2>1, <2>2, <2>3, <2>4
<1> HIDE DEF e, t
<1>5. NoRow(t) /\ t.wgt = "EMPTY" /\ (OneWeightTile(p) => Loaded(p, d, j, 0, t))
  <2>1. OneWeightTile(p) => n = 0
    BY DEF OneWeightTile, KTiles
  <2> QED
    BY <1>2, <2>1 DEF NoRow, KeptWeights, Loaded
<1>6. Here(p, d, j, pc + 1, t, c)
  <2>1. CASE n + 1 = KTiles(p)
    <3>1. pc + 1 = k + RowLen(p)
      <4>1. RowLen(p) = IF OneWeightTile(p) THEN 3 ELSE 4 * KTiles(p) + 1
        BY DEF RowLen, ReductionLen
      <4>2. pc = k + IF OneWeightTile(p) THEN 2 ELSE 4 * n + 4
        OBVIOUS
      <4> DEFINE l == RowLen(p)
                 m == KTiles(p)
      <4>3. l = (IF OneWeightTile(p) THEN 3 ELSE 4 * m + 1) /\ m = n + 1
        BY <2>1, <4>1
      <4> HIDE DEF k, l, m
      <4>4. pc + 1 = k + l
        BY <1>4, <4>2, <4>3
      <4> QED
        BY <4>4 DEF l
    <3>2. AtVector(p, d, j, i, r, pc + 1, t, c)
      BY <1>2, <1>5, <2>1, <3>1 DEF AtVector, Between
    <3> QED
      BY <3>2 DEF Here
  <2>2. CASE n + 1 # KTiles(p)
    <3>1. n + 1 \in 0..KTiles(p) - 1 /\ ~OneWeightTile(p)
      BY <1>4, <2>2 DEF OneWeightTile, KTiles
    <3>2. AtTile(p, d, j, i, r, n + 1, pc + 1, t, c)
      <4> DEFINE q == pc + 1
                 l == q - k
      <4>0. l = 4 * (n + 1) + 1
        <5> HIDE DEF k
        <5> QED
          BY <1>4, <3>1 DEF k
      <4> HIDE DEF q
      <4>1. l = q - RowAt(p, i, r)
        BY DEF k
      <4> HIDE DEF l
      <4>2. Stage(p, d, j, i, r, n + 1, l, t)
        BY <1>5, <3>1, <4>0 DEF Stage
      <4>3. AtTile(p, d, j, i, r, n + 1, q, t, c)
        BY <1>2, <4>1, <4>2, AtTileBy
      <4> QED
        BY <4>3 DEF q
    <3> QED
      BY <3>1, <3>2 DEF Here
  <2> QED
    BY <2>1, <2>2
<1> QED
  BY <1>1, <1>2, <1>3, <1>4, <1>6, BoundNone, ProceedsBy DEF t

(* Together: no instruction of a reduction is rejected. *)
LEMMA TileProceeds ==
  ASSUME NEW p, NEW d, IsJob(p, d), NEW j \in Nat, NEW i \in Tiles(p.M),
         NEW r \in 0..InTile(p.M, i) - 1, NEW n \in 0..KTiles(p) - 1, NEW pc \in Nat, NEW s, NEW c,
         AtTile(p, d, j, i, r, n, pc, s, c)
  PROVE  Proceeds(p, d, j, pc, s, c)
<1> DEFINE k == RowAt(p, i, r)
           In == HasRow(p, d, i * P + r, r, n, s) /\ s.rows[0] = 1
<1>1. k \in Nat
  BY RowSteps DEF IsJob
<1>1a. n \in Nat
  OBVIOUS
<1>2. Gathered(p, d, c, j, i) /\ AtRow(p, d, j, i, r, n, s)
  BY DEF AtTile
<1> HIDE DEF k, In
<1>3. CASE OneWeightTile(p)
  <2>1. n = 0
    BY <1>3 DEF OneWeightTile, KTiles
  <2>2. s.wgt = "EMPTY" /\ Loaded(p, d, j, 0, s) /\ ((pc - k = 1 /\ NoRow(s)) \/ (pc - k = 2 /\ In))
    BY <1>3 DEF AtTile, Stage, k, In
  <2>3. CASE pc = k + 1 /\ NoRow(s)
    BY <1>2, <1>3, <2>2, <2>3, RowProceeds DEF k
  <2>4. CASE pc = k + 2 /\ In
    BY <1>2, <1>3, <2>1, <2>2, <2>4, ProductProceeds DEF k, In
  <2> QED
    BY <1>1, <2>2, <2>3, <2>4
<1>4. CASE ~OneWeightTile(p)
  <2>1. \/ pc - k = 4 * n + 1 /\ NoRow(s) /\ s.wgt = "EMPTY"
        \/ pc - k = 4 * n + 2 /\ NoRow(s) /\ Staged(p, d, j, n, s)
        \/ pc - k = 4 * n + 3 /\ In /\ Staged(p, d, j, n, s)
        \/ pc - k = 4 * n + 4 /\ In /\ s.wgt = "EMPTY" /\ Loaded(p, d, j, n, s)
    BY <1>4 DEF AtTile, Stage, k, In
  <2>2. CASE pc - k = 4 * n + 1 /\ NoRow(s) /\ s.wgt = "EMPTY"
    <3>1. pc = k + 4 * n + 1
      BY <1>1, <1>1a, <2>2
    <3> QED
      BY <1>2, <1>4, <2>2, <3>1, WeightsProceed DEF k
  <2>3. CASE pc - k = 4 * n + 2 /\ NoRow(s) /\ Staged(p, d, j, n, s)
    <3>1. pc = k + 4 * n + 2
      BY <1>1, <1>1a, <2>3
    <3> QED
      BY <1>2, <1>4, <2>3, <3>1, RowProceeds DEF k
  <2>4. CASE pc - k = 4 * n + 3 /\ In /\ Staged(p, d, j, n, s)
    <3>1. pc = k + 4 * n + 3
      BY <1>1, <1>1a, <2>4
    <3> QED
      BY <1>2, <1>4, <2>4, <3>1, SwapProceeds DEF k, In
  <2>5. CASE pc - k = 4 * n + 4 /\ In /\ s.wgt = "EMPTY" /\ Loaded(p, d, j, n, s)
    <3>1. pc = k + (4 * n + 4)
      BY <1>1, <1>1a, <2>5
    <3> QED
      BY <1>2, <1>4, <2>5, <3>1, ProductProceeds DEF k, In
  <2> QED
    BY <2>1, <2>2, <2>3, <2>4, <2>5
<1> QED
  BY <1>3, <1>4

(* Nor is the VECTOR after it, *)
LEMMA VectorProceeds ==
  ASSUME NEW p, NEW d, IsJob(p, d), NEW j \in Nat, NEW i \in Tiles(p.M),
         NEW r \in 0..InTile(p.M, i) - 1, NEW pc, NEW s, NEW c,
         AtVector(p, d, j, i, r, pc, s, c)
  PROVE  Proceeds(p, d, j, pc, s, c)
<1> DEFINE e == VECTOR(0, r)
           t == Perform(s, e, d.vec)
<1>0. IsSize(p) /\ r \in Row /\ i \in Nat /\ r + 1 \in 0..InTile(p.M, i)
  BY RowInTile DEF IsJob
<1>1. /\ ColumnRun(p, j)[pc] = With(e, NoTile) /\ InRun(p, j, pc)
      /\ RowAt(p, i, r + 1) = pc
  BY <1>0, RowSteps DEF AtVector, Do, With
<1>2. Gathered(p, d, c, j, i) /\ AtRow(p, d, j, i, r, KTiles(p), s) /\ Between(p, d, j, s)
  BY DEF AtVector
<1>3. /\ Accepts(s, e) /\ AtRow(p, d, j, i, r + 1, 0, t) /\ KeptWeights(s, t) /\ KeptRows(s, t)
  BY <1>0, <1>2, TakeVector
<1>4. e.op # "STORE"
  BY DEF VECTOR, Blank
<1>5. pc \in 1..Len(ColumnRun(p, j))
  BY <1>0, <1>1, InRunPositions
<1> HIDE DEF e, t
<1>6. Between(p, d, j, t)
  BY <1>2, <1>3 DEF Between, NoRow, Loaded, KeptWeights, KeptRows
<1>7. Here(p, d, j, pc + 1, t, c)
  BY <1>0, <1>1, <1>2, <1>3, <1>6, RowStarts
<1> QED
  BY <1>1, <1>3, <1>4, <1>5, <1>7, BoundNone, ProceedsBy DEF t

(* the STORE after the last row, *)
LEMMA StoreProceeds ==
  ASSUME NEW p, NEW d, IsJob(p, d), NEW j \in Tiles(p.N), NEW i \in Tiles(p.M),
         NEW pc, NEW s, NEW c, AtStore(p, d, j, i, pc, s, c)
  PROVE  Proceeds(p, d, j, pc, s, c)
<1> DEFINE n == InTile(p.M, i)
           e == STORE(0, 0, n - 1)
           tile == <<"store", i, j>>
           t == Perform(s, e, d.vec)
           u == [t EXCEPT !.dramOut = NoData]
           q == CollectInto(p, c, t.dramOut, i, j)
           m == CeilDiv(p.M, P)
<1>0. IsSize(p) /\ j \in Nat /\ i \in Nat /\ i + 1 <= m
  BY TileParts, TileBounds DEF IsJob, IsSize, Tiles
<1>0a. n \in Nat \ {0}
  <2>1. n \in 1..P /\ P \in Nat
    BY <1>0, TileParts, RowsPositive DEF IsSize
  <2> QED
    BY <2>1
<1>1. /\ ColumnRun(p, j)[pc] = With(e, tile) /\ InRun(p, j, pc)
      /\ i + 1 < m => i + 1 \in Tiles(p.M) /\ RowAt(p, i + 1, 0) = pc
      /\ i + 1 = m => Len(ColumnRun(p, j)) = pc + 1
  <2> DEFINE k == RowAt(p, i, n)
             len == Len(ColumnRun(p, j))
  <2>1. pc = k + 1
    BY DEF AtStore
  <2>2. /\ ColumnRun(p, j)[k + 1] = With(e, tile) /\ InRun(p, j, k + 1) /\ k \in Nat
        /\ i + 1 < m => i + 1 \in Tiles(p.M) /\ RowAt(p, i + 1, 0) = k + 1
        /\ i + 1 = m => len = k + 2
    BY <1>0, StoreSteps
  <2> HIDE DEF k, len, e, tile, m
  <2> QED
    BY <2>1, <2>2 DEF len
<1>2. Gathered(p, d, c, j, i) /\ AtRow(p, d, j, i, n, 0, s) /\ Between(p, d, j, s)
  BY DEF AtStore
<1>3. /\ Accepts(s, e) /\ AtRow(p, d, j, i + 1, 0, 0, u)
      /\ KeptWeights(s, u) /\ KeptRows(s, u)
      /\ Results(p, d, j, i, n, t.dramOut)
  BY <1>0a, <1>2, TakeStore
<1>4. Gathered(p, d, q, j, i + 1)
  BY <1>2, <1>3, Collects
<1>5. pc \in 1..Len(ColumnRun(p, j))
  BY <1>0, <1>1, InRunPositions
<1>6. e.op = "STORE" /\ tile[2] = i /\ tile[3] = j
  BY DEF STORE, Blank
<1>7. Bound(p, d, s, tile) = s
  BY BoundStore
<1> HIDE DEF e, t, u, q, tile, m, n
<1>8. Between(p, d, j, u)
  BY <1>2, <1>3 DEF Between, NoRow, Loaded, KeptWeights, KeptRows
<1>9. Here(p, d, j, pc + 1, u, q)
  <2>1. CASE i + 1 < m
    <3>1. 0 \in 0..InTile(p.M, i + 1)
      <4>1. InTile(p.M, i + 1) \in 1..P /\ P \in Nat
        BY <1>0, <1>1, <2>1, TileParts, RowsPositive DEF IsSize
      <4> QED
        BY <4>1
    <3> QED
      BY <1>0, <1>1, <1>3, <1>4, <1>8, <2>1, <3>1, RowStarts
  <2>2. CASE i + 1 = m
    <3>1. Gathered(p, d, q, j + 1, 0)
      BY <1>0, <1>4, <2>2, ColumnDone DEF m
    <3> QED
      BY <1>1, <1>3, <2>2, <3>1 DEF Here, AtEnd, AtRow, Alive
  <2>3. m \in Nat
    BY <1>0, TileBounds DEF IsSize, m
  <2> QED
    BY <1>0, <2>1, <2>2, <2>3
<1>10. (With(e, tile)).ins = e /\ (With(e, tile)).tile = tile
  BY DEF With
<1> QED
  BY <1>1, <1>3, <1>5, <1>6, <1>7, <1>9, <1>10 DEF Proceeds, t, u, q

(* or END. *)
LEMMA EndProceeds ==
  ASSUME NEW p, NEW d, IsJob(p, d), NEW j \in Nat, NEW pc, NEW s, NEW c,
         AtEnd(p, d, j, pc, s, c)
  PROVE  Proceeds(p, d, j, pc, s, c)
<1> DEFINE t == Perform(s, END, d.vec)
           run == ColumnRun(p, j)
<1>0. IsSize(p) /\ CeilDiv(p.M, P) - 1 \in Tiles(p.M)
  BY TileBounds DEF IsJob, IsSize, Tiles
<1>1. run[pc] = With(END, NoTile)
  BY <1>0, StoreSteps DEF AtEnd, Do, With
<1>2. pc \in 1..Len(run)
  <2>0. \A k \in 1..HeadLen(p) : InRun(p, j, k)
    BY <1>0, HeadSteps
  <2>1. InRun(p, j, 1)
    BY <2>0 DEF HeadLen
  <2>2. 1 \in 1..Len(run)
    BY <1>0, <2>1, InRunPositions
  <2>3. Len(run) \in Nat
    BY <1>0, RunAtPosition, LenProperties
  <2> QED
    BY <2>2, <2>3 DEF AtEnd
<1>3. Accepts(s, END)
  BY TakeEnd DEF AtEnd
<1>4. END.op # "STORE"
  BY DEF END, Blank
<1>5. Here(p, d, j, pc + 1, t, c)
  BY DEF Here, Over, AtEnd
<1> QED
  BY <1>1, <1>2, <1>3, <1>4, <1>5, BoundNone, ProceedsBy

(* Wherever a run is, its next instruction is accepted and leads to the next place. *)
LEMMA RunProceeds ==
  ASSUME NEW p, NEW d, IsJob(p, d), NEW j \in Tiles(p.N), NEW pc \in Nat, NEW s, NEW c,
         Here(p, d, j, pc, s, c), pc <= Len(ColumnRun(p, j))
  PROVE  Proceeds(p, d, j, pc, s, c)
<1>1. j \in Nat
  BY TileParts DEF IsJob, IsSize
<1>2. CASE AtHead(p, d, j, pc, s, c)
  BY <1>1, <1>2, HeadProceeds
<1>3. CASE \E i \in Tiles(p.M) : \E r \in 0..InTile(p.M, i) - 1 :
             \E n \in 0..KTiles(p) - 1 : AtTile(p, d, j, i, r, n, pc, s, c)
  BY <1>1, <1>3, TileProceeds
<1>4. CASE \E i \in Tiles(p.M) : \E r \in 0..InTile(p.M, i) - 1 :
             AtVector(p, d, j, i, r, pc, s, c)
  BY <1>1, <1>4, VectorProceeds
<1>5. CASE \E i \in Tiles(p.M) : AtStore(p, d, j, i, pc, s, c)
  BY <1>5, StoreProceeds
<1>6. CASE AtEnd(p, d, j, pc, s, c)
  BY <1>1, <1>6, EndProceeds
<1>7. CASE Over(p, d, j, pc, c)
  <2>1. Len(ColumnRun(p, j)) \in Nat
    BY <1>1, RunAtPosition, LenProperties DEF IsJob
  <2> QED
    BY <1>7, <2>1 DEF Over
<1> QED
  BY <1>2, <1>3, <1>4, <1>5, <1>6, <1>7 DEF Here

-----------------------------------------------------------------------------
(* Single tile *)

(* The single-tile program: sizes that fit the array. *)
IsSmall(p) == IsSize(p) /\ p.M <= P /\ p.K <= P /\ p.N <= P

(* A number up to P has one tile. *)
LEMMA OneTile ==
  ASSUME NEW x \in Nat \ {0}, x <= P
  PROVE  CeilDiv(x, P) = 1 /\ 0 \in Tiles(x) /\ InTile(x, 0) = x
<1> DEFINE c == CeilDiv(x, P)
           q == P
<1>1. c \in Nat \ {0} /\ c * q < x + q /\ q \in Nat \ {0} /\ x <= q
  BY TileBounds, RowsPositive
<1>2. 0 * q = 0
  BY <1>1
<1>3. InTile(x, 0) = IF x - 0 * q < q THEN x - 0 * q ELSE q
  BY DEF InTile
<1> HIDE DEF c, q
<1>4. c = 1
  <2>1. c >= 2 => 2 * q <= c * q
    BY <1>1, Multiples
  <2>2. c * q \in Nat
    BY <1>1, Multiples
  <2> QED
    BY <1>1, <2>1, <2>2
<1>5. InTile(x, 0) = x
  BY <1>1, <1>2, <1>3
<1>6. 0 \in 0..c - 1
  BY <1>4
<1> QED
  BY <1>4, <1>5, <1>6 DEF c, Tiles

(* A size that fits the array has one tile in each dimension. *)
LEMMA SmallSize ==
  ASSUME NEW p, IsSmall(p)
  PROVE  /\ KTiles(p) = 1 /\ OneWeightTile(p) /\ CtrlFor(p, 0) = "NONE"
         /\ CeilDiv(p.M, P) = 1 /\ CeilDiv(p.N, P) = 1
         /\ InTile(p.M, 0) = p.M /\ 0 \in Tiles(p.M) /\ 0 \in Tiles(p.N)
<1>1. p.M \in Nat \ {0} /\ p.K \in Nat \ {0} /\ p.N \in Nat \ {0}
  BY DEF IsSmall, IsSize
<1>2. CeilDiv(p.K, P) = 1
  BY <1>1, OneTile DEF IsSmall
<1> QED
  BY <1>1, <1>2, OneTile DEF IsSmall, KTiles, OneWeightTile, CtrlFor

(* The instructions of the single-tile program. *)
SinglePlaced(p) ==
  LET w == SingleTile(p)
  IN  /\ Len(w) = 2 * p.M + 7
      /\ w[1] = Do(NOP) /\ w[2] = Do(LOAD_WGT(0, P - 1)) /\ w[3] = Do(LOAD_ACT(0, 0, p.M - 1))
      /\ w[4] = Do(LOAD_BIAS(0, BIAS_BEATS - 1)) /\ w[5] = Do(SWAP_WGT)
      /\ \A r \in 0..p.M - 1 : /\ w[2 * r + 6] = Do(MATMUL(0, r, "NONE"))
                               /\ w[2 * r + 7] = Do(VECTOR(0, r))
      /\ w[2 * p.M + 6] = Do(STORE(0, 0, p.M - 1)) /\ w[2 * p.M + 7] = Do(END)

(* generate_gemm's single-tile program is made of exactly these. *)
LEMMA SingleSteps ==
  ASSUME NEW p, IsSize(p)
  PROVE  SinglePlaced(p)
<1> DEFINE n == p.M
           X == ProgramStep
           mul(r) == Do(MATMUL(0, r, "NONE"))
           vec(r) == Do(VECTOR(0, r))
           a1 == Do(NOP)
           a2 == Do(LOAD_WGT(0, P - 1))
           a3 == Do(LOAD_ACT(0, 0, n - 1))
           a4 == Do(LOAD_BIAS(0, BIAS_BEATS - 1))
           a5 == Do(SWAP_WGT)
           z1 == Do(STORE(0, 0, n - 1))
           z2 == Do(END)
           q == [t \in 1..n |-> <<mul(t - 1), vec(t - 1)>>]
           h == <<a1, a2, a3, a4, a5>>
           z == <<z1, z2>>
           f == FlattenSeq(q)
           w == SingleTile(p)
<1>1. n \in Nat \ {0} /\ P - 1 \in Int /\ BIAS_BEATS - 1 \in Int /\ n - 1 \in Int /\ "NONE" \in Ctrl
  BY RowsPositive, IsaAssumption DEF IsSize, Ctrl
<1>2. /\ a1 \in X /\ a2 \in X /\ a3 \in X /\ a4 \in X /\ a5 \in X /\ z1 \in X /\ z2 \in X
  BY <1>1, StepsTyped
<1>3. \A r \in 0..n - 1 : mul(r) \in X /\ vec(r) \in X
  BY <1>1, StepsTyped
<1>4. w = (h \o f) \o z
  BY DEF SingleTile, Concat
<1> HIDE DEF n, X, mul, vec, a1, a2, a3, a4, a5, z1, z2
<1>5. \A t \in 1..n : /\ q[t] \in Seq(X) /\ Len(q[t]) = 2
                      /\ q[t][1] = mul(t - 1) /\ q[t][2] = vec(t - 1)
  <2> SUFFICES ASSUME NEW t \in 1..n
               PROVE  /\ q[t] \in Seq(X) /\ Len(q[t]) = 2
                      /\ q[t][1] = mul(t - 1) /\ q[t][2] = vec(t - 1)
    OBVIOUS
  <2>1. t - 1 \in 0..n - 1
    BY <1>1
  <2> QED
    BY <1>3, <2>1
<1>6. q = [t \in 1..n |-> q[t]]
  OBVIOUS
<1>7. h \in Seq(X) /\ Len(h) = 5 /\ h[1] = a1 /\ h[2] = a2 /\ h[3] = a3 /\ h[4] = a4 /\ h[5] = a5
  BY <1>2
<1>8. z \in Seq(X) /\ Len(z) = 2 /\ z[1] = z1 /\ z[2] = z2
  BY <1>2
<1> HIDE DEF q, h, z
<1>9. q \in [1..n -> Seq(X)] /\ Even(q, n, 2)
  BY <1>1, <1>5, <1>6 DEF Even
<1>10. f \in Seq(X) /\ Len(f) = (n - 1) * 2 + Len(q[n]) /\ Placed(f, q, n, 2)
  BY <1>1, <1>9, FlattenAt
<1> HIDE DEF f, w
<1>11. Len(f) = 2 * n
  <2>1. Len(q[n]) = 2
    BY <1>1, <1>5
  <2>2. Len(f) = (n - 1) * 2 + 2
    BY <1>10, <2>1
  <2> QED
    BY <1>1, <2>2
<1>12. \A r \in 0..n - 1 : /\ 2 * r + 1 \in 1..Len(f) /\ 2 * r + 2 \in 1..Len(f)
                           /\ f[2 * r + 1] = mul(r) /\ f[2 * r + 2] = vec(r)
  <2> SUFFICES ASSUME NEW r \in 0..n - 1
               PROVE  /\ 2 * r + 1 \in 1..Len(f) /\ 2 * r + 2 \in 1..Len(f)
                      /\ f[2 * r + 1] = mul(r) /\ f[2 * r + 2] = vec(r)
    OBVIOUS
  <2>1. r + 1 \in 1..n /\ (r + 1) - 1 = r /\ r \in Nat
    BY <1>1
  <2>2. /\ q[r + 1][1] = mul(r) /\ q[r + 1][2] = vec(r) /\ 1 \in 1..Len(q[r + 1])
        /\ 2 \in 1..Len(q[r + 1])
    BY <1>5, <2>1
  <2>3. \A x \in 1..Len(q[r + 1]) :
           ((r + 1) - 1) * 2 + x \in 1..Len(f) /\ f[((r + 1) - 1) * 2 + x] = q[r + 1][x]
    BY <1>10, <2>1 DEF Placed
  <2>4. ((r + 1) - 1) * 2 + 1 = 2 * r + 1 /\ ((r + 1) - 1) * 2 + 2 = 2 * r + 2
    BY <2>1
  <2> QED
    BY <2>2, <2>3, <2>4
<1> DEFINE g == h \o f
<1>13. g \in Seq(X) /\ IsConcat(g, h, f)
  BY <1>7, <1>10, Concatenated
<1> HIDE DEF g
<1>14. w = g \o z
  BY <1>4 DEF g
<1>15. w \in Seq(X) /\ IsConcat(w, g, z)
  BY <1>8, <1>13, <1>14, Concatenated
<1>16. Len(g) = 2 * n + 5 /\ Len(w) = 2 * n + 7
  BY <1>1, <1>7, <1>8, <1>11, <1>13, <1>15 DEF IsConcat
<1>17. w[1] = a1 /\ w[2] = a2 /\ w[3] = a3 /\ w[4] = a4 /\ w[5] = a5
  <2>1. g[1] = a1 /\ g[2] = a2 /\ g[3] = a3 /\ g[4] = a4 /\ g[5] = a5
    BY <1>7, <1>13 DEF IsConcat
  <2>2. \A x \in {1, 2, 3, 4, 5} : x \in 1..Len(g)
    BY <1>1, <1>16
  <2> QED
    BY <1>15, <2>1, <2>2 DEF IsConcat
<1>18. ASSUME NEW r \in 0..n - 1
       PROVE  w[2 * r + 6] = mul(r) /\ w[2 * r + 7] = vec(r)
  <2>1. 2 * r + 1 \in 1..Len(f) /\ 2 * r + 2 \in 1..Len(f)
    BY <1>12
  <2>2. 5 + (2 * r + 1) = 2 * r + 6 /\ 5 + (2 * r + 2) = 2 * r + 7
    BY <1>1
  <2>3. g[5 + (2 * r + 1)] = f[2 * r + 1] /\ g[5 + (2 * r + 2)] = f[2 * r + 2]
    BY <1>7, <1>13, <2>1 DEF IsConcat
  <2>4. 2 * r + 6 \in 1..Len(g) /\ 2 * r + 7 \in 1..Len(g)
    BY <1>1, <1>16
  <2> QED
    BY <1>12, <1>15, <2>2, <2>3, <2>4 DEF IsConcat
<1>19. w[2 * n + 6] = z1 /\ w[2 * n + 7] = z2
  <2>1. w[(2 * n + 5) + 1] = z1 /\ w[(2 * n + 5) + 2] = z2
    BY <1>8, <1>15, <1>16 DEF IsConcat
  <2>2. (2 * n + 5) + 1 = 2 * n + 6 /\ (2 * n + 5) + 2 = 2 * n + 7
    BY <1>1
  <2> QED
    BY <2>1, <2>2
<1> QED
  BY <1>16, <1>17, <1>18, <1>19
     DEF SinglePlaced, w, n, mul, vec, a1, a2, a3, a4, a5, z1, z2
-----------------------------------------------------------------------------
(* execute_microcode's machine: both matrices bound at the start. *)
Sources(p, d) ==
  [Fresh EXCEPT !.dramWeight = Padded(d.B, p.K, p.N), !.dramAct = Padded(d.A, p.M, p.K),
                !.dramBias = BiasTile(p, d, 0)]

(* The rows of A are in the bound DRAM, *)
RowsBound(p, d, s) ==
  DOMAIN s.dramAct = Row /\ \A a \in Row : s.dramAct[a] = PaddedRow(p, d, a, 0)

(* or in the activation buffer, the first r used up; *)
RowsIn(p, d, r, s) ==
  /\ s.rows[0] = p.M - r /\ (r < p.M => s.act[0] = "READY")
  /\ \A a \in 0..p.M - 1 : a \in DOMAIN s.actData[0] /\ s.actData[0][a] = PaddedRow(p, d, a, 0)

(* no bias, sum or result has been written yet. *)
Unbiased(p, d, s) ==
  /\ Alive(s) /\ s.bias = "EMPTY" /\ s.accum = "EMPTY" /\ s.out[0] = "EMPTY"
  /\ s.dramBias = BiasTile(p, d, 0)

(* The machine that execute_microcode starts. *)
LEMMA SourcesBound ==
  ASSUME NEW p, NEW d
  PROVE  LET s == Sources(p, d)
         IN  /\ Unbiased(p, d, s) /\ NoRow(s) /\ s.wgt = "EMPTY" /\ RowsBound(p, d, s)
             /\ [x \in Row |-> s.dramWeight[0 + x]] = WeightTile(p, d, 0, 0)
<1> DEFINE s == Sources(p, d)
           a == Padded(d.A, p.M, p.K)
           b == Padded(d.B, p.K, p.N)
<1>1. /\ DOMAIN s = DOMAIN Fresh /\ s.act = Fresh.act /\ s.out = Fresh.out /\ s.rows = Fresh.rows
      /\ s.actData = Fresh.actData /\ s.outData = Fresh.outData /\ s.ended = Fresh.ended
      /\ s.dramOut = Fresh.dramOut /\ s.bias = Fresh.bias /\ s.accum = Fresh.accum
      /\ s.wgt = Fresh.wgt /\ s.dramAct = a /\ s.dramWeight = b /\ s.dramBias = BiasTile(p, d, 0)
  <2> HIDE DEF a, b
  <2> QED
    BY DEF Sources, Fresh, a, b
<1>2. Row = 0..P - 1 /\ P \in Nat /\ 0 * P = 0
  BY RowsPositive
<1> HIDE DEF s
<1>3. Unbiased(p, d, s) /\ NoRow(s) /\ s.wgt = "EMPTY"
  BY <1>1, FreshMachine DEF Unbiased, NoRow, Alive, IsMachine
<1>4. \A x \in Row : 0 * P + x = x /\ 0 + x = x
  BY <1>2
<1>5. \A x \in Row : a[x] = PaddedRow(p, d, x, 0)
  BY <1>4 DEF Padded, PaddedRow
<1>6. DOMAIN a = Row
  BY DEF Padded
<1>7. [x \in Row |-> b[0 + x]] = WeightTile(p, d, 0, 0)
  <2>1. \A x \in Row : b[0 + x] = [c \in Row |-> Element(d.B, 0 * P + x, 0 * P + c, p.K, p.N)]
    BY <1>4 DEF Padded
  <2> QED
    BY <2>1 DEF WeightTile
<1> HIDE DEF a, b
<1>8. RowsBound(p, d, s)
  BY <1>1, <1>5, <1>6 DEF RowsBound
<1> QED
  BY <1>1, <1>3, <1>7, <1>8 DEF s
-----------------------------------------------------------------------------
(* Where a run of the single-tile program is, by its next instruction. *)
AtReduction(p, d, r, n, s) ==
  AtRow(p, d, 0, 0, r, n, s) /\ RowsIn(p, d, r + n, s) /\ Loaded(p, d, 0, 0, s)

(* The invariant of a single-tile run. *)
SingleHere(p, d, pc, s) ==
  \/ pc \in {1, 2} /\ s = Sources(p, d)
  \/ pc = 3 /\ Unbiased(p, d, s) /\ NoRow(s) /\ RowsBound(p, d, s) /\ Staged(p, d, 0, 0, s)
  \/ pc = 4 /\ Unbiased(p, d, s) /\ RowsIn(p, d, 0, s) /\ Staged(p, d, 0, 0, s)
  \/ pc = 5 /\ AtRow(p, d, 0, 0, 0, 0, s) /\ RowsIn(p, d, 0, s) /\ Staged(p, d, 0, 0, s)
  \/ \E r \in 0..p.M - 1 : \/ pc = 2 * r + 6 /\ AtReduction(p, d, r, 0, s)
                           \/ pc = 2 * r + 7 /\ AtReduction(p, d, r, 1, s)
  \/ pc = 2 * p.M + 6 /\ AtRow(p, d, 0, 0, p.M, 0, s)
  \/ pc = 2 * p.M + 7 /\ IsMachine(s) /\ ~s.ended /\ Results(p, d, 0, 0, p.M, s.dramOut)
  \/ pc = 2 * p.M + 8 /\ Results(p, d, 0, 0, p.M, s.dramOut)

(* The next instruction is accepted, and the run goes on. *)
SingleProceeds(p, d, pc, s) ==
  LET step == SingleTile(p)[pc]
      ran == Perform(s, step.ins, d.vec)
  IN  /\ step.tile = NoTile /\ pc \in 1..Len(SingleTile(p)) /\ Accepts(s, step.ins)
      /\ SingleHere(p, d, pc + 1, IF step.ins.op = "STORE" THEN [ran EXCEPT !.dramOut = @] ELSE ran)

(* How a step that is not a store is shown to proceed. *)
LEMMA SingleProceedsBy ==
  ASSUME NEW p, NEW d, NEW pc, NEW s, NEW e, NEW t, SingleTile(p)[pc] = Do(e),
         pc \in 1..Len(SingleTile(p)), e.op # "STORE", Accepts(s, e), t = Perform(s, e, d.vec),
         SingleHere(p, d, pc + 1, t)
  PROVE  SingleProceeds(p, d, pc, s)
BY DEF SingleProceeds, Do

(* The place before a row's MATMUL. *)
LEMMA SingleAtRow ==
  ASSUME NEW p, NEW d, NEW pc, NEW s, NEW r \in 0..p.M - 1, pc = 2 * r + 6,
         AtReduction(p, d, r, 0, s)
  PROVE  SingleHere(p, d, pc, s)
BY DEF SingleHere

(* The loads and the swap proceed, *)
LEMMA SingleLoads ==
  ASSUME NEW p, NEW d, IsJob(p, d), IsSmall(p), NEW s
  PROVE  /\ SingleHere(p, d, 1, s) => SingleProceeds(p, d, 1, s)
         /\ SingleHere(p, d, 2, s) => SingleProceeds(p, d, 2, s)
         /\ SingleHere(p, d, 3, s) => SingleProceeds(p, d, 3, s)
         /\ SingleHere(p, d, 4, s) => SingleProceeds(p, d, 4, s)
         /\ SingleHere(p, d, 5, s) => SingleProceeds(p, d, 5, s)
<1> DEFINE m == p.M
           w == SingleTile(p)
<1>1. m \in Nat \ {0} /\ IsSize(p) /\ m <= P
  BY DEF IsSmall, IsSize
<1>2. /\ Len(w) = 2 * m + 7
      /\ w[1] = Do(NOP) /\ w[2] = Do(LOAD_WGT(0, P - 1)) /\ w[3] = Do(LOAD_ACT(0, 0, m - 1))
      /\ w[4] = Do(LOAD_BIAS(0, BIAS_BEATS - 1)) /\ w[5] = Do(SWAP_WGT)
  BY <1>1, SingleSteps DEF SinglePlaced
<1> HIDE DEF w
<1>3. \A x \in {1, 2, 3, 4, 5} : x \in 1..Len(w)
  BY <1>1, <1>2
<1>4. \A r \in 0..m - 1 : 2 * r + 6 > 5 /\ 2 * r + 7 > 5
  BY <1>1
<1>4a. 2 * m + 6 > 5 /\ 2 * m + 7 > 5 /\ 2 * m + 8 > 5
  BY <1>1
<1>5. /\ SingleHere(p, d, 1, s) => s = Sources(p, d)
      /\ SingleHere(p, d, 2, s) => s = Sources(p, d)
      /\ SingleHere(p, d, 3, s)
           => Unbiased(p, d, s) /\ NoRow(s) /\ RowsBound(p, d, s) /\ Staged(p, d, 0, 0, s)
      /\ SingleHere(p, d, 4, s)
           => Unbiased(p, d, s) /\ RowsIn(p, d, 0, s) /\ Staged(p, d, 0, 0, s)
      /\ SingleHere(p, d, 5, s)
           => AtRow(p, d, 0, 0, 0, 0, s) /\ RowsIn(p, d, 0, s) /\ Staged(p, d, 0, 0, s)
  <2>1. ASSUME NEW x \in {1, 2, 3, 4, 5}, SingleHere(p, d, x, s)
        PROVE  \/ x \in {1, 2} /\ s = Sources(p, d)
               \/ x = 3 /\ Unbiased(p, d, s) /\ NoRow(s) /\ RowsBound(p, d, s)
                         /\ Staged(p, d, 0, 0, s)
               \/ x = 4 /\ Unbiased(p, d, s) /\ RowsIn(p, d, 0, s) /\ Staged(p, d, 0, 0, s)
               \/ x = 5 /\ AtRow(p, d, 0, 0, 0, 0, s) /\ RowsIn(p, d, 0, s)
                         /\ Staged(p, d, 0, 0, s)
    BY <1>4, <1>4a, <2>1 DEF SingleHere
  <2> QED
    BY <2>1
<1>6. ASSUME SingleHere(p, d, 1, s) PROVE SingleProceeds(p, d, 1, s)
  <2> DEFINE e == NOP
             t == Perform(s, e, d.vec)
  <2>1. e.op = "NOP" /\ e.op # "STORE"
    BY DEF NOP, Blank
  <2>2. s = Sources(p, d) /\ IsMachine(s) /\ ~s.ended
    BY <1>5, <1>6, SourcesBound DEF Unbiased, Alive
  <2> HIDE DEF e
  <2>3. t = s /\ Accepts(s, e)
    BY <2>1, <2>2, Waits
  <2>4. SingleHere(p, d, 1 + 1, t)
    BY <2>2, <2>3 DEF SingleHere
  <2> QED
    BY <1>2, <1>3, <2>1, <2>3, <2>4, SingleProceedsBy DEF e, w
<1>7. ASSUME SingleHere(p, d, 2, s) PROVE SingleProceeds(p, d, 2, s)
  <2> DEFINE e == LOAD_WGT(0, P - 1)
             t == Perform(s, e, d.vec)
  <2>1. e.op = "LOAD_WGT" /\ e.op # "STORE" /\ e.addr = 0 /\ e.len = P - 1
    BY DEF LOAD_WGT, Blank
  <2>2. /\ Unbiased(p, d, s) /\ NoRow(s) /\ s.wgt = "EMPTY" /\ RowsBound(p, d, s)
        /\ [x \in Row |-> s.dramWeight[0 + x]] = WeightTile(p, d, 0, 0)
        /\ IsMachine(s) /\ ~s.ended
    BY <1>5, <1>7, SourcesBound DEF Unbiased, Alive
  <2> HIDE DEF e
  <2>3. /\ IsMachine(t) /\ t.ended = s.ended /\ t.wgt = "READY"
        /\ t.staging = [x \in Row |-> s.dramWeight[0 + x]]
        /\ KeptRows(s, t) /\ KeptBias(s, t) /\ KeptSums(s, t) /\ KeptOuts(s, t)
        /\ KeptDram(s, t) /\ Accepts(s, e)
    BY <2>1, <2>2, LoadsWeights
  <2> HIDE DEF t
  <2>4. Unbiased(p, d, t) /\ NoRow(t) /\ RowsBound(p, d, t)
    BY <2>2, <2>3 DEF Unbiased, Alive, NoRow, RowsBound, KeptRows, KeptBias, KeptSums, KeptOuts,
                      KeptDram
  <2>5. Staged(p, d, 0, 0, t)
    BY <2>2, <2>3 DEF Staged
  <2>6. SingleHere(p, d, 2 + 1, t)
    BY <2>4, <2>5 DEF SingleHere
  <2> QED
    BY <1>2, <1>3, <2>1, <2>3, <2>6, SingleProceedsBy DEF e, t, w
<1>8. ASSUME SingleHere(p, d, 3, s) PROVE SingleProceeds(p, d, 3, s)
  <2> DEFINE e == LOAD_ACT(0, 0, m - 1)
             t == Perform(s, e, d.vec)
  <2>1. e.op = "LOAD_ACT" /\ e.op # "STORE" /\ e.dst = 0 /\ e.addr = 0 /\ e.len = m - 1
    BY DEF LOAD_ACT, Blank
  <2>2. /\ Unbiased(p, d, s) /\ s.act[0] = "EMPTY" /\ RowsBound(p, d, s)
        /\ Staged(p, d, 0, 0, s) /\ IsMachine(s) /\ ~s.ended
    BY <1>5, <1>8 DEF Unbiased, Alive, NoRow
  <2>3. 0 \in Nat /\ m - 1 \in Nat /\ 0..0 + (m - 1) = 0..m - 1 /\ (m - 1) + 1 = m
    BY <1>1
  <2>4. 0..m - 1 \subseteq DOMAIN s.dramAct
        /\ \A a \in 0..m - 1 : s.dramAct[a] = PaddedRow(p, d, a, 0)
    <3>1. \A a \in 0..m - 1 : a \in Row
      BY <1>1, RowsPositive
    <3> QED
      BY <2>2, <3>1 DEF RowsBound
  <2> HIDE DEF e
  <2>5. /\ IsMachine(t) /\ t.ended = s.ended
        /\ t.act[0] = "READY" /\ t.rows[0] = e.len + 1
        /\ \A a \in e.addr..e.addr + e.len :
             a \in DOMAIN t.actData[0] /\ t.actData[0][a] = s.dramAct[a]
        /\ KeptBias(s, t) /\ KeptWeights(s, t) /\ KeptSums(s, t) /\ KeptOuts(s, t)
        /\ KeptDram(s, t)
        /\ ~s.ended /\ s.act[0] = "EMPTY" /\ e.addr..e.addr + e.len \subseteq DOMAIN s.dramAct
             => Accepts(s, e)
    BY <2>1, <2>2, <2>3, LoadsRows
  <2> HIDE DEF t
  <2>6. Unbiased(p, d, t) /\ Staged(p, d, 0, 0, t)
    BY <2>2, <2>5 DEF Unbiased, Alive, Staged, KeptBias, KeptSums, KeptOuts, KeptDram, KeptWeights
  <2>7. RowsIn(p, d, 0, t)
    <3>1. t.rows[0] = m - 0
      BY <1>1, <2>1, <2>3, <2>5
    <3>2. \A a \in 0..m - 1 :
             a \in DOMAIN t.actData[0] /\ t.actData[0][a] = PaddedRow(p, d, a, 0)
      BY <2>1, <2>3, <2>4, <2>5
    <3> QED
      BY <2>5, <3>1, <3>2 DEF RowsIn
  <2>8. SingleHere(p, d, 3 + 1, t) /\ Accepts(s, e)
    BY <2>1, <2>2, <2>3, <2>4, <2>5, <2>6, <2>7 DEF SingleHere
  <2> QED
    BY <1>2, <1>3, <2>1, <2>8, SingleProceedsBy DEF e, t, w
<1>9. ASSUME SingleHere(p, d, 4, s) PROVE SingleProceeds(p, d, 4, s)
  <2> DEFINE e == LOAD_BIAS(0, BIAS_BEATS - 1)
             t == Perform(s, e, d.vec)
  <2>1. e.op # "STORE"
    BY DEF LOAD_BIAS, Blank
  <2>2. /\ Alive(s) /\ s.bias = "EMPTY" /\ s.accum = "EMPTY" /\ s.out[0] = "EMPTY"
        /\ s.dramBias = BiasTile(p, d, 0) /\ RowsIn(p, d, 0, s) /\ Staged(p, d, 0, 0, s)
    BY <1>5, <1>9 DEF Unbiased
  <2>3. Accepts(s, e) /\ AtRow(p, d, 0, 0, 0, 0, t) /\ KeptWeights(s, t) /\ KeptRows(s, t)
    BY <2>2, TakeBias
  <2> HIDE DEF e, t
  <2>4. RowsIn(p, d, 0, t) /\ Staged(p, d, 0, 0, t)
    BY <2>2, <2>3 DEF RowsIn, Staged, KeptWeights, KeptRows
  <2>5. SingleHere(p, d, 4 + 1, t)
    BY <2>3, <2>4 DEF SingleHere
  <2> QED
    BY <1>2, <1>3, <2>1, <2>3, <2>5, SingleProceedsBy DEF e, t, w
<1>10. ASSUME SingleHere(p, d, 5, s) PROVE SingleProceeds(p, d, 5, s)
  <2> DEFINE e == SWAP_WGT
             t == Perform(s, e, d.vec)
  <2>1. e.op # "STORE"
    BY DEF SWAP_WGT, Blank
  <2>2. AtRow(p, d, 0, 0, 0, 0, s) /\ RowsIn(p, d, 0, s) /\ Staged(p, d, 0, 0, s)
    BY <1>5, <1>10
  <2>3. Accepts(s, e) /\ AtRow(p, d, 0, 0, 0, 0, t) /\ Loaded(p, d, 0, 0, t) /\ KeptRows(s, t)
    BY <2>2, TakeSwap
  <2> HIDE DEF e, t
  <2>4. RowsIn(p, d, 0 + 0, t)
    BY <2>2, <2>3 DEF RowsIn, KeptRows
  <2>5. AtReduction(p, d, 0, 0, t)
    BY <2>3, <2>4 DEF AtReduction
  <2>6. SingleHere(p, d, 5 + 1, t)
    <3>1. 0 \in 0..m - 1 /\ 5 + 1 = 2 * 0 + 6
      BY <1>1
    <3> DEFINE q == 5 + 1
    <3>2. q = 2 * 0 + 6
      BY <3>1
    <3> HIDE DEF q
    <3>3. SingleHere(p, d, q, t)
      BY <2>5, <3>1, <3>2, SingleAtRow
    <3> QED
      BY <3>3 DEF q
  <2> QED
    BY <1>2, <1>3, <2>1, <2>3, <2>6, SingleProceedsBy DEF e, t, w
<1> QED
  BY <1>6, <1>7, <1>8, <1>9, <1>10

(* a row's MATMUL, *)
LEMMA SingleProduct ==
  ASSUME NEW p, NEW d, IsJob(p, d), IsSmall(p), NEW r \in 0..p.M - 1, NEW s, NEW pc,
         pc = 2 * r + 6, AtReduction(p, d, r, 0, s)
  PROVE  SingleProceeds(p, d, pc, s)
<1> DEFINE e == MATMUL(0, r, "NONE")
           t == Perform(s, e, d.vec)
           m == p.M
<1>1. m \in Nat \ {0} /\ IsSize(p) /\ m <= P /\ r \in Nat /\ r \in 0..m - 1 /\ r \in Row
  BY RowsPositive DEF IsSmall, IsSize
<1>2. SingleTile(p)[pc] = Do(e) /\ Len(SingleTile(p)) = 2 * m + 7
  BY <1>1, SingleSteps DEF SinglePlaced
<1>3. e.op # "STORE"
  BY DEF MATMUL, Blank
<1>4. 0 * P = 0 /\ 0 + r = r
  BY <1>1, RowsPositive
<1>5. /\ AtRow(p, d, 0, 0, r, 0, s) /\ Loaded(p, d, 0, 0, s)
      /\ s.rows[0] = m - r /\ s.act[0] = "READY"
      /\ \A a \in 0..m - 1 : a \in DOMAIN s.actData[0] /\ s.actData[0][a] = PaddedRow(p, d, a, 0)
  BY <1>1 DEF AtReduction, RowsIn
<1>6. HasRow(p, d, 0 * P + r, r, 0, s)
  BY <1>1, <1>4, <1>5 DEF HasRow
<1>7. 0 \in 0..KTiles(p) - 1 /\ CtrlFor(p, 0) = "NONE" /\ 0 \in Nat
  BY SmallSize
<1>8. /\ Accepts(s, e) /\ AtRow(p, d, 0, 0, r, 0 + 1, t) /\ KeptWeights(s, t)
      /\ t.rows[0] = s.rows[0] - 1 /\ t.actData = s.actData
      /\ t.act[0] = IF s.rows[0] - 1 <= 0 THEN "EMPTY" ELSE "READY"
  BY <1>1, <1>5, <1>6, <1>7, TakeProduct
<1> HIDE DEF e, t
<1>9. RowsIn(p, d, r + 1, t)
  <2>1. t.rows[0] = m - (r + 1) /\ (r + 1 < m => t.act[0] = "READY")
    <3> HIDE DEF m
    <3> QED
      BY <1>1, <1>5, <1>8
  <2>2. \A a \in 0..m - 1 : a \in DOMAIN t.actData[0] /\ t.actData[0][a] = PaddedRow(p, d, a, 0)
    BY <1>5, <1>8
  <2> QED
    BY <2>1, <2>2 DEF RowsIn
<1>10. AtReduction(p, d, r, 1, t)
  BY <1>5, <1>8, <1>9 DEF AtReduction, Loaded, KeptWeights
<1>11. pc \in 1..Len(SingleTile(p)) /\ pc + 1 = 2 * r + 7
  BY <1>1, <1>2
<1>12. SingleHere(p, d, pc + 1, t)
  <2>1. \E a \in 0..p.M - 1 : pc + 1 = 2 * a + 7 /\ AtReduction(p, d, a, 1, t)
    BY <1>10, <1>11
  <2> QED
    BY <2>1 DEF SingleHere
<1> QED
  BY <1>2, <1>3, <1>8, <1>11, <1>12, SingleProceedsBy DEF t

(* its VECTOR, *)
LEMMA SingleVector ==
  ASSUME NEW p, NEW d, IsJob(p, d), IsSmall(p), NEW r \in 0..p.M - 1, NEW s, NEW pc,
         pc = 2 * r + 7, AtReduction(p, d, r, 1, s)
  PROVE  SingleProceeds(p, d, pc, s)
<1> DEFINE e == VECTOR(0, r)
           t == Perform(s, e, d.vec)
           m == p.M
<1>1. m \in Nat \ {0} /\ IsSize(p) /\ m <= P /\ r \in Nat /\ r \in 0..m - 1 /\ r \in Row
  BY RowsPositive DEF IsSmall, IsSize
<1>2. SingleTile(p)[pc] = Do(e) /\ Len(SingleTile(p)) = 2 * m + 7
  BY <1>1, SingleSteps DEF SinglePlaced
<1>3. e.op # "STORE"
  BY DEF VECTOR, Blank
<1>4. AtRow(p, d, 0, 0, r, KTiles(p), s) /\ RowsIn(p, d, r + 1, s) /\ Loaded(p, d, 0, 0, s)
  BY SmallSize DEF AtReduction
<1>5. 0 \in Nat
  OBVIOUS
<1>6. /\ Accepts(s, e) /\ AtRow(p, d, 0, 0, r + 1, 0, t)
      /\ KeptWeights(s, t) /\ KeptRows(s, t)
  BY <1>1, <1>4, <1>5, TakeVector
<1> HIDE DEF e, t
<1>7. pc \in 1..Len(SingleTile(p))
  BY <1>1, <1>2
<1>8. SingleHere(p, d, pc + 1, t)
  <2>1. CASE r + 1 = m
    <3>1. pc + 1 = 2 * p.M + 6
      <4> HIDE DEF m
      <4>1. pc + 1 = 2 * m + 6
        BY <1>1, <2>1
      <4> QED
        BY <4>1 DEF m
    <3>2. AtRow(p, d, 0, 0, p.M, 0, t)
      BY <1>6, <2>1
    <3> QED
      BY <3>1, <3>2 DEF SingleHere
  <2>2. CASE r + 1 # m
    <3> DEFINE a == r + 1
    <3>1. a \in 0..m - 1 /\ pc + 1 = 2 * a + 6
      BY <1>1, <2>2
    <3>2. AtRow(p, d, 0, 0, a, 0, t) /\ RowsIn(p, d, a, t) /\ Loaded(p, d, 0, 0, t)
      BY <1>4, <1>6 DEF RowsIn, Loaded, KeptWeights, KeptRows
    <3> HIDE DEF a
    <3>3. a + 0 = a
      BY <1>1, <3>1
    <3>4. AtReduction(p, d, a, 0, t)
      BY <3>2, <3>3 DEF AtReduction
    <3> DEFINE q == pc + 1
    <3>5. q = 2 * a + 6
      BY <3>1
    <3> HIDE DEF q
    <3>6. SingleHere(p, d, q, t)
      BY <3>1, <3>4, <3>5, SingleAtRow
    <3> QED
      BY <3>6 DEF q
  <2> QED
    BY <2>1, <2>2
<1> QED
  BY <1>2, <1>3, <1>6, <1>7, <1>8, SingleProceedsBy DEF t

(* the STORE *)
LEMMA SingleStore ==
  ASSUME NEW p, NEW d, IsJob(p, d), IsSmall(p), NEW s, NEW pc,
         pc = 2 * p.M + 6, AtRow(p, d, 0, 0, p.M, 0, s)
  PROVE  SingleProceeds(p, d, pc, s)
<1> DEFINE m == p.M
           e == STORE(0, 0, m - 1)
           t == Perform(s, e, d.vec)
           u == [t EXCEPT !.dramOut = @]
<1>1. m \in Nat \ {0} /\ IsSize(p)
  BY DEF IsSmall, IsSize
<1>2. SingleTile(p)[pc] = Do(e) /\ Len(SingleTile(p)) = 2 * m + 7
  BY <1>1, SingleSteps DEF SinglePlaced
<1>3. e.op = "STORE"
  BY DEF STORE, Blank
<1>4. Accepts(s, e) /\ IsMachine(t) /\ ~t.ended /\ Results(p, d, 0, 0, m, t.dramOut)
  BY <1>1, TakeStore
<1> HIDE DEF e, t
<1>5. IsMachine(u) /\ u.ended = t.ended /\ u.dramOut = t.dramOut
  BY <1>4 DEF IsMachine, Fresh
<1> HIDE DEF u
<1>6. pc \in 1..Len(SingleTile(p)) /\ pc + 1 = 2 * p.M + 7
  <2> HIDE DEF m
  <2>1. pc \in 1..2 * m + 7 /\ pc + 1 = 2 * m + 7
    BY <1>1 DEF m
  <2> QED
    BY <1>2, <2>1 DEF m
<1>7. SingleHere(p, d, pc + 1, u)
  BY <1>4, <1>5, <1>6 DEF SingleHere
<1> QED
  BY <1>2, <1>3, <1>4, <1>6, <1>7 DEF SingleProceeds, Do, t, u

(* and END. *)
LEMMA SingleEnd ==
  ASSUME NEW p, NEW d, IsSmall(p), NEW s, NEW pc, pc = 2 * p.M + 7,
         IsMachine(s), ~s.ended, Results(p, d, 0, 0, p.M, s.dramOut)
  PROVE  SingleProceeds(p, d, pc, s)
<1> DEFINE m == p.M
           t == Perform(s, END, d.vec)
<1>1. m \in Nat \ {0} /\ IsSize(p)
  BY DEF IsSmall, IsSize
<1>2. SingleTile(p)[pc] = Do(END) /\ Len(SingleTile(p)) = 2 * m + 7
  BY <1>1, SingleSteps DEF SinglePlaced
<1>3. END.op # "STORE"
  BY DEF END, Blank
<1>4. Accepts(s, END) /\ t.dramOut = s.dramOut
  BY TakeEnd
<1> HIDE DEF t
<1>5. pc \in 1..Len(SingleTile(p)) /\ pc + 1 = 2 * p.M + 8
  <2> HIDE DEF m
  <2>1. pc \in 1..2 * m + 7 /\ pc + 1 = 2 * m + 8
    BY <1>1 DEF m
  <2> QED
    BY <1>2, <2>1 DEF m
<1>6. SingleHere(p, d, pc + 1, t)
  BY <1>4, <1>5 DEF SingleHere
<1> QED
  BY <1>2, <1>3, <1>4, <1>5, <1>6, SingleProceedsBy DEF t

(* Wherever a single-tile run is, its next instruction is accepted. *)
LEMMA SingleRunProceeds ==
  ASSUME NEW p, NEW d, IsJob(p, d), IsSmall(p), NEW pc, NEW s, SingleHere(p, d, pc, s),
         pc <= Len(SingleTile(p))
  PROVE  SingleProceeds(p, d, pc, s)
<1>1. CASE pc \in {1, 2, 3, 4, 5}
  BY <1>1, SingleLoads
<1>2. CASE pc \notin {1, 2, 3, 4, 5}
  <2>1. \/ \E r \in 0..p.M - 1 : \/ pc = 2 * r + 6 /\ AtReduction(p, d, r, 0, s)
                                 \/ pc = 2 * r + 7 /\ AtReduction(p, d, r, 1, s)
        \/ pc = 2 * p.M + 6 /\ AtRow(p, d, 0, 0, p.M, 0, s)
        \/ pc = 2 * p.M + 7 /\ IsMachine(s) /\ ~s.ended /\ Results(p, d, 0, 0, p.M, s.dramOut)
        \/ pc = 2 * p.M + 8
    BY <1>2 DEF SingleHere
  <2>2. pc # 2 * p.M + 8
    <3>1. p.M \in Nat /\ IsSize(p)
      BY DEF IsSmall, IsSize
    <3>2. Len(SingleTile(p)) = 2 * p.M + 7
      BY <3>1, SingleSteps DEF SinglePlaced
    <3> QED
      BY <3>1, <3>2
  <2> QED
    BY <2>1, <2>2, SingleProduct, SingleVector, SingleStore, SingleEnd
<1> QED
  BY <1>1, <1>2

(* What the run leaves in the DRAM is the product. *)
LEMMA SingleCollects ==
  ASSUME NEW p, NEW d, IsJob(p, d), IsSmall(p), NEW pc, NEW s, SingleHere(p, d, pc, s),
         pc > Len(SingleTile(p))
  PROVE  Gathered(p, d, CollectInto(p, <<>>, s.dramOut, 0, 0), 1, 0)
<1> DEFINE m == p.M
           c == CollectInto(p, <<>>, s.dramOut, 0, 0)
<1>1. m \in Nat \ {0} /\ IsSize(p)
  BY DEF IsSmall, IsSize
<1>2. Len(SingleTile(p)) = 2 * m + 7
  BY <1>1, SingleSteps DEF SinglePlaced
<1>3. Results(p, d, 0, 0, p.M, s.dramOut)
  <2>1. pc > 2 * m + 7
    BY <1>2
  <2>2. /\ pc \notin {1, 2, 3, 4, 5} /\ pc # 2 * m + 6 /\ pc # 2 * m + 7
        /\ \A r \in 0..m - 1 : pc # 2 * r + 6 /\ pc # 2 * r + 7
    <3> HIDE DEF m
    <3> QED
      BY <1>1, <2>1
  <2> QED
    BY <2>2 DEF SingleHere
<1>4. Gathered(p, d, <<>>, 0, 0)
  BY <1>1, NothingYet
<1>5. Gathered(p, d, c, 0, 0 + 1)
  BY <1>3, <1>4, SmallSize, Collects
<1>6. Gathered(p, d, c, 0, CeilDiv(p.M, P)) /\ 0 \in Nat
  BY <1>5, SmallSize
<1> HIDE DEF c
<1>7. Gathered(p, d, c, 0 + 1, 0)
  BY <1>1, <1>6, ColumnDone
<1> QED
  BY <1>7 DEF c

-----------------------------------------------------------------------------
(* GEMM *)

(* A run that is past its last instruction has stored its column tile. *)
LEMMA RunEnds ==
  ASSUME NEW p, NEW d, IsJob(p, d), NEW j \in Tiles(p.N), NEW pc \in Nat, NEW s, NEW c,
         Here(p, d, j, pc, s, c), pc > Len(ColumnRun(p, j))
  PROVE  Gathered(p, d, c, j + 1, 0)
<1>1. j \in Nat
  BY TileParts DEF IsJob, IsSize
<1>2. Len(ColumnRun(p, j)) \in Nat
  BY <1>1, RunAtPosition, LenProperties DEF IsJob
<1>3. ~Proceeds(p, d, j, pc, s, c)
  <2>1. pc \notin 1..Len(ColumnRun(p, j))
    BY <1>2
  <2> QED
    BY <2>1 DEF Proceeds
<1>4. ~AtHead(p, d, j, pc, s, c)
  BY <1>1, <1>3, HeadProceeds
<1>5. ~\E i \in Tiles(p.M) : \E r \in 0..InTile(p.M, i) - 1 :
         \E n \in 0..KTiles(p) - 1 : AtTile(p, d, j, i, r, n, pc, s, c)
  BY <1>1, <1>3, TileProceeds
<1>6. ~\E i \in Tiles(p.M) : \E r \in 0..InTile(p.M, i) - 1 : AtVector(p, d, j, i, r, pc, s, c)
  BY <1>1, <1>3, VectorProceeds
<1>7. ~\E i \in Tiles(p.M) : AtStore(p, d, j, i, pc, s, c)
  BY <1>3, StoreProceeds
<1>8. ~AtEnd(p, d, j, pc, s, c)
  BY <1>1, <1>3, EndProceeds
<1> QED
  BY <1>4, <1>5, <1>6, <1>7, <1>8 DEF Here, Over

(* Wherever a run is, C holds the cells of some region and they are right. *)
LEMMA HereGathered ==
  ASSUME NEW p, NEW d, NEW j, NEW pc, NEW s, NEW c, Here(p, d, j, pc, s, c)
  PROVE  \E a, i : Gathered(p, d, c, a, i)
BY DEF Here, AtHead, AtTile, AtVector, AtStore, AtEnd, Over

(* A fresh machine is at the head of a run. *)
LEMMA RunStarts ==
  ASSUME NEW p, NEW d, NEW j, NEW c, Gathered(p, d, c, j, 0)
  PROVE  Here(p, d, j, 1, Fresh, c)
BY DEF Here, AtHead

(* There is one run for each column tile. *)
LEMMA RunsOf ==
  ASSUME NEW p, IsSize(p)
  PROVE  /\ Len(BuildTiledGemmRuns(p)) = CeilDiv(p.N, P)
         /\ \A k \in 1..CeilDiv(p.N, P) :
              BuildTiledGemmRuns(p)[k] = ColumnRun(p, k - 1) /\ k - 1 \in Tiles(p.N)
<1> DEFINE n == CeilDiv(p.N, P)
           q == BuildTiledGemmRuns(p)
           X == Seq(ProgramStep)
<1>1. n \in Nat \ {0}
  BY TileBounds DEF IsSize
<1>2. q = [k \in 1..n |-> ColumnRun(p, k - 1)]
  BY DEF BuildTiledGemmRuns
<1> HIDE DEF n, q, X
<1>3. ASSUME NEW k \in 1..n PROVE k - 1 \in Nat /\ ColumnRun(p, k - 1) \in X
  <2>1. k - 1 \in Nat
    BY <1>1
  <2> QED
    BY <2>1, RunAtPosition DEF X
<1>4. q \in [1..n -> X]
  BY <1>2, <1>3
<1>5. Len(q) = n
  BY <1>1, <1>4, AsSequence
<1>6. ASSUME NEW k \in 1..n PROVE q[k] = ColumnRun(p, k - 1) /\ k - 1 \in 0..n - 1
  BY <1>1, <1>2
<1> QED
  BY <1>5, <1>6 DEF n, q, Tiles
-----------------------------------------------------------------------------
(* The invariant: where the driver is, and what C holds. *)
JobOk ==
  /\ size \in Sizes /\ data \in DataSets /\ single \in BOOLEAN
  /\ single => IsSmall(size)

(* The tiled programs: in a run, or past the last one. *)
TiledRunning ==
  \/ /\ at.run \in 1..CeilDiv(size.N, P)
     /\ Here(size, data, at.run - 1, at.pc, machine, C)
  \/ at.run = CeilDiv(size.N, P) + 1 /\ Gathered(size, data, C, CeilDiv(size.N, P), 0)

(* The single-tile program: in its run, or past it. *)
SingleRunning ==
  \/ at.run = 1 /\ C = <<>> /\ SingleHere(size, data, at.pc, machine)
  \/ at.run = 2 /\ Gathered(size, data, C, CeilDiv(size.N, P), 0)

(* Nothing has been executed. *)
Untouched == C = <<>> /\ at = [run |-> 1, pc |-> 1]
(* The inductive invariant. *)
GemmInv ==
  /\ JobOk
  /\ phase \in {"generate", "write", "files", "run", "done"}
  /\ phase \in {"generate", "write", "files"} => Untouched /\ machine = Fresh
  /\ phase \in {"write", "files"} => ~single
  /\ phase \in {"write", "files", "run"} => runs = Programs
  /\ phase = "run" => /\ at \in [run : Nat, pc : Nat]
                      /\ IF single THEN SingleRunning ELSE TiledRunning
  /\ phase = "done" => Gathered(size, data, C, CeilDiv(size.N, P), 0)

(* The assumptions on the constants make every size and data a job. *)
LEMMA JobIsJob ==
  ASSUME JobOk
  PROVE  IsSize(size) /\ IsJob(size, data)
<1>1. IsSize(size)
  BY SizeAssumption DEF JobOk, IsSize
<1>2. \A k \in 0..size.K - 1 : /\ \A x \in 0..size.M - 1 : data.A[x][k] \in Int
                               /\ \A y \in 0..size.N - 1 : data.B[k][y] \in Int
  BY DataAssumption DEF JobOk
<1> QED
  BY <1>1, <1>2 DEF IsJob

(* The model's operators are those of the lemmas: Bind, *)
LEMMA BindIsBound ==
  ASSUME NEW s, NEW tile
  PROVE  Bind(s, tile) = Bound(size, data, s, tile)
<1>1. /\ \A kt, j : PaddedWeightTile(kt, j) = WeightTile(size, data, kt, j)
      /\ \A i, r, kt : PaddedActRow(i, r, kt) = ActTile(size, data, i, r, kt)
      /\ \A j : PaddedBiasTile(j) = BiasTile(size, data, j)
  BY DEF PaddedWeightTile, WeightTile, PaddedActRow, ActTile, PaddedBiasTile, BiasTile
<1> QED
  BY <1>1 DEF Bind, Bound

(* Collected, *)
LEMMA CollectedInto ==
  ASSUME NEW out, NEW i, NEW j
  PROVE  Collected(out, i, j) = CollectInto(size, C, out, i, j)
BY DEF Collected, CollectInto

(* LoadSources *)
LEMMA LoadsSources == LoadSources = Sources(size, data)
<1>1. PaddedBiasTile(0) = BiasTile(size, data, 0)
  BY DEF PaddedBiasTile, BiasTile
<1> QED
  BY <1>1 DEF LoadSources, Sources

(* and Programs. *)
LEMMA ProgramsAre ==
  ASSUME JobOk
  PROVE  /\ single => Len(Programs) = 1 /\ Programs[1] = SingleTile(size)
         /\ ~single =>
              /\ Len(Programs) = CeilDiv(size.N, P)
              /\ \A k \in 1..CeilDiv(size.N, P) :
                   Programs[k] = ColumnRun(size, k - 1) /\ k - 1 \in Tiles(size.N)
BY JobIsJob, RunsOf DEF Programs
-----------------------------------------------------------------------------
(* Each action preserves the invariant. *)
LEMMA InitGemm == ASSUME Init PROVE GemmInv
<1>1. IsSize(size)
  BY SizeAssumption DEF Init, IsSize
<1>2. JobOk
  BY <1>1 DEF Init, JobOk, IsSmall
<1> QED
  BY <1>2 DEF Init, GemmInv, Untouched

LEMMA GenerateGemm == ASSUME GemmInv, Generate PROVE GemmInv'
<1>1. /\ JobOk /\ JobOk' /\ Untouched /\ runs' = Programs' /\ size' = size /\ data' = data
      /\ single' = single /\ C' = C /\ at' = at /\ C = <<>> /\ at = [run |-> 1, pc |-> 1]
  BY DEF GemmInv, Generate, job, JobOk, Untouched, Programs
<1>2. CASE single
  <2>1. phase' = "run" /\ machine' = Sources(size, data)
    BY <1>2, LoadsSources DEF Generate
  <2>2. SingleHere(size, data, 1, machine')
    BY <2>1 DEF SingleHere
  <2>3. SingleRunning' /\ at' \in [run : Nat, pc : Nat]
    BY <1>1, <2>2 DEF SingleRunning
  <2> QED
    BY <1>1, <1>2, <2>1, <2>3 DEF GemmInv
<1>3. CASE ~single
  BY <1>1, <1>3 DEF GemmInv, Generate, Untouched
<1> QED
  BY <1>2, <1>3

LEMMA ManifestGemm == ASSUME GemmInv, WriteManifest PROVE GemmInv'
BY DEF GemmInv, WriteManifest, job, JobOk, Untouched, Programs

LEMMA FilesGemm == ASSUME GemmInv, WriteFiles PROVE GemmInv'
<1>1. /\ JobOk /\ JobOk' /\ runs' = Programs' /\ size' = size /\ data' = data
      /\ single' = single /\ ~single /\ C' = C /\ at' = at /\ machine' = machine
      /\ C = <<>> /\ at = [run |-> 1, pc |-> 1] /\ machine = Fresh /\ phase' = "run"
  BY DEF GemmInv, WriteFiles, job, JobOk, Untouched, Programs
<1>2. Here(size, data, 0, 1, Fresh, <<>>)
  BY <1>1, JobIsJob, NothingYet, RunStarts
<1>3. 1 \in 1..CeilDiv(size.N, P) /\ 1 - 1 = 0
  BY <1>1, JobIsJob, TileBounds DEF IsSize
<1>4. TiledRunning' /\ at' \in [run : Nat, pc : Nat]
  BY <1>1, <1>2, <1>3 DEF TiledRunning
<1> QED
  BY <1>1, <1>4 DEF GemmInv

(* One instruction of the tiled programs. *)
LEMMA ExecuteTiled == ASSUME GemmInv, ExecuteInstruction, ~single PROVE GemmInv'
<1> DEFINE j == at.run - 1
           run == ColumnRun(size, j)
           step == Current
           bound == Bound(size, data, machine, step.tile)
           ran == Perform(bound, step.ins, data.vec)
<1>1. /\ JobOk /\ JobOk' /\ runs = Programs /\ runs' = Programs' /\ size' = size /\ data' = data
      /\ single' = single /\ phase = "run" /\ at \in [run : Nat, pc : Nat] /\ TiledRunning
      /\ at.run <= Len(runs) /\ at.pc <= Len(runs[at.run])
  BY DEF GemmInv, ExecuteInstruction, job, JobOk, Programs
<1>2. IsSize(size) /\ IsJob(size, data) /\ CeilDiv(size.N, P) \in Nat \ {0}
  BY <1>1, JobIsJob, TileBounds DEF IsSize
<1>3. /\ at.run \in 1..CeilDiv(size.N, P) /\ Here(size, data, j, at.pc, machine, C)
      /\ runs[at.run] = run /\ j \in Tiles(size.N)
  <2>1. at.run <= CeilDiv(size.N, P) /\ at.run \in Nat
    BY <1>1, ProgramsAre
  <2>2. at.run \in 1..CeilDiv(size.N, P) /\ Here(size, data, j, at.pc, machine, C)
    BY <1>1, <1>2, <2>1 DEF TiledRunning
  <2> QED
    BY <1>1, <2>2, ProgramsAre
<1>4. step = run[at.pc]
  BY <1>3 DEF Current
<1>5. Proceeds(size, data, j, at.pc, machine, C)
  BY <1>1, <1>2, <1>3, RunProceeds
<1> HIDE DEF step, run, j
<1>6. /\ Accepts(bound, step.ins)
      /\ step.ins.op = "STORE" =>
           Here(size, data, j, at.pc + 1, [ran EXCEPT !.dramOut = NoData],
                CollectInto(size, C, ran.dramOut, step.tile[2], step.tile[3]))
      /\ step.ins.op # "STORE" => Here(size, data, j, at.pc + 1, ran, C)
  BY <1>4, <1>5 DEF Proceeds, run
<1>7. Bind(machine, step.tile) = bound
  BY BindIsBound
<1> HIDE DEF bound, ran
<1>8. /\ phase' = phase /\ at' = [at EXCEPT !.pc = @ + 1]
      /\ step.ins.op = "STORE" =>
           /\ machine' = [ran EXCEPT !.dramOut = IF single THEN @ ELSE NoData]
           /\ C' = IF single THEN C ELSE Collected(ran.dramOut, step.tile[2], step.tile[3])
      /\ step.ins.op # "STORE" => machine' = ran /\ C' = C
  BY <1>6, <1>7 DEF ExecuteInstruction, step, ran
<1>9. Here(size, data, j, at.pc + 1, machine', C')
  BY <1>6, <1>8, CollectedInto
<1>10. /\ at'.run = at.run /\ at'.pc = at.pc + 1 /\ at' \in [run : Nat, pc : Nat]
  BY <1>1, <1>8
<1>11. TiledRunning'
  BY <1>1, <1>3, <1>9, <1>10 DEF TiledRunning, j
<1> QED
  BY <1>1, <1>8, <1>10, <1>11 DEF GemmInv

(* One instruction of the single-tile program. *)
LEMMA ExecuteSingle == ASSUME GemmInv, ExecuteInstruction, single PROVE GemmInv'
<1> DEFINE run == SingleTile(size)
           step == Current
           ran == Perform(machine, step.ins, data.vec)
           kept == IF step.ins.op = "STORE" THEN [ran EXCEPT !.dramOut = @] ELSE ran
<1>1. /\ JobOk /\ JobOk' /\ runs = Programs /\ runs' = Programs' /\ size' = size /\ data' = data
      /\ single' = single /\ phase = "run" /\ at \in [run : Nat, pc : Nat] /\ SingleRunning
      /\ at.run <= Len(runs) /\ at.pc <= Len(runs[at.run])
  BY DEF GemmInv, ExecuteInstruction, job, JobOk, Programs
<1>2. IsJob(size, data) /\ IsSmall(size)
  BY <1>1, JobIsJob DEF JobOk
<1>3. /\ at.run = 1 /\ C = <<>> /\ SingleHere(size, data, at.pc, machine) /\ runs[at.run] = run
  <2>1. Len(runs) = 1 /\ runs[1] = run
    BY <1>1, ProgramsAre
  <2> QED
    BY <1>1, <2>1 DEF SingleRunning
<1>4. step = run[at.pc]
  BY <1>3 DEF Current
<1>5. SingleProceeds(size, data, at.pc, machine)
  BY <1>1, <1>2, <1>3, SingleRunProceeds
<1> HIDE DEF step, run
<1>6. /\ step.tile = NoTile /\ Accepts(machine, step.ins)
      /\ SingleHere(size, data, at.pc + 1, kept)
  BY <1>4, <1>5 DEF SingleProceeds, run
<1>7. Bind(machine, step.tile) = machine
  BY <1>6, BindIsBound, BoundNone
<1> HIDE DEF ran
<1>8. /\ phase' = phase /\ at' = [at EXCEPT !.pc = @ + 1]
      /\ step.ins.op = "STORE" =>
           /\ machine' = [ran EXCEPT !.dramOut = IF single THEN @ ELSE NoData]
           /\ C' = IF single THEN C ELSE Collected(ran.dramOut, step.tile[2], step.tile[3])
      /\ step.ins.op # "STORE" => machine' = ran /\ C' = C
  BY <1>6, <1>7 DEF ExecuteInstruction, step, ran
<1>9. machine' = kept /\ C' = <<>>
  BY <1>3, <1>8
<1> HIDE DEF kept
<1>10. SingleHere(size, data, at.pc + 1, machine')
  BY <1>6, <1>9
<1>11. at'.run = 1 /\ at'.pc = at.pc + 1 /\ at' \in [run : Nat, pc : Nat]
  BY <1>1, <1>3, <1>8
<1>12. SingleRunning'
  BY <1>1, <1>9, <1>10, <1>11 DEF SingleRunning
<1> QED
  BY <1>1, <1>8, <1>11, <1>12 DEF GemmInv

(* The start of the next run, or the end of the last. *)
LEMMA NextRunTiled == ASSUME GemmInv, NextRun, ~single PROVE GemmInv'
<1> DEFINE j == at.run - 1
           m == CeilDiv(size.N, P)
<1>1. /\ JobOk /\ JobOk' /\ runs = Programs /\ runs' = Programs' /\ size' = size /\ data' = data
      /\ single' = single /\ phase = "run" /\ at \in [run : Nat, pc : Nat] /\ TiledRunning
      /\ at.run <= Len(runs) /\ at.pc > Len(runs[at.run])
      /\ phase' = phase /\ machine' = Fresh /\ C' = C /\ at' = [run |-> at.run + 1, pc |-> 1]
  BY DEF GemmInv, NextRun, job, JobOk, Programs
<1>2. IsSize(size) /\ IsJob(size, data) /\ m \in Nat \ {0}
  BY <1>1, JobIsJob, TileBounds DEF IsSize
<1>3. /\ at.run \in 1..m /\ Here(size, data, j, at.pc, machine, C)
      /\ runs[at.run] = ColumnRun(size, j) /\ j \in Tiles(size.N)
  <2>1. at.run <= m /\ at.run \in Nat
    BY <1>1, ProgramsAre
  <2>2. at.run \in 1..m /\ Here(size, data, j, at.pc, machine, C)
    BY <1>1, <1>2, <2>1 DEF TiledRunning
  <2> QED
    BY <1>1, <2>2, ProgramsAre
<1>4. Gathered(size, data, C, j + 1, 0) /\ j + 1 = at.run
  <2>1. Gathered(size, data, C, j + 1, 0)
    BY <1>1, <1>2, <1>3, RunEnds
  <2> QED
    BY <1>3, <2>1
<1> HIDE DEF j, m
<1>5. TiledRunning'
  <2> DEFINE k == at.run
  <2>1. Gathered(size, data, C', k, 0) /\ k \in 1..m /\ at'.run = k + 1 /\ at'.pc = 1
    BY <1>1, <1>3, <1>4
  <2>2. CASE k = m
    BY <1>1, <2>1, <2>2 DEF TiledRunning, m
  <2>3. CASE k # m
    <3>1. k + 1 \in 1..m /\ (k + 1) - 1 = k
      BY <1>2, <2>1, <2>3
    <3>2. Here(size, data, k, 1, Fresh, C')
      BY <2>1, RunStarts
    <3>3. Here(size, data, at'.run - 1, at'.pc, machine', C') /\ at'.run \in 1..m
      <4> HIDE DEF k
      <4> QED
        BY <1>1, <2>1, <3>1, <3>2
    <3> QED
      BY <1>1, <3>3 DEF TiledRunning, m
  <2> QED
    BY <2>2, <2>3
<1>6. at' \in [run : Nat, pc : Nat]
  BY <1>1
<1> QED
  BY <1>1, <1>5, <1>6 DEF GemmInv

LEMMA NextRunSingle == ASSUME GemmInv, NextRun, single PROVE GemmInv'
<1>1. /\ JobOk /\ JobOk' /\ runs = Programs /\ runs' = Programs' /\ size' = size /\ data' = data
      /\ single' = single /\ phase = "run" /\ at \in [run : Nat, pc : Nat] /\ SingleRunning
      /\ at.run <= Len(runs) /\ at.pc > Len(runs[at.run])
      /\ phase' = phase /\ C' = Collected(machine.dramOut, 0, 0)
      /\ at' = [run |-> at.run + 1, pc |-> 1]
  BY DEF GemmInv, NextRun, job, JobOk, Programs
<1>2. IsJob(size, data) /\ IsSmall(size)
  BY <1>1, JobIsJob DEF JobOk
<1>3. /\ at.run = 1 /\ C = <<>> /\ SingleHere(size, data, at.pc, machine)
      /\ at.pc > Len(SingleTile(size))
  <2>1. Len(runs) = 1 /\ runs[1] = SingleTile(size)
    BY <1>1, ProgramsAre
  <2> QED
    BY <1>1, <2>1 DEF SingleRunning
<1>4. C' = CollectInto(size, <<>>, machine.dramOut, 0, 0)
  BY <1>1, <1>3, CollectedInto
<1>5. Gathered(size, data, C', 1, 0)
  BY <1>2, <1>3, <1>4, SingleCollects
<1>6. CeilDiv(size.N, P) = 1
  BY <1>2, SmallSize
<1>7. SingleRunning' /\ at' \in [run : Nat, pc : Nat]
  BY <1>1, <1>3, <1>5, <1>6 DEF SingleRunning
<1> QED
  BY <1>1, <1>7 DEF GemmInv

LEMMA ReturnGemm == ASSUME GemmInv, Return PROVE GemmInv'
<1>1. /\ JobOk /\ JobOk' /\ runs = Programs /\ size' = size /\ data' = data
      /\ single' = single /\ phase = "run" /\ at \in [run : Nat, pc : Nat]
      /\ (IF single THEN SingleRunning ELSE TiledRunning)
      /\ at.run > Len(runs) /\ phase' = "done" /\ C' = C
  BY DEF GemmInv, Return, job, JobOk
<1>2. Gathered(size, data, C, CeilDiv(size.N, P), 0)
  <2>1. CASE single
    <3>1. at.run # 1
      BY <1>1, <2>1, ProgramsAre
    <3> QED
      BY <1>1, <2>1, <3>1 DEF SingleRunning
  <2>2. CASE ~single
    <3>1. Len(runs) = CeilDiv(size.N, P) /\ CeilDiv(size.N, P) \in Nat
      BY <1>1, <2>2, ProgramsAre, JobIsJob, TileBounds DEF IsSize
    <3>2. at.run \notin 1..CeilDiv(size.N, P)
      BY <1>1, <3>1
    <3> QED
      BY <1>1, <2>2, <3>2 DEF TiledRunning
  <2> QED
    BY <2>1, <2>2
<1> QED
  BY <1>1, <1>2 DEF GemmInv

LEMMA AnotherGemm == ASSUME GemmInv, GenerateAnother PROVE GemmInv'
BY DEF GemmInv, GenerateAnother, JobOk, Untouched

LEMMA IdleGemm == ASSUME GemmInv, UNCHANGED vars PROVE GemmInv'
BY DEF GemmInv, vars, JobOk, Untouched, Programs, SingleRunning, TiledRunning

(* Every step preserves the invariant, *)
LEMMA GemmInductive == ASSUME GemmInv, [Next]_vars PROVE GemmInv'
<1>1. CASE Generate
  BY <1>1, GenerateGemm
<1>2. CASE WriteManifest
  BY <1>2, ManifestGemm
<1>3. CASE WriteFiles
  BY <1>3, FilesGemm
<1>4. CASE ExecuteInstruction
  BY <1>4, ExecuteTiled, ExecuteSingle
<1>5. CASE NextRun
  BY <1>5, NextRunTiled, NextRunSingle
<1>6. CASE Return
  BY <1>6, ReturnGemm
<1>7. CASE GenerateAnother
  BY <1>7, AnotherGemm
<1>8. CASE UNCHANGED vars
  BY <1>8, IdleGemm
<1> QED
  BY <1>1, <1>2, <1>3, <1>4, <1>5, <1>6, <1>7, <1>8 DEF Next, Work

(* so it holds in every reachable state. *)
LEMMA GemmAlways == Spec => []GemmInv
<1>1. Init => GemmInv
  BY InitGemm
<1>2. GemmInv /\ [Next]_vars => GemmInv'
  BY GemmInductive
<1> QED
  BY <1>1, <1>2, PTL DEF Spec

(* The invariant implies that every cell collected is exact, *)
LEMMA ProductExact == ASSUME GemmInv PROVE CellsExact
<1>1. C = <<>> \/ \E j, i : Gathered(size, data, C, j, i)
  BY HereGathered DEF GemmInv, Untouched, TiledRunning, SingleRunning
<1>2. CASE C = <<>>
  BY <1>2 DEF CellsExact
<1>3. CASE \E j, i : Gathered(size, data, C, j, i)
  <2>1. IsSize(size)
    BY JobIsJob DEF GemmInv
  <2>2. \A cell \in DOMAIN C :
           /\ cell[1] < size.M /\ cell[2] < size.N
           /\ C[cell] = <<Product(size, data, cell[1], cell[2])>>
    BY <1>3, <2>1, GatheredExact
  <2> QED
    BY <2>2 DEF CellsExact, Expected, Product
<1> QED
  BY <1>1, <1>2, <1>3

(* A finished GEMM has written every cell of C and no other: what
   collected_C in tiling.py must amount to when execute_tiled_program returns. *)
ProductWhole == phase = "done" => DOMAIN C = (0..size.M - 1) \X (0..size.N - 1)

(* and, at the end, that no cell is missing. *)
LEMMA ProductComplete == ASSUME GemmInv PROVE ProductWhole
<1>1. IsSize(size)
  BY JobIsJob DEF GemmInv
<1> QED
  BY <1>1, AllDone DEF GemmInv, ProductWhole, Whole

(* The simulator's state checks reject no instruction of a generated program,
   whatever the size: the loads, swaps, MATMULs and VECTORs of
   build_tiled_gemm_runs come in an order that the buffers allow. *)

THEOREM TiledNeverRejected == Spec => []NeverRejected
<1>1. GemmInv => NeverRejected
  BY DEF GemmInv, NeverRejected
<1> QED
  BY <1>1, GemmAlways, PTL

(* Every cell collected is inside C, was stored by one STORE only, and is the
   product of the row and the column with its bias, requantised and
   activated: the tiles, their padding and the accumulation over K leave
   no trace, for every size and all data. *)

THEOREM TiledCellsExact == Spec => []CellsExact
<1>1. GemmInv => CellsExact
  BY ProductExact
<1> QED
  BY <1>1, GemmAlways, PTL

(* No cell is missing: when execute_tiled_program returns, the tiles stored
   partition C. *)

THEOREM TiledProductWhole == Spec => []ProductWhole
<1>1. GemmInv => ProductWhole
  BY ProductComplete
<1> QED
  BY <1>1, GemmAlways, PTL

-----------------------------------------------------------------------------
(* Files *)

(* A set that holds every step that the generator appends for column tile j. *)
Appended(p, j, X) ==
  /\ Do(NOP) \in X /\ Do(SWAP_WGT) \in X /\ Do(END) \in X
  /\ With(LOAD_BIAS(0, BIAS_BEATS - 1), <<"bias", j>>) \in X
  /\ \A kt \in Tiles(p.K) : LoadWeights(kt, j) \in X
  /\ \A i \in Tiles(p.M) :
       /\ With(STORE(0, 0, InTile(p.M, i) - 1), <<"store", i, j>>) \in X
       /\ \A r \in 0..InTile(p.M, i) - 1 :
            /\ Do(VECTOR(0, r)) \in X
            /\ \A kt \in Tiles(p.K) : LoadRow(i, r, kt) \in X
            /\ \A c \in Ctrl : Do(MATMUL(0, r, c)) \in X

(* The steps of a reduction, *)
LEMMA ReductionOf ==
  ASSUME NEW p, IsSize(p), NEW j, NEW X, Appended(p, j, X),
         NEW i \in Tiles(p.M), NEW r \in 0..InTile(p.M, i) - 1
  PROVE  Reduction(p, j, i, r) \in Seq(X)
<1> DEFINE red == Reduction(p, j, i, r)
           n == CeilDiv(p.K, P)
<1>1. n \in Nat \ {0} /\ Tiles(p.K) = 0..n - 1
  BY TileBounds DEF IsSize, Tiles
<1>2. /\ \A kt \in 0..n - 1 : LoadWeights(kt, j) \in X /\ LoadRow(i, r, kt) \in X
      /\ \A c \in Ctrl : Do(MATMUL(0, r, c)) \in X
      /\ Do(SWAP_WGT) \in X
  BY <1>1 DEF Appended
<1>3. CASE OneWeightTile(p)
  <2> DEFINE a == LoadRow(i, r, 0)
             b == Do(MATMUL(0, r, "NONE"))
  <2>1. red = <<a, b>>
    BY <1>3 DEF Reduction
  <2>2. a \in X /\ b \in X
    BY <1>1, <1>2 DEF Ctrl
  <2> HIDE DEF a, b, red
  <2>3. red \in Seq(X)
    BY <2>1, <2>2
  <2> QED
    BY <2>3 DEF red
<1>4. CASE ~OneWeightTile(p)
  <2> DEFINE q == [t \in 1..n |-> <<LoadWeights(t - 1, j), LoadRow(i, r, t - 1), Do(SWAP_WGT),
                                    Do(MATMUL(0, r, CtrlOf(p, t - 1)))>>]
  <2>1. red = FlattenSeq(q)
    BY <1>4 DEF Reduction, Concat
  <2>2. ASSUME NEW t \in 1..n
        PROVE  q[t] \in Seq(X)
    <3> DEFINE a == LoadWeights(t - 1, j)
               b == LoadRow(i, r, t - 1)
               c == Do(SWAP_WGT)
               d == Do(MATMUL(0, r, CtrlOf(p, t - 1)))
    <3>1. t - 1 \in 0..n - 1 /\ CtrlOf(p, t - 1) \in Ctrl
      BY <1>1 DEF CtrlOf, Ctrl
    <3>2. a \in X /\ b \in X /\ c \in X /\ d \in X
      BY <1>2, <3>1
    <3>3. q[t] = <<a, b, c, d>>
      OBVIOUS
    <3> HIDE DEF a, b, c, d, q
    <3> QED
      BY <3>2, <3>3
  <2>3. q = [t \in 1..n |-> q[t]]
    OBVIOUS
  <2> HIDE DEF q, n, red
  <2>4. q \in [1..n -> Seq(X)]
    BY <2>2, <2>3
  <2>5. Joined(n, q) \in [1..n -> Seq(X)] /\ red = Joined(n, q)[n]
    BY <1>1, <2>1, <2>4, FlattenSteps
  <2>6. red \in Seq(X)
    BY <1>1, <2>5
  <2> QED
    BY <2>6 DEF red
<1> QED
  BY <1>3, <1>4

(* of a row tile *)
LEMMA RowTileOf ==
  ASSUME NEW p, IsSize(p), NEW j, NEW X, Appended(p, j, X), NEW i \in Tiles(p.M)
  PROVE  RowTile(p, j, i) \in Seq(X)
<1> DEFINE n == InTile(p.M, i)
           red(r) == Reduction(p, j, i, r)
           vec(r) == Do(VECTOR(0, r))
           q == [t \in 1..n |-> Append(red(t - 1), vec(t - 1))]
           last == With(STORE(0, 0, n - 1), <<"store", i, j>>)
           w == RowTile(p, j, i)
<1>1. n \in Nat \ {0}
  BY TileParts, RowsPositive DEF IsSize
<1>2. w = FlattenSeq(q) \o <<last>>
  BY DEF RowTile, Concat
<1>3. last \in X
  BY DEF Appended
<1>4. ASSUME NEW r \in 0..n - 1 PROVE red(r) \in Seq(X) /\ vec(r) \in X
  BY ReductionOf DEF Appended
<1> HIDE DEF red, vec, last, n
<1>5. ASSUME NEW t \in 1..n PROVE q[t] \in Seq(X)
  <2> DEFINE a == red(t - 1)
             b == vec(t - 1)
  <2>1. t - 1 \in 0..n - 1
    BY <1>1
  <2>2. a \in Seq(X) /\ b \in X /\ q[t] = Append(a, b)
    BY <1>4, <2>1
  <2> HIDE DEF a, b, q
  <2> QED
    BY <2>2
<1>6. q = [t \in 1..n |-> q[t]]
  OBVIOUS
<1> HIDE DEF q, w
<1>7. q \in [1..n -> Seq(X)]
  BY <1>5, <1>6
<1>8. Joined(n, q) \in [1..n -> Seq(X)] /\ FlattenSeq(q) = Joined(n, q)[n]
  BY <1>1, <1>7, FlattenSteps
<1>9. FlattenSeq(q) \in Seq(X) /\ <<last>> \in Seq(X)
  BY <1>1, <1>3, <1>8
<1>10. w \in Seq(X)
  BY <1>2, <1>9, Concatenated
<1> QED
  BY <1>10 DEF w

(* Every step of a run is one of those. *)
LEMMA RunOf ==
  ASSUME NEW p, IsSize(p), NEW j, NEW X, Appended(p, j, X)
  PROVE  ColumnRun(p, j) \in Seq(X)
<1> DEFINE m == CeilDiv(p.M, P)
           tile(i) == RowTile(p, j, i)
           q == [t \in 1..m |-> tile(t - 1)]
           f == FlattenSeq(q)
           run == ColumnRun(p, j)
           a == Do(NOP)
           b == With(LOAD_BIAS(0, BIAS_BEATS - 1), <<"bias", j>>)
           c == LoadWeights(0, j)
           d == Do(SWAP_WGT)
           e == Do(END)
           first == IF OneWeightTile(p) THEN <<c, d>> ELSE <<>>
<1>1. m \in Nat \ {0} /\ Tiles(p.M) = 0..m - 1 /\ 0 \in Tiles(p.K)
  BY TileBounds DEF IsSize, Tiles
<1>2. a \in X /\ b \in X /\ c \in X /\ d \in X /\ e \in X
  BY <1>1 DEF Appended
<1>3. ((<<a, b>> \o first) \o f) \o <<e>> = run
  BY DEF ColumnRun, Concat
<1>4. ASSUME NEW i \in 0..m - 1 PROVE tile(i) \in Seq(X)
  BY <1>1, RowTileOf
<1> HIDE DEF a, b, c, d, e, tile, m, run
<1>5. ASSUME NEW t \in 1..m PROVE t - 1 \in 0..m - 1 /\ q[t] \in Seq(X)
  <2>1. t - 1 \in 0..m - 1
    BY <1>1
  <2> QED
    BY <1>4, <2>1
<1>6. q = [t \in 1..m |-> q[t]]
  OBVIOUS
<1> HIDE DEF q
<1>7. q \in [1..m -> Seq(X)]
  BY <1>5, <1>6
<1>8. Joined(m, q) \in [1..m -> Seq(X)] /\ f = Joined(m, q)[m]
  BY <1>1, <1>7, FlattenSteps
<1>9. f \in Seq(X)
  BY <1>1, <1>8
<1>10. first \in Seq(X) /\ <<a, b>> \in Seq(X) /\ <<e>> \in Seq(X)
  BY <1>2
<1> HIDE DEF f, first
<1>11. <<a, b>> \o first \in Seq(X)
  BY <1>10, Concatenated
<1>12. (<<a, b>> \o first) \o f \in Seq(X)
  BY <1>9, <1>11, Concatenated
<1>13. run \in Seq(X)
  BY <1>3, <1>10, <1>12, Concatenated
<1> QED
  BY <1>13 DEF run
-----------------------------------------------------------------------------
(* A step whose instruction survives its encoding, and has a tile exactly if
   it is a transfer. *)
Survives(i) == Decode(Encode(i)) = i
Transfer(i) == i.op \in LoadOp \cup {"STORE"}
Written == {s \in ProgramStep : Survives(s.ins) /\ (s.tile # NoTile <=> Transfer(s.ins))}

(* A name's code leads back to the name. *)
LEMMA Codes ==
  /\ \A x \in Op : Code(Opcodes, x) \in 0..9 /\ Opcodes[Code(Opcodes, x) + 1] = x
  /\ \A x \in Ctrl : Code(AccumCtrl, x) \in 0..3 /\ AccumCtrl[Code(AccumCtrl, x) + 1] = x
<1>1. ASSUME NEW x \in Op PROVE Code(Opcodes, x) \in 0..9 /\ Opcodes[Code(Opcodes, x) + 1] = x
  <2> DEFINE k == CHOOSE n \in DOMAIN Opcodes : Opcodes[n] = x
  <2>1. DOMAIN Opcodes = 1..10
    BY DEF Opcodes
  <2>2. \E n \in DOMAIN Opcodes : Opcodes[n] = x
    BY <2>1 DEF Opcodes, Op
  <2>3. k \in 1..10 /\ Opcodes[k] = x
    BY <2>1, <2>2
  <2> HIDE DEF k
  <2>4. k - 1 \in 0..9 /\ (k - 1) + 1 = k
    BY <2>3
  <2> QED
    BY <2>3, <2>4 DEF Code, k
<1>2. ASSUME NEW x \in Ctrl
      PROVE  Code(AccumCtrl, x) \in 0..3 /\ AccumCtrl[Code(AccumCtrl, x) + 1] = x
  <2> DEFINE k == CHOOSE n \in DOMAIN AccumCtrl : AccumCtrl[n] = x
  <2>1. DOMAIN AccumCtrl = 1..4
    BY DEF AccumCtrl
  <2>2. \E n \in DOMAIN AccumCtrl : AccumCtrl[n] = x
    BY <2>1 DEF AccumCtrl, Ctrl
  <2>3. k \in 1..4 /\ AccumCtrl[k] = x
    BY <2>1, <2>2
  <2> HIDE DEF k
  <2>4. k - 1 \in 0..3 /\ (k - 1) + 1 = k
    BY <2>3
  <2> QED
    BY <2>3, <2>4 DEF Code, k
<1> QED
  BY <1>1, <1>2

(* An instruction other than SET_BASE whose fields fit is decoded to itself. *)
LEMMA EncodingInverse ==
  ASSUME NEW i \in [op : Op \ {"SET_BASE"}, src : Bank, dst : Bank, base : {0}, addr : Nat, len : Nat,
                    ctrl : Ctrl, imm : {0}],
         i.addr < 256, i.len < 256
  PROVE  Survives(i)
<1> DEFINE o == Code(Opcodes, i.op)
           c == Code(AccumCtrl, i.ctrl)
           u == o * 4096 + i.src * 1024 + i.dst * 256 + i.addr
           v == i.len * 256 + c * 64 + 0
           s == i.src
           d == i.dst
           a == i.addr
           l == i.len
<1>1. /\ o \in Nat /\ o < 16 /\ Opcodes[o + 1] = i.op
      /\ c \in Nat /\ c < 4 /\ AccumCtrl[c + 1] = i.ctrl
  BY Codes
<1>2. Encode(i) = <<u, v>>
  BY DEF Encode, Fields
<1>3. /\ s \in Nat /\ s < 4 /\ d \in Nat /\ d < 4 /\ a \in Nat /\ a < 256 /\ l \in Nat /\ l < 256
      /\ u = o * 4096 + s * 1024 + d * 256 + a /\ v = l * 256 + c * 64 + 0
  BY DEF Bank
<1> HIDE DEF o, c, u, v, s, d, a, l
<1>4. /\ u \div 4096 = o /\ (u \div 1024) % 4 = s /\ (u \div 256) % 4 = d
      /\ u % 256 = a /\ v \div 256 = l /\ (v \div 64) % 4 = c
  BY <1>1, <1>3
<1> DEFINE w == <<u, v>>
<1>5. w[1] = u /\ w[2] = v
  OBVIOUS
<1> DEFINE op1 == Opcodes[(w[1] \div 4096) + 1]
           src1 == (w[1] \div 1024) % 4
           dst1 == (w[1] \div 256) % 4
           addr1 == w[1] % 256
           len1 == w[2] \div 256
           ctrl1 == AccumCtrl[((w[2] \div 64) % 4) + 1]
<1>6. op1 = i.op /\ i.op # "SET_BASE" /\ src1 = s /\ dst1 = d /\ addr1 = a /\ len1 = l /\ ctrl1 = i.ctrl
  BY <1>1, <1>4, <1>5
<1>7. Decode(w) = IF op1 = "SET_BASE" THEN SET_BASE(dst1, SetBaseOffset(w))
                  ELSE [Blank EXCEPT !.op = op1, !.src = src1, !.dst = dst1, !.addr = addr1,
                                     !.len = len1, !.ctrl = ctrl1]
  BY Zenon DEF Decode
<1> HIDE DEF w, op1, src1, dst1, addr1, len1, ctrl1
<1>8. Decode(w) = [Blank EXCEPT !.op = op1, !.src = src1, !.dst = dst1, !.addr = addr1,
                                !.len = len1, !.ctrl = ctrl1]
  BY <1>6, <1>7
<1>9. Decode(w) = [op |-> op1, src |-> src1, dst |-> dst1, base |-> 0, addr |-> addr1, len |-> len1,
                   ctrl |-> ctrl1, imm |-> 0]
  BY <1>8 DEF Blank
<1>10. Decode(w) = i
  <2>1. i = [op |-> i.op, src |-> i.src, dst |-> i.dst, base |-> i.base, addr |-> i.addr,
             len |-> i.len, ctrl |-> i.ctrl, imm |-> i.imm]
    OBVIOUS
  <2>2. i.base = 0 /\ i.imm = 0
    OBVIOUS
  <2> QED
    BY <1>6, <1>9, <2>1, <2>2 DEF s, d, a, l
<1> QED
  BY <1>2, <1>10 DEF Survives, w

(* The fields of an instruction word hold every row number of the array:
   Instruction.__post_init__ refuses to build a word with a larger one. *)
RowsFit == ROWS <= 256

(* Lengths of whole tiles and bias vectors fit their fields, too. *)
LEMMA ShortInstructions ==
  ASSUME RowsFit
  PROVE  /\ P \in Nat \ {0} /\ P <= 256
         /\ BIAS_BEATS - 1 \in Nat /\ BIAS_BEATS - 1 < 256
         /\ P - 1 \in Nat /\ P - 1 < 256
<1>1. P \in Nat \ {0} /\ P <= 256
  BY RowsPositive DEF RowsFit, P
<1>2. BIAS_BEATS \in Nat \ {0} /\ BIAS_EPB \in Nat \ {0} /\ P = BIAS_BEATS * BIAS_EPB
  BY IsaAssumption, SimAssumption DEF P
<1>3. BIAS_BEATS <= P
  <2>1. 1 * BIAS_BEATS <= BIAS_EPB * BIAS_BEATS
    BY <1>2, Multiples
  <2>2. 1 * BIAS_BEATS = BIAS_BEATS /\ BIAS_EPB * BIAS_BEATS = BIAS_BEATS * BIAS_EPB
    BY <1>2, Multiples
  <2> QED
    BY <1>2, <2>1, <2>2
<1> QED
  BY <1>1, <1>2, <1>3

(* Every instruction that build_tiled_gemm_runs appends is decoded to itself. *)
LEMMA BuildersSurvive ==
  ASSUME RowsFit
  PROVE  /\ Survives(NOP) /\ Survives(SWAP_WGT) /\ Survives(END)
         /\ \A a, l \in Nat : a < 256 /\ l < 256 =>
              /\ Survives(LOAD_WGT(a, l)) /\ Survives(LOAD_ACT(0, a, l))
              /\ Survives(LOAD_BIAS(a, l)) /\ Survives(STORE(0, a, l)) /\ Survives(VECTOR(0, a))
              /\ \A c \in Ctrl : Survives(MATMUL(0, a, c))
<1> DEFINE R == [op : Op \ {"SET_BASE"}, src : Bank, dst : Bank, base : {0}, addr : Nat, len : Nat,
                 ctrl : Ctrl, imm : {0}]
<1>1. \A i \in R : i.addr < 256 /\ i.len < 256 => Survives(i)
  BY EncodingInverse
<1>2. \A x \in {NOP, SWAP_WGT, END} : x \in R /\ x.addr < 256 /\ x.len < 256
  BY DEF NOP, SWAP_WGT, END, Blank, Op, Ctrl, Bank
<1>3. ASSUME NEW a \in Nat, NEW l \in Nat, a < 256, l < 256
      PROVE  /\ Survives(LOAD_WGT(a, l)) /\ Survives(LOAD_ACT(0, a, l))
             /\ Survives(LOAD_BIAS(a, l)) /\ Survives(STORE(0, a, l)) /\ Survives(VECTOR(0, a))
             /\ \A c \in Ctrl : Survives(MATMUL(0, a, c))
  <2>1. /\ {"VECTOR", "LOAD_WGT", "LOAD_ACT", "LOAD_BIAS", "STORE", "MATMUL"} \subseteq Op \ {"SET_BASE"}
        /\ 0 \in Bank /\ "NONE" \in Ctrl /\ 0 \in {0} /\ 0 \in Nat /\ 0 < 256
    BY DEF Op, Bank, Ctrl
  <2>2. LOAD_WGT(a, l) \in R /\ LOAD_WGT(a, l).addr = a /\ LOAD_WGT(a, l).len = l
    BY <1>3, <2>1 DEF LOAD_WGT, Blank
  <2>3. LOAD_ACT(0, a, l) \in R /\ LOAD_ACT(0, a, l).addr = a /\ LOAD_ACT(0, a, l).len = l
    BY <1>3, <2>1 DEF LOAD_ACT, Blank
  <2>4. LOAD_BIAS(a, l) \in R /\ LOAD_BIAS(a, l).addr = a /\ LOAD_BIAS(a, l).len = l
    BY <1>3, <2>1 DEF LOAD_BIAS, Blank
  <2>5. STORE(0, a, l) \in R /\ STORE(0, a, l).addr = a /\ STORE(0, a, l).len = l
    BY <1>3, <2>1 DEF STORE, Blank
  <2>6. VECTOR(0, a) \in R /\ VECTOR(0, a).addr = a /\ VECTOR(0, a).len = 0
    BY <1>3, <2>1 DEF VECTOR, Blank
  <2>7. ASSUME NEW c \in Ctrl
        PROVE  MATMUL(0, a, c) \in R /\ MATMUL(0, a, c).addr = a /\ MATMUL(0, a, c).len = 0
    BY <1>3, <2>1 DEF MATMUL, Blank
  <2> HIDE DEF R
  <2> QED
    BY <1>1, <1>3, <2>1, <2>2, <2>3, <2>4, <2>5, <2>6, <2>7
<1> HIDE DEF R
<1>4. Survives(NOP) /\ Survives(SWAP_WGT) /\ Survives(END)
  BY <1>1, <1>2
<1> QED
  BY <1>3, <1>4

(* Every step that the generator appends survives the files. *)
LEMMA AppendedWritten ==
  ASSUME RowsFit, NEW p, IsSize(p), NEW j \in Nat
  PROVE  Appended(p, j, Written)
<1>1. /\ P - 1 \in Nat /\ P - 1 < 256 /\ P \in Nat
      /\ BIAS_BEATS - 1 \in Nat /\ BIAS_BEATS - 1 < 256 /\ P <= 256
  BY ShortInstructions
<1>2. /\ Transfer(LOAD_WGT(0, P - 1)) /\ Transfer(LOAD_BIAS(0, BIAS_BEATS - 1))
      /\ \A r : Transfer(LOAD_ACT(0, r, 0)) /\ Transfer(STORE(0, 0, r))
      /\ ~Transfer(NOP) /\ ~Transfer(SWAP_WGT) /\ ~Transfer(END)
      /\ \A r : ~Transfer(VECTOR(0, r)) /\ \A c : ~Transfer(MATMUL(0, r, c))
  BY DEF Transfer, LoadOp, LOAD_WGT, LOAD_BIAS, LOAD_ACT, STORE, NOP, SWAP_WGT, END, VECTOR, MATMUL, Blank
<1>3. \A i, t : /\ Do(i) \in ProgramStep /\ Survives(i) /\ ~Transfer(i) => Do(i) \in Written
                /\ With(i, t) \in ProgramStep /\ Survives(i) /\ Transfer(i) /\ t # NoTile
                     => With(i, t) \in Written
  BY DEF Written, Do, With
<1>4. \A a, b, c, d : <<a, b>> # NoTile /\ <<a, b, c>> # NoTile /\ <<a, b, c, d>> # NoTile
  BY DEF NoTile
<1>5. Do(NOP) \in Written /\ Do(SWAP_WGT) \in Written /\ Do(END) \in Written
  BY <1>2, <1>3, BuildersSurvive, StepsTyped
<1>6. With(LOAD_BIAS(0, BIAS_BEATS - 1), <<"bias", j>>) \in Written
  <2>1. Survives(LOAD_BIAS(0, BIAS_BEATS - 1))
    BY <1>1, BuildersSurvive
  <2>2. With(LOAD_BIAS(0, BIAS_BEATS - 1), <<"bias", j>>) \in ProgramStep
    BY <1>1, StepsTyped
  <2> QED
    BY <1>2, <1>3, <1>4, <2>1, <2>2
<1>7. ASSUME NEW kt \in Tiles(p.K) PROVE LoadWeights(kt, j) \in Written
  <2>1. Survives(LOAD_WGT(0, P - 1))
    BY <1>1, BuildersSurvive
  <2>2. LoadWeights(kt, j) \in ProgramStep
    BY StepsTyped DEF Tiles
  <2> QED
    BY <1>2, <1>3, <1>4, <2>1, <2>2 DEF LoadWeights
<1>8. ASSUME NEW i \in Tiles(p.M)
      PROVE  /\ With(STORE(0, 0, InTile(p.M, i) - 1), <<"store", i, j>>) \in Written
             /\ \A r \in 0..InTile(p.M, i) - 1 :
                  /\ Do(VECTOR(0, r)) \in Written
                  /\ \A kt \in Tiles(p.K) : LoadRow(i, r, kt) \in Written
                  /\ \A c \in Ctrl : Do(MATMUL(0, r, c)) \in Written
  <2>1. InTile(p.M, i) \in 1..P /\ i \in Nat
    BY TileParts DEF IsSize
  <2> DEFINE n == InTile(p.M, i) - 1
  <2>2. n \in Nat /\ n < 256
    BY <1>1, <2>1
  <2> HIDE DEF n
  <2>3. With(STORE(0, 0, n), <<"store", i, j>>) \in Written
    <3>1. Survives(STORE(0, 0, n))
      BY <2>2, BuildersSurvive
    <3>2. With(STORE(0, 0, n), <<"store", i, j>>) \in ProgramStep
      BY <2>1, <2>2, StepsTyped
    <3> QED
      BY <1>2, <1>3, <1>4, <3>1, <3>2
  <2>4. ASSUME NEW r \in 0..n
        PROVE  /\ Do(VECTOR(0, r)) \in Written
               /\ \A kt \in Tiles(p.K) : LoadRow(i, r, kt) \in Written
               /\ \A c \in Ctrl : Do(MATMUL(0, r, c)) \in Written
    <3>1. r \in Nat /\ r < 256 /\ r \in Int
      BY <2>2
    <3>2. Survives(VECTOR(0, r)) /\ Survives(LOAD_ACT(0, r, 0)) /\ \A c \in Ctrl : Survives(MATMUL(0, r, c))
      BY <3>1, BuildersSurvive
    <3>3. Do(VECTOR(0, r)) \in ProgramStep /\ \A c \in Ctrl : Do(MATMUL(0, r, c)) \in ProgramStep
      BY <3>1, StepsTyped
    <3>4. \A kt \in Tiles(p.K) : LoadRow(i, r, kt) \in ProgramStep
      BY <2>1, <3>1, StepsTyped DEF Tiles
    <3>5. \A kt \in Tiles(p.K) : LoadRow(i, r, kt) \in Written
      BY <1>2, <1>3, <1>4, <3>2, <3>4 DEF LoadRow
    <3> QED
      BY <1>2, <1>3, <3>2, <3>3, <3>5
  <2> QED
    BY <2>3, <2>4 DEF n
<1> QED
  BY <1>5, <1>6, <1>7, <1>8 DEF Appended
-----------------------------------------------------------------------------
(* What is in the directory, once the program's files have been written. *)
Manifest == [j \in DOMAIN runs |-> CsrWrites(runs[j], ComputeAddresses(size, biased))]
FilesInv ==
  /\ dir = [manifest |-> dir.manifest, hex |-> dir.hex]
  /\ phase \in {"write", "files", "run", "done"} /\ ~single => runs = BuildTiledGemmRuns(size)
  /\ phase \in {"files", "run", "done"} /\ ~single => dir.manifest = Manifest
  /\ phase \in {"run", "done"} /\ ~single =>
       \A j \in DOMAIN runs : dir.hex[j] = EncodeProgram(runs[j])

(* Every step preserves it, *)
LEMMA FilesInductive == ASSUME FilesInv, [Next]_vars, GemmInv PROVE FilesInv'
<1>1. CASE Generate
  BY <1>1 DEF FilesInv, Generate, job, Programs
<1>2. CASE WriteManifest
  BY <1>2 DEF FilesInv, WriteManifest, job, Manifest
<1>3. CASE WriteFiles
  <2>1. /\ phase = "files" /\ phase' = "run" /\ runs' = runs /\ size' = size /\ single' = single
        /\ biased' = biased
        /\ dir' = [dir EXCEPT !.hex = [j \in DOMAIN @ \cup DOMAIN runs |->
                     IF j \in DOMAIN runs THEN EncodeProgram(runs[j]) ELSE @[j]]]
    BY <1>3 DEF WriteFiles, job
  <2> DEFINE h == [j \in DOMAIN dir.hex \cup DOMAIN runs |->
                     IF j \in DOMAIN runs THEN EncodeProgram(runs[j]) ELSE dir.hex[j]]
  <2>2. dir' = [manifest |-> dir.manifest, hex |-> h]
    BY <2>1 DEF FilesInv
  <2>3. \A j \in DOMAIN runs : h[j] = EncodeProgram(runs[j])
    OBVIOUS
  <2> HIDE DEF h
  <2>4. dir'.manifest = dir.manifest /\ dir'.hex = h
    BY <2>2
  <2>5. Manifest' = Manifest
    BY <2>1 DEF Manifest
  <2> QED
    BY <2>1, <2>2, <2>3, <2>4, <2>5 DEF FilesInv
<1>4. CASE ExecuteInstruction
  BY <1>4 DEF FilesInv, ExecuteInstruction, job, Manifest
<1>5. CASE NextRun
  BY <1>5 DEF FilesInv, NextRun, job, Manifest
<1>6. CASE Return
  BY <1>6 DEF FilesInv, Return, job, Manifest
<1>7. CASE GenerateAnother
  BY <1>7 DEF FilesInv, GenerateAnother
<1>8. CASE UNCHANGED vars
  BY <1>8 DEF FilesInv, vars, Manifest
<1> QED
  BY <1>1, <1>2, <1>3, <1>4, <1>5, <1>6, <1>7, <1>8 DEF Next, Work

-----------------------------------------------------------------------------
(* Addresses *)

(* Every number below x is in one tile, at one place. *)
LEMMA Places ==
  ASSUME NEW x \in Nat \ {0}
  PROVE  /\ \A t \in Tiles(x) : \A r \in 0..InTile(x, t) - 1 : r \in 0..P - 1 /\ t * P + r \in 0..x - 1
         /\ \A t \in Tiles(x) : \A r \in 0..P - 1 : t * P + r < x => r \in 0..InTile(x, t) - 1
         /\ \A n \in 0..x - 1 : \E t \in Tiles(x) : \E r \in 0..InTile(x, t) - 1 : t * P + r = n
         /\ \A t, u \in Tiles(x) : \A r, s \in 0..P - 1 : t * P + r = u * P + s => t = u /\ r = s
<1> DEFINE q == P
           d == CeilDiv(x, P)
<1>1. q \in Nat \ {0} /\ d \in Nat \ {0} /\ Tiles(x) = 0..d - 1 /\ x <= d * q
  BY RowsPositive, TileBounds DEF Tiles
<1>2. ASSUME NEW t \in Tiles(x)
      PROVE  /\ t \in Nat /\ t * q \in Nat /\ InTile(x, t) \in 1..q /\ t * q + InTile(x, t) <= x
             /\ InTile(x, t) = IF x - t * q < q THEN x - t * q ELSE q
  BY TileParts DEF InTile
<1> HIDE DEF q, d
<1>3. ASSUME NEW t \in Tiles(x), NEW r \in 0..InTile(x, t) - 1
      PROVE  r \in 0..q - 1 /\ t * q + r \in 0..x - 1
  BY <1>1, <1>2
<1>4. ASSUME NEW t \in Tiles(x), NEW r \in 0..q - 1, t * q + r < x
      PROVE  r \in 0..InTile(x, t) - 1
  BY <1>1, <1>2, <1>4
<1>5. ASSUME NEW n \in 0..x - 1
      PROVE  \E t \in Tiles(x) : \E r \in 0..InTile(x, t) - 1 : t * q + r = n
  <2> DEFINE t == n \div q
             r == n - t * q
  <2>1. t \in Nat /\ q * t <= n /\ n < q * t + q
    BY <1>1, Division
  <2> HIDE DEF t
  <2>2. t * q = q * t /\ t * q \in Nat /\ (d <= t => d * q <= t * q)
    BY <1>1, <2>1, Multiples
  <2>3. r \in 0..q - 1 /\ t * q + r = n
    BY <1>1, <2>1, <2>2
  <2>4. d * q \in Nat
    BY <1>1, Multiples
  <2>5. t \in Tiles(x)
    BY <1>1, <2>1, <2>2, <2>4
  <2>6. r \in 0..InTile(x, t) - 1
    BY <1>4, <2>3, <2>5
  <2> QED
    BY <2>3, <2>5, <2>6
<1>6. ASSUME NEW t \in Tiles(x), NEW u \in Tiles(x), NEW r \in 0..q - 1, NEW s \in 0..q - 1,
             t * q + r = u * q + s
      PROVE  t = u /\ r = s
  <2>1. t \in Nat /\ u \in Nat /\ t * q \in Nat /\ u * q \in Nat
    BY <1>2
  <2>2. /\ (t + 1) * q = t * q + q /\ (u + 1) * q = u * q + q
        /\ (t + 1 <= u => (t + 1) * q <= u * q) /\ (u + 1 <= t => (u + 1) * q <= t * q)
    BY <1>1, <2>1, Multiples
  <2>3. t = u
    BY <1>1, <1>6, <2>1, <2>2
  <2> QED
    BY <1>6, <2>1, <2>3
<1> QED
  BY <1>3, <1>4, <1>5, <1>6 DEF q

(* The elements of E are at rows X and columns Y of a matrix of h rows and w
   columns, and at these row-major addresses. *)
Layout(E, X, Y, h, w) ==
  /\ h \in Nat \ {0} /\ w \in Nat \ {0}
  /\ X \in [E -> 0..h - 1] /\ Y \in [E -> 0..w - 1]
  /\ \A e, f \in E : X[e] = X[f] /\ Y[e] = Y[f] => e = f
  /\ \A x \in 0..h - 1, y \in 0..w - 1 : \E e \in E : X[e] = x /\ Y[e] = y
  /\ \A e \in E : e[4] = X[e] * w + Y[e]

(* Then they are all the addresses, and as many. *)
LEMMA RowMajor ==
  ASSUME NEW h, NEW w, NEW E, NEW X, NEW Y, Layout(E, X, Y, h, w)
  PROVE  {e[4] : e \in E} = 0..h * w - 1 /\ Cardinality(E) = h * w
<1> DEFINE n == h * w
           A == [e \in E |-> e[4]]
<1>0. /\ h \in Nat \ {0} /\ w \in Nat \ {0}
      /\ X \in [E -> 0..h - 1] /\ Y \in [E -> 0..w - 1]
      /\ \A e, f \in E : X[e] = X[f] /\ Y[e] = Y[f] => e = f
      /\ \A x \in 0..h - 1, y \in 0..w - 1 : \E e \in E : X[e] = x /\ Y[e] = y
      /\ \A e \in E : e[4] = X[e] * w + Y[e]
  BY DEF Layout
<1> USE <1>0
<1>1. n \in Nat \ {0}
  <2>1. h * w \in Nat /\ 1 * w <= h * w /\ 1 * w = w
    BY Multiples
  <2> QED
    BY <2>1
<1>1a. \A x, u \in Nat : /\ x * w \in Nat /\ (x + 1) * w = x * w + w
                          /\ x <= u => x * w <= u * w
  <2>1. w \in Nat
    OBVIOUS
  <2> QED
    BY <2>1, Multiples
<1>1b. ASSUME NEW x \in Nat, NEW u \in Nat, x < u
       PROVE  x * w + w <= u * w
  <2>1. x + 1 \in Nat /\ x + 1 <= u
    BY <1>1b
  <2>2. (x + 1) * w <= u * w /\ (x + 1) * w = x * w + w
    BY <1>1a, <2>1
  <2> QED
    BY <2>2
<1>2. ASSUME NEW e \in E PROVE e[4] \in 0..n - 1
  <2> DEFINE x == X[e]
             y == Y[e]
  <2>1. x \in 0..h - 1 /\ y \in 0..w - 1 /\ e[4] = x * w + y
    OBVIOUS
  <2> HIDE DEF x, y
  <2>2. x \in Nat /\ x + 1 \in Nat /\ h \in Nat /\ x + 1 <= h
    BY <2>1
  <2>3. x * w \in Nat /\ (x + 1) * w = x * w + w /\ (x + 1) * w <= n
    BY <1>1a, <2>2
  <2> HIDE DEF n
  <2> QED
    BY <1>1, <2>1, <2>3
<1>1c. ASSUME NEW x \in Nat, NEW u \in Nat, NEW y \in 0..w - 1, NEW v \in 0..w - 1, x * w + y = u * w + v
       PROVE  x = u /\ y = v
  <2> DEFINE m == x * w
             o == u * w
  <2>1. m \in Nat /\ o \in Nat /\ m + y = o + v
    BY <1>1a, <1>1c
  <2>2. x < u => m + w <= o
    BY <1>1b
  <2>3. u < x => o + w <= m
    BY <1>1b
  <2>4. x = u => m = o
    OBVIOUS
  <2> HIDE DEF m, o
  <2>5. ~(x < u) /\ ~(u < x)
    BY <2>1, <2>2, <2>3
  <2>6. x = u
    BY <2>5
  <2> QED
    BY <2>1, <2>4, <2>6
<1>3. ASSUME NEW e \in E, NEW f \in E, e[4] = f[4] PROVE e = f
  <2> DEFINE At(x, y) == x * w + y
  <2>1. \A x, u \in Nat : \A y, v \in 0..w - 1 : At(x, y) = At(u, v) => x = u /\ y = v
    BY <1>1c
  <2>2. At(X[e], Y[e]) = At(X[f], Y[f])
    BY <1>3
  <2>3. X[e] \in Nat /\ X[f] \in Nat /\ Y[e] \in 0..w - 1 /\ Y[f] \in 0..w - 1
    OBVIOUS
  <2> HIDE DEF At
  <2>4. X[e] = X[f] /\ Y[e] = Y[f]
    BY <2>1, <2>2, <2>3
  <2> QED
    BY <2>4
<1>4. ASSUME NEW a \in 0..n - 1 PROVE \E e \in E : e[4] = a
  <2> DEFINE x == a \div w
             y == a - x * w
             m == x * w
  <2>1. a \in Nat /\ a < n
    BY <1>1
  <2>1a. x \in Nat /\ w * x <= a /\ a < w * x + w
    BY <2>1, Division
  <2> HIDE DEF x
  <2>2. m = w * x /\ m \in Nat /\ (h <= x => n <= m)
    BY <1>1a, <2>1a, Multiples
  <2> HIDE DEF m, n
  <2>2a. m <= a /\ a < m + w /\ y = a - m
    BY <2>1a, <2>2 DEF m
  <2>2b. x \in 0..h - 1 /\ y \in 0..w - 1 /\ m + y = a
    BY <1>1, <2>1, <2>1a, <2>2, <2>2a
  <2>3. x \in 0..h - 1 /\ y \in 0..w - 1 /\ x * w + y = a
    BY <2>2b DEF m
  <2> HIDE DEF y
  <2>4. PICK e \in E : X[e] = x /\ Y[e] = y
    BY <2>3
  <2> QED
    BY <2>3, <2>4
<1> HIDE DEF n
<1> HIDE <1>0
<1>5. {e[4] : e \in E} = 0..n - 1
  BY <1>2, <1>4
<1>6. A \in Bijection(E, 0..n - 1)
  <2>1. A \in [E -> 0..n - 1]
    BY <1>2
  <2>2. \A e, f \in E : A[e] = A[f] => e = f
    BY <1>3
  <2>3. \A a \in 0..n - 1 : \E e \in E : A[e] = a
    BY <1>4
  <2> HIDE DEF A
  <2> QED
    BY <2>1, <2>2, <2>3 DEF Bijection, Injection, Surjection, IsInjective
<1> HIDE DEF A
<1>7. ExistsBijection(0..n - 1, E)
  <2>1. ExistsBijection(E, 0..n - 1)
    BY <1>6 DEF ExistsBijection
  <2> QED
    BY <2>1, Fun_ExistsBijSymmetric
<1>8. IsFiniteSet(0..n - 1) /\ Cardinality(0..n - 1) = n
  BY <1>1, FS_Interval
<1>9. Cardinality(E) = n
  BY <1>7, <1>8, FS_Bijection
<1> QED
  BY <1>5, <1>9 DEF n

(* Tile and place in two dimensions: a place below h, and one below w. *)
Spots(h, w) ==
  {q \in Tiles(h) \X (0..P - 1) \X Tiles(w) \X (0..P - 1) :
     q[2] \in 0..InTile(h, q[1]) - 1 /\ q[4] \in 0..InTile(w, q[3]) - 1}
RowOf(q) == q[1] * P + q[2]
ColumnOf(q) == q[3] * P + q[4]

(* One element of E per spot, at its row-major address. *)
Spread(E, G, h, w) ==
  /\ h \in Nat \ {0} /\ w \in Nat \ {0}
  /\ E = {G[q] : q \in Spots(h, w)}
  /\ \A q, z \in Spots(h, w) : G[q] = G[z] => q = z
  /\ \A q \in Spots(h, w) : G[q][4] = RowOf(q) * w + ColumnOf(q)

(* Such elements cover the matrix. *)
LEMMA SpotsCover ==
  ASSUME NEW h, NEW w, NEW G, NEW E, Spread(E, G, h, w)
  PROVE  {e[4] : e \in E} = 0..h * w - 1 /\ Cardinality(E) = h * w
<1> DEFINE Q == Spots(h, w)
           Inv(e) == CHOOSE q \in Q : G[q] = e
           X == [e \in E |-> RowOf(Inv(e))]
           Y == [e \in E |-> ColumnOf(Inv(e))]
<1>0. /\ h \in Nat \ {0} /\ w \in Nat \ {0}
      /\ E = {G[q] : q \in Q}
      /\ \A q, z \in Q : G[q] = G[z] => q = z
      /\ \A q \in Q : G[q][4] = RowOf(q) * w + ColumnOf(q)
  BY DEF Spread
<1>0a. h \in Nat \ {0} /\ w \in Nat \ {0}
  BY <1>0
<1> USE <1>0a
<1>1. ASSUME NEW q \in Q
      PROVE  /\ q = <<q[1], q[2], q[3], q[4]>>
             /\ q[1] \in Tiles(h) /\ q[2] \in 0..P - 1 /\ q[3] \in Tiles(w) /\ q[4] \in 0..P - 1
             /\ q[2] \in 0..InTile(h, q[1]) - 1 /\ q[4] \in 0..InTile(w, q[3]) - 1
  BY DEF Spots
<1>2. ASSUME NEW q \in Q PROVE RowOf(q) \in 0..h - 1 /\ ColumnOf(q) \in 0..w - 1
  <2> DEFINE a == q[1]
             r == q[2]
             b == q[3]
             c == q[4]
  <2>1. a \in Tiles(h) /\ b \in Tiles(w) /\ r \in 0..InTile(h, a) - 1 /\ c \in 0..InTile(w, b) - 1
    BY <1>1
  <2> HIDE DEF a, r, b, c, Q
  <2>2. a * P + r \in 0..h - 1 /\ b * P + c \in 0..w - 1
    BY <2>1, Places
  <2> QED
    BY <2>2 DEF RowOf, ColumnOf, a, r, b, c
<1>3. ASSUME NEW q \in Q, NEW z \in Q, RowOf(q) = RowOf(z), ColumnOf(q) = ColumnOf(z) PROVE q = z
  <2> DEFINE At(t, r) == t * P + r
  <2>1. At(q[1], q[2]) = At(z[1], z[2]) /\ At(q[3], q[4]) = At(z[3], z[4])
    BY <1>3 DEF RowOf, ColumnOf
  <2>2. /\ q[1] \in Tiles(h) /\ z[1] \in Tiles(h) /\ q[2] \in 0..P - 1 /\ z[2] \in 0..P - 1
        /\ q[3] \in Tiles(w) /\ z[3] \in Tiles(w) /\ q[4] \in 0..P - 1 /\ z[4] \in 0..P - 1
    BY <1>1
  <2>2a. \A t, u \in Tiles(h) : \A r, s \in 0..P - 1 : At(t, r) = At(u, s) => t = u /\ r = s
    BY Places
  <2>2b. \A t, u \in Tiles(w) : \A r, s \in 0..P - 1 : At(t, r) = At(u, s) => t = u /\ r = s
    BY Places
  <2> HIDE DEF Q, At
  <2>3. q[1] = z[1] /\ q[2] = z[2] /\ q[3] = z[3] /\ q[4] = z[4]
    BY <2>1, <2>2, <2>2a, <2>2b
  <2> QED
    BY <1>1, <2>3
<1>4. ASSUME NEW x \in 0..h - 1, NEW y \in 0..w - 1
      PROVE  \E q \in Q : RowOf(q) = x /\ ColumnOf(q) = y
  <2>1a. PICK a \in Tiles(h) : \E r \in 0..InTile(h, a) - 1 : a * P + r = x
    BY Places
  <2>1. PICK r \in 0..InTile(h, a) - 1 : a * P + r = x
    BY <2>1a
  <2>2a. PICK b \in Tiles(w) : \E c \in 0..InTile(w, b) - 1 : b * P + c = y
    BY Places
  <2>2. PICK c \in 0..InTile(w, b) - 1 : b * P + c = y
    BY <2>2a
  <2> DEFINE q == <<a, r, b, c>>
  <2>3. r \in 0..P - 1 /\ c \in 0..P - 1
    BY Places
  <2>4. q \in Q
    BY <2>3 DEF Spots
  <2>5. RowOf(q) = x /\ ColumnOf(q) = y
    BY <2>1, <2>2 DEF RowOf, ColumnOf
  <2> QED
    BY <2>4, <2>5
<1> HIDE DEF Q
<1> HIDE <1>0a
<1>5. ASSUME NEW q \in Q PROVE G[q] \in E /\ Inv(G[q]) = q
  <2>1. Inv(G[q]) \in Q /\ G[Inv(G[q])] = G[q]
    OBVIOUS
  <2> QED
    BY <1>0, <2>1
<1>6. ASSUME NEW e \in E PROVE Inv(e) \in Q /\ G[Inv(e)] = e
  BY <1>0
<1> HIDE DEF Inv
<1>7. X \in [E -> 0..h - 1] /\ Y \in [E -> 0..w - 1]
  BY <1>2, <1>6
<1>8. \A e \in E : X[e] = RowOf(Inv(e)) /\ Y[e] = ColumnOf(Inv(e))
  OBVIOUS
<1> HIDE DEF X, Y
<1>9. \A e, f \in E : X[e] = X[f] /\ Y[e] = Y[f] => e = f
  BY <1>3, <1>6, <1>8
<1>10. \A x \in 0..h - 1, y \in 0..w - 1 : \E e \in E : X[e] = x /\ Y[e] = y
  BY <1>4, <1>5, <1>8
<1>11. \A e \in E : e[4] = X[e] * w + Y[e]
  <2> SUFFICES ASSUME NEW e \in E PROVE e[4] = X[e] * w + Y[e]
    OBVIOUS
  <2>1. Inv(e) \in Q /\ G[Inv(e)] = e
    BY <1>6
  <2> QED
    BY <1>0, <1>8, <2>1
<1>12. Layout(E, X, Y, h, w)
  BY <1>0a, <1>7, <1>9, <1>10, <1>11 DEF Layout
<1> QED
  BY <1>12, RowMajor

(* Of the tiles in the plan, the elements of one kind. *)
LEMMA Meets ==
  ASSUME NEW p, NEW kind, NEW plan, NEW D, D = {t \in DOMAIN plan : t[1] = kind}
  PROVE  \A e : e \in Elements(p, kind, plan) <=> \E t \in D : e \in Walked(p, t, plan)
BY DEF Elements

(* The tiles of the plan, kind by kind. *)
LEMMA Planned ==
  ASSUME NEW p, NEW biasGiven
  PROVE  /\ \A t : t \in DOMAIN ComputeAddresses(p, biasGiven) /\ t[1] = "weight" <=>
                     \E a \in Tiles(p.K), b \in Tiles(p.N) : t = <<"weight", a, b>>
         /\ \A t : t \in DOMAIN ComputeAddresses(p, biasGiven) /\ t[1] = "act" <=>
                     \E a \in Tiles(p.M), r \in 0..P - 1, b \in Tiles(p.K) : t = <<"act", a, r, b>>
         /\ \A t : t \in DOMAIN ComputeAddresses(p, biasGiven) /\ t[1] = "bias" <=>
                     biasGiven /\ \E b \in Tiles(p.N) : t = <<"bias", b>>
         /\ \A t : t \in DOMAIN ComputeAddresses(p, biasGiven) /\ t[1] = "store" <=>
                     \E a \in Tiles(p.M), b \in Tiles(p.N) : t = <<"store", a, b>>
<1>1. \A t : t \in DOMAIN ComputeAddresses(p, biasGiven) /\ t[1] = "weight" <=>
                     \E a \in Tiles(p.K), b \in Tiles(p.N) : t = <<"weight", a, b>>
  BY DEF ComputeAddresses
<1>2. \A t : t \in DOMAIN ComputeAddresses(p, biasGiven) /\ t[1] = "act" <=>
                     \E a \in Tiles(p.M), r \in 0..P - 1, b \in Tiles(p.K) : t = <<"act", a, r, b>>
  BY DEF ComputeAddresses
<1>3. \A t : t \in DOMAIN ComputeAddresses(p, biasGiven) /\ t[1] = "bias" <=>
                     biasGiven /\ \E b \in Tiles(p.N) : t = <<"bias", b>>
  BY DEF ComputeAddresses
<1>4. \A t : t \in DOMAIN ComputeAddresses(p, biasGiven) /\ t[1] = "store" <=>
                     \E a \in Tiles(p.M), b \in Tiles(p.N) : t = <<"store", a, b>>
  BY DEF ComputeAddresses
<1> QED
  BY <1>1, <1>2, <1>3, <1>4

(* What a tile of the plan is walked to. *)
LEMMA WalkedPlan ==
  ASSUME NEW p, IsSize(p), NEW biasGiven, NEW plan, plan = ComputeAddresses(p, biasGiven)
  PROVE  /\ \A a \in Tiles(p.K), b \in Tiles(p.N) : Walked(p, <<"weight", a, b>>, plan) =
              {<<<<"weight", a, b>>, r, c, (a * P) * p.N + b * P + r * p.N + c>> :
                 r \in 0..InTile(p.K, a) - 1, c \in 0..InTile(p.N, b) - 1}
         /\ \A a \in Tiles(p.M), s \in 0..P - 1, b \in Tiles(p.K) : Walked(p, <<"act", a, s, b>>, plan) =
              {<<<<"act", a, s, b>>, r, c, (a * P + s) * p.K + b * P + r * p.K + c>> :
                 r \in 0..(IF a * P + s < p.M THEN 1 ELSE 0) - 1, c \in 0..InTile(p.K, b) - 1}
         /\ \A a \in Tiles(p.M), b \in Tiles(p.N) : Walked(p, <<"store", a, b>>, plan) =
              {<<<<"store", a, b>>, r, c, (a * P) * p.N + b * P + r * p.N + c>> :
                 r \in 0..InTile(p.M, a) - 1, c \in 0..InTile(p.N, b) - 1}
<1>1. ASSUME NEW a \in Tiles(p.K), NEW b \in Tiles(p.N)
      PROVE  Walked(p, <<"weight", a, b>>, plan) =
              {<<<<"weight", a, b>>, r, c, (a * P) * p.N + b * P + r * p.N + c>> :
                 r \in 0..InTile(p.K, a) - 1, c \in 0..InTile(p.N, b) - 1}
  <2> DEFINE t == <<"weight", a, b>>
  <2>1. t \in DOMAIN plan /\ t[1] = "weight" /\ t[2] = a /\ t[3] = b
    BY Planned
  <2>2. plan[t] = [addr |-> (a * P) * p.N + b * P, stride |-> p.N]
    BY <2>1 DEF ComputeAddresses, WeightAddress
  <2>3. plan[t].addr = (a * P) * p.N + b * P /\ plan[t].stride = p.N
    BY <2>2
  <2>4. WalkedRows(p, t) = InTile(p.K, a) /\ WalkedColumns(p, t) = InTile(p.N, b)
    BY <2>1 DEF WalkedRows, WalkedColumns
  <2> HIDE DEF t
  <2> QED
    BY <2>3, <2>4 DEF Walked, t
<1>2. ASSUME NEW a \in Tiles(p.M), NEW s \in 0..P - 1, NEW b \in Tiles(p.K)
      PROVE  Walked(p, <<"act", a, s, b>>, plan) =
              {<<<<"act", a, s, b>>, r, c, (a * P + s) * p.K + b * P + r * p.K + c>> :
                 r \in 0..(IF a * P + s < p.M THEN 1 ELSE 0) - 1, c \in 0..InTile(p.K, b) - 1}
  <2> DEFINE t == <<"act", a, s, b>>
  <2>1. t \in DOMAIN plan /\ t[1] = "act" /\ t[2] = a /\ t[3] = s /\ t[4] = b
    BY Planned
  <2>2. plan[t] = [addr |-> (a * P + s) * p.K + b * P, stride |-> p.K]
    BY <2>1 DEF ComputeAddresses, ActAddress
  <2>3. plan[t].addr = (a * P + s) * p.K + b * P /\ plan[t].stride = p.K
    BY <2>2
  <2>4. /\ WalkedRows(p, t) = IF a * P + s < p.M THEN 1 ELSE 0
        /\ WalkedColumns(p, t) = InTile(p.K, b)
    BY <2>1 DEF WalkedRows, WalkedColumns
  <2> HIDE DEF t
  <2> QED
    BY <2>3, <2>4 DEF Walked, t
<1>3. ASSUME NEW a \in Tiles(p.M), NEW b \in Tiles(p.N)
      PROVE  Walked(p, <<"store", a, b>>, plan) =
              {<<<<"store", a, b>>, r, c, (a * P) * p.N + b * P + r * p.N + c>> :
                 r \in 0..InTile(p.M, a) - 1, c \in 0..InTile(p.N, b) - 1}
  <2> DEFINE t == <<"store", a, b>>
  <2>1. t \in DOMAIN plan /\ t[1] = "store" /\ t[2] = a /\ t[3] = b
    BY Planned
  <2>2. plan[t] = [addr |-> (a * P) * p.N + b * P, stride |-> p.N]
    BY <2>1 DEF ComputeAddresses, StoreAddress
  <2>3. plan[t].addr = (a * P) * p.N + b * P /\ plan[t].stride = p.N
    BY <2>2
  <2>4. WalkedRows(p, t) = InTile(p.M, a) /\ WalkedColumns(p, t) = InTile(p.N, b)
    BY <2>1 DEF WalkedRows, WalkedColumns
  <2> HIDE DEF t
  <2> QED
    BY <2>3, <2>4 DEF Walked, t
<1> QED
  BY <1>1, <1>2, <1>3

(* The same of a bias, where the plan has it. *)
LEMMA WalkedBias ==
  ASSUME NEW p, NEW plan, NEW b, plan[<<"bias", b>>] = [addr |-> b * P, stride |-> 1]
  PROVE  Walked(p, <<"bias", b>>, plan) =
           {<<<<"bias", b>>, r, c, b * P + r * 1 + c>> :
              r \in 0..1 - 1, c \in 0..InTile(p.N, b) - 1}
<1> DEFINE t == <<"bias", b>>
<1>1. t[1] = "bias" /\ t[2] = b
  OBVIOUS
<1>2. plan[t].addr = b * P /\ plan[t].stride = 1
  OBVIOUS
<1>3. WalkedRows(p, t) = 1 /\ WalkedColumns(p, t) = InTile(p.N, b)
  BY <1>1 DEF WalkedRows, WalkedColumns
<1> HIDE DEF t
<1> QED
  BY <1>2, <1>3 DEF Walked, t

(* What a spot is. *)
LEMMA SpotParts ==
  ASSUME NEW h, NEW w
  PROVE  /\ \A q \in Spots(h, w) :
              /\ q = <<q[1], q[2], q[3], q[4]>>
              /\ q[1] \in Tiles(h) /\ q[2] \in 0..InTile(h, q[1]) - 1 /\ q[2] \in 0..P - 1
              /\ q[3] \in Tiles(w) /\ q[4] \in 0..InTile(w, q[3]) - 1
         /\ \A a \in Tiles(h), b \in Tiles(w) : \A r, c \in 0..P - 1 :
              r \in 0..InTile(h, a) - 1 /\ c \in 0..InTile(w, b) - 1 => <<a, r, b, c>> \in Spots(h, w)
BY DEF Spots

(* The address of an element of a tile, and the row-major one. *)
LEMMA Distributes ==
  ASSUME NEW a \in Nat, NEW r \in Nat, NEW b \in Nat, NEW c \in Nat, NEW q \in Nat, NEW w \in Nat
  PROVE  (a * q) * w + b * q + r * w + c = (a * q + r) * w + (b * q + c)
OBVIOUS

(* Weights and results: rows and columns in tiles. *)
LEMMA BlocksCovered ==
  ASSUME NEW p, IsSize(p), NEW biasGiven, NEW plan, plan = ComputeAddresses(p, biasGiven), NEW kind, NEW h,
         \/ kind = "weight" /\ h = p.K
         \/ kind = "store" /\ h = p.M
  PROVE  Covers(p, kind, h * p.N, plan)
<1> DEFINE E == Elements(p, kind, plan)
           S == Spots(h, p.N)
           G == [q \in S |-> <<<<kind, q[1], q[3]>>, q[2], q[4],
                               (q[1] * P) * p.N + q[3] * P + q[2] * p.N + q[4]>>]
           D == {t \in DOMAIN plan : t[1] = kind}
<1>1. h \in Nat \ {0} /\ p.N \in Nat \ {0} /\ P \in Nat \ {0}
  BY RowsPositive DEF IsSize
<1>2. \A e : e \in E <=> \E a \in Tiles(h), b \in Tiles(p.N) : e \in Walked(p, <<kind, a, b>>, plan)
  <2>1. \A e : e \in E <=> \E t \in D : e \in Walked(p, t, plan)
    BY Meets
  <2>2. \A t : t \in D <=> \E a \in Tiles(h), b \in Tiles(p.N) : t = <<kind, a, b>>
    BY Planned
  <2> HIDE DEF D, E
  <2>3. ASSUME NEW e \in E
        PROVE  \E a \in Tiles(h), b \in Tiles(p.N) : e \in Walked(p, <<kind, a, b>>, plan)
    <3>1. PICK t \in D : e \in Walked(p, t, plan)
      BY <2>1
    <3>2. PICK a \in Tiles(h), b \in Tiles(p.N) : t = <<kind, a, b>>
      BY <2>2
    <3> QED
      BY <3>1, <3>2
  <2>4. ASSUME NEW a \in Tiles(h), NEW b \in Tiles(p.N), NEW e \in Walked(p, <<kind, a, b>>, plan)
        PROVE  e \in E
    <3>1. <<kind, a, b>> \in D
      BY <2>2
    <3> QED
      BY <2>1, <3>1
  <2> QED
    BY <2>3, <2>4
<1>3. ASSUME NEW a \in Tiles(h), NEW b \in Tiles(p.N)
      PROVE  \A e : e \in Walked(p, <<kind, a, b>>, plan) <=>
               \E r \in 0..InTile(h, a) - 1, c \in 0..InTile(p.N, b) - 1 :
                  e = <<<<kind, a, b>>, r, c, (a * P) * p.N + b * P + r * p.N + c>>
  <2> DEFINE W == {<<<<kind, a, b>>, r, c, (a * P) * p.N + b * P + r * p.N + c>> :
                     r \in 0..InTile(h, a) - 1, c \in 0..InTile(p.N, b) - 1}
  <2>1. Walked(p, <<kind, a, b>>, plan) = W
    BY WalkedPlan
  <2>2. \A e : e \in W <=> \E r \in 0..InTile(h, a) - 1, c \in 0..InTile(p.N, b) - 1 :
                  e = <<<<kind, a, b>>, r, c, (a * P) * p.N + b * P + r * p.N + c>>
    OBVIOUS
  <2> HIDE DEF W
  <2> QED
    BY <2>1, <2>2
<1>4. ASSUME NEW e \in E PROVE \E q \in S : e = G[q]
  <2>1. PICK a \in Tiles(h), b \in Tiles(p.N) : e \in Walked(p, <<kind, a, b>>, plan)
    BY <1>2
  <2>2. PICK r \in 0..InTile(h, a) - 1, c \in 0..InTile(p.N, b) - 1 :
           e = <<<<kind, a, b>>, r, c, (a * P) * p.N + b * P + r * p.N + c>>
    BY <1>3, <2>1
  <2>3. r \in 0..P - 1 /\ c \in 0..P - 1
    BY <1>1, Places
  <2> DEFINE q == <<a, r, b, c>>
  <2>4. q \in S
    BY <2>3, SpotParts
  <2>5. G[q] = e
    BY <2>2, <2>4
  <2> QED
    BY <2>4, <2>5
<1>5. ASSUME NEW q \in S PROVE G[q] \in E
  BY <1>2, <1>3, SpotParts
<1>6. E = {G[q] : q \in S}
  BY <1>4, <1>5
<1>7. ASSUME NEW q \in S, NEW z \in S, G[q] = G[z] PROVE q = z
  <2>1. q[1] = z[1] /\ q[3] = z[3] /\ q[2] = z[2] /\ q[4] = z[4]
    BY <1>7
  <2> QED
    BY <2>1, SpotParts
<1>8. ASSUME NEW q \in S PROVE G[q][4] = RowOf(q) * p.N + ColumnOf(q)
  <2>1. G[q][4] = (q[1] * P) * p.N + q[3] * P + q[2] * p.N + q[4]
    OBVIOUS
  <2>2. q[1] \in Nat /\ q[2] \in Nat /\ q[3] \in Nat /\ q[4] \in Nat
    BY <1>1, SpotParts DEF Tiles
  <2> QED
    BY <1>1, <2>1, <2>2, Distributes DEF RowOf, ColumnOf
<1> HIDE DEF G, E, S
<1>9. Spread(E, G, h, p.N)
  BY <1>1, <1>6, <1>7, <1>8 DEF Spread, S
<1>10. {e[4] : e \in E} = 0..h * p.N - 1 /\ Cardinality(E) = h * p.N
  BY <1>9, SpotsCover
<1> QED
  BY <1>10 DEF Covers, E

(* Activations: a tile is one row, of the missing rows none. *)
LEMMA RowsCovered ==
  ASSUME NEW p, IsSize(p), NEW biasGiven, NEW plan, plan = ComputeAddresses(p, biasGiven)
  PROVE  Covers(p, "act", p.M * p.K, plan)
<1> DEFINE E == Elements(p, "act", plan)
           S == Spots(p.M, p.K)
           G == [q \in S |-> <<<<"act", q[1], q[2], q[3]>>, 0, q[4],
                               (q[1] * P + q[2]) * p.K + q[3] * P + 0 * p.K + q[4]>>]
           D == {t \in DOMAIN plan : t[1] = "act"}
<1>1. p.M \in Nat \ {0} /\ p.K \in Nat \ {0} /\ P \in Nat \ {0}
  BY RowsPositive DEF IsSize
<1>2. \A e : e \in E <=> \E a \in Tiles(p.M), s \in 0..P - 1, b \in Tiles(p.K) :
                            e \in Walked(p, <<"act", a, s, b>>, plan)
  <2>1. \A e : e \in E <=> \E t \in D : e \in Walked(p, t, plan)
    BY Meets
  <2>2. \A t : t \in D <=> \E a \in Tiles(p.M), s \in 0..P - 1, b \in Tiles(p.K) : t = <<"act", a, s, b>>
    <3>1. \A t : t \in D <=> t \in DOMAIN ComputeAddresses(p, biasGiven) /\ t[1] = "act"
      OBVIOUS
    <3>2. \A t : t \in DOMAIN ComputeAddresses(p, biasGiven) /\ t[1] = "act" <=>
                  \E a \in Tiles(p.M), s \in 0..P - 1, b \in Tiles(p.K) : t = <<"act", a, s, b>>
      BY DEF ComputeAddresses
    <3> HIDE DEF D
    <3> QED
      BY <3>1, <3>2, Zenon
  <2> HIDE DEF D, E
  <2>3. ASSUME NEW e \in E
        PROVE  \E a \in Tiles(p.M), s \in 0..P - 1, b \in Tiles(p.K) :
                  e \in Walked(p, <<"act", a, s, b>>, plan)
    <3>1. PICK t \in D : e \in Walked(p, t, plan)
      BY <2>1
    <3>2. PICK a \in Tiles(p.M), s \in 0..P - 1, b \in Tiles(p.K) : t = <<"act", a, s, b>>
      BY <2>2
    <3> QED
      BY <3>1, <3>2
  <2>4. ASSUME NEW a \in Tiles(p.M), NEW s \in 0..P - 1, NEW b \in Tiles(p.K),
               NEW e \in Walked(p, <<"act", a, s, b>>, plan)
        PROVE  e \in E
    <3>1. <<"act", a, s, b>> \in D
      BY <2>2
    <3> QED
      BY <2>1, <3>1
  <2> QED
    BY <2>3, <2>4
<1>3. ASSUME NEW a \in Tiles(p.M), NEW s \in 0..P - 1, NEW b \in Tiles(p.K)
      PROVE  \A e : e \in Walked(p, <<"act", a, s, b>>, plan) <=>
               /\ s \in 0..InTile(p.M, a) - 1
               /\ \E c \in 0..InTile(p.K, b) - 1 :
                     e = <<<<"act", a, s, b>>, 0, c, (a * P + s) * p.K + b * P + 0 * p.K + c>>
  <2> DEFINE n == IF a * P + s < p.M THEN 1 ELSE 0
             W == {<<<<"act", a, s, b>>, r, c, (a * P + s) * p.K + b * P + r * p.K + c>> :
                     r \in 0..n - 1, c \in 0..InTile(p.K, b) - 1}
  <2>1. Walked(p, <<"act", a, s, b>>, plan) = W
    BY WalkedPlan
  <2>2. \A e : e \in W <=> \E r \in 0..n - 1, c \in 0..InTile(p.K, b) - 1 :
                  e = <<<<"act", a, s, b>>, r, c, (a * P + s) * p.K + b * P + r * p.K + c>>
    OBVIOUS
  <2>3. s \in 0..InTile(p.M, a) - 1 <=> a * P + s < p.M
    <3>1. s \in 0..InTile(p.M, a) - 1 => a * P + s \in 0..p.M - 1
      BY <1>1, Places
    <3>2. a * P + s < p.M => s \in 0..InTile(p.M, a) - 1
      BY <1>1, Places
    <3> QED
      BY <1>1, <3>1, <3>2
  <2>4. \A r : r \in 0..n - 1 <=> s \in 0..InTile(p.M, a) - 1 /\ r = 0
    BY <2>3
  <2> HIDE DEF W, n
  <2> QED
    BY <2>1, <2>2, <2>4
<1>4. ASSUME NEW e \in E PROVE \E q \in S : e = G[q]
  <2>1. PICK a \in Tiles(p.M), s \in 0..P - 1, b \in Tiles(p.K) : e \in Walked(p, <<"act", a, s, b>>, plan)
    BY <1>2
  <2>2. s \in 0..InTile(p.M, a) - 1
    BY <1>3, <2>1
  <2>3. PICK c \in 0..InTile(p.K, b) - 1 :
           e = <<<<"act", a, s, b>>, 0, c, (a * P + s) * p.K + b * P + 0 * p.K + c>>
    BY <1>3, <2>1
  <2>4. c \in 0..P - 1
    BY <1>1, Places
  <2> DEFINE q == <<a, s, b, c>>
  <2>5. q \in S
    BY <2>2, <2>4, SpotParts
  <2>6. G[q] = e
    BY <2>3, <2>5
  <2> QED
    BY <2>5, <2>6
<1>5. ASSUME NEW q \in S PROVE G[q] \in E
  BY <1>2, <1>3, SpotParts
<1>6. E = {G[q] : q \in S}
  BY <1>4, <1>5
<1>7. ASSUME NEW q \in S, NEW z \in S, G[q] = G[z] PROVE q = z
  <2>1. q[1] = z[1] /\ q[3] = z[3] /\ q[2] = z[2] /\ q[4] = z[4]
    BY <1>7
  <2> QED
    BY <2>1, SpotParts
<1>8. ASSUME NEW q \in S PROVE G[q][4] = RowOf(q) * p.K + ColumnOf(q)
  <2> DEFINE m == (q[1] * P + q[2]) * p.K
             o == q[3] * P
  <2>1. G[q][4] = m + o + 0 * p.K + q[4]
    OBVIOUS
  <2>2. q[1] \in Nat /\ q[2] \in Nat /\ q[3] \in Nat /\ q[4] \in Nat
    BY <1>1, SpotParts DEF Tiles
  <2>3. m \in Nat /\ o \in Nat /\ 0 * p.K = 0
    BY <1>1, <2>2
  <2>4. RowOf(q) * p.K = m /\ ColumnOf(q) = o + q[4]
    BY DEF RowOf, ColumnOf
  <2> HIDE DEF m, o
  <2> QED
    BY <2>1, <2>2, <2>3, <2>4
<1> HIDE DEF G, E, S
<1>9. Spread(E, G, p.M, p.K)
  BY <1>1, <1>6, <1>7, <1>8 DEF Spread, S
<1>10. {e[4] : e \in E} = 0..p.M * p.K - 1 /\ Cardinality(E) = p.M * p.K
  BY <1>9, SpotsCover
<1> QED
  BY <1>10 DEF Covers, E

(* Biases that have a base: a single row. *)
LEMMA BiasCovered ==
  ASSUME NEW p, IsSize(p), NEW plan,
         \A t : t \in DOMAIN plan /\ t[1] = "bias" <=> \E b \in Tiles(p.N) : t = <<"bias", b>>,
         \A b \in Tiles(p.N) : plan[<<"bias", b>>] = [addr |-> b * P, stride |-> 1]
  PROVE  Covers(p, "bias", p.N, plan)
<1> DEFINE E == Elements(p, "bias", plan)
           S == Spots(1, p.N)
           G == [q \in S |-> <<<<"bias", q[3]>>, 0, q[4], q[3] * P + 0 * 1 + q[4]>>]
           D == {t \in DOMAIN plan : t[1] = "bias"}
<1>1. p.N \in Nat \ {0} /\ P \in Nat \ {0}
  BY RowsPositive DEF IsSize
<1>1a. Tiles(1) = {0} /\ InTile(1, 0) = 1
  <2>1. CeilDiv(1, P) = 1
    BY <1>1, OneTile
  <2> QED
    BY <1>1, <2>1 DEF Tiles, InTile
<1>2. \A e : e \in E <=> \E b \in Tiles(p.N) : e \in Walked(p, <<"bias", b>>, plan)
  <2>1. \A e : e \in E <=> \E t \in D : e \in Walked(p, t, plan)
    BY Meets
  <2>2. \A t : t \in D <=> \E b \in Tiles(p.N) : t = <<"bias", b>>
    OBVIOUS
  <2> HIDE DEF D, E
  <2> QED
    BY <2>1, <2>2
<1>3. ASSUME NEW b \in Tiles(p.N)
      PROVE  \A e : e \in Walked(p, <<"bias", b>>, plan) <=>
               \E c \in 0..InTile(p.N, b) - 1 : e = <<<<"bias", b>>, 0, c, b * P + 0 * 1 + c>>
  <2> DEFINE W == {<<<<"bias", b>>, r, c, b * P + r * 1 + c>> : r \in 0..1 - 1, c \in 0..InTile(p.N, b) - 1}
  <2>1. Walked(p, <<"bias", b>>, plan) = W
    <3>1. plan[<<"bias", b>>] = [addr |-> b * P, stride |-> 1]
      OBVIOUS
    <3> QED
      BY <3>1, WalkedBias
  <2>2. \A e : e \in W <=> \E r \in 0..1 - 1, c \in 0..InTile(p.N, b) - 1 :
                  e = <<<<"bias", b>>, r, c, b * P + r * 1 + c>>
    OBVIOUS
  <2>3. \A r : r \in 0..1 - 1 <=> r = 0
    OBVIOUS
  <2> HIDE DEF W
  <2> QED
    BY <2>1, <2>2, <2>3
<1>4. ASSUME NEW e \in E PROVE \E q \in S : e = G[q]
  <2>1. PICK b \in Tiles(p.N) : e \in Walked(p, <<"bias", b>>, plan)
    BY <1>2
  <2>2. PICK c \in 0..InTile(p.N, b) - 1 : e = <<<<"bias", b>>, 0, c, b * P + 0 * 1 + c>>
    BY <1>3, <2>1
  <2>2a. c \in 0..P - 1
    BY <1>1, Places
  <2>3. c \in 0..P - 1 /\ 0 \in 0..P - 1 /\ 0 \in Tiles(1) /\ 0 \in 0..InTile(1, 0) - 1
    BY <1>1, <1>1a, <2>2a
  <2> DEFINE q == <<0, 0, b, c>>
  <2>4. q \in S
    BY <2>3, SpotParts
  <2>5. G[q] = e
    BY <2>2, <2>4
  <2> QED
    BY <2>4, <2>5
<1>5. ASSUME NEW q \in S PROVE G[q] \in E
  BY <1>2, <1>3, SpotParts
<1>6. E = {G[q] : q \in S}
  BY <1>4, <1>5
<1>6a. ASSUME NEW q \in S PROVE q[1] = 0 /\ q[2] = 0 /\ q[3] \in Nat /\ q[4] \in Nat
  BY <1>1, <1>1a, SpotParts DEF Tiles
<1>7. ASSUME NEW q \in S, NEW z \in S, G[q] = G[z] PROVE q = z
  <2>1. q[1] = z[1] /\ q[3] = z[3] /\ q[2] = z[2] /\ q[4] = z[4]
    BY <1>6a, <1>7
  <2> QED
    BY <2>1, SpotParts
<1>8. ASSUME NEW q \in S PROVE G[q][4] = RowOf(q) * p.N + ColumnOf(q)
  <2> DEFINE o == q[3] * P
  <2>1. G[q][4] = o + 0 * 1 + q[4]
    OBVIOUS
  <2>2. RowOf(q) = 0 /\ ColumnOf(q) = o + q[4] /\ o \in Nat
    BY <1>1, <1>6a DEF RowOf, ColumnOf
  <2> HIDE DEF o
  <2> QED
    BY <1>1, <1>6a, <2>1, <2>2
<1> HIDE DEF G, E, S
<1>9. Spread(E, G, 1, p.N)
  BY <1>1, <1>6, <1>7, <1>8 DEF Spread, S
<1>10. {e[4] : e \in E} = 0..1 * p.N - 1 /\ Cardinality(E) = 1 * p.N
  BY <1>9, SpotsCover
<1>11. 1 * p.N = p.N
  BY <1>1
<1> QED
  BY <1>10, <1>11 DEF Covers, E

(* Without a base there is nothing of the bias in the plan. *)
LEMMA NoBiasCovered ==
  ASSUME NEW p, NEW plan, \A t : ~(t \in DOMAIN plan /\ t[1] = "bias")
  PROVE  Covers(p, "bias", 0, plan)
<1> DEFINE E == Elements(p, "bias", plan)
<1>1. E = {}
  BY DEF Elements
<1> HIDE DEF E
<1>2. Cardinality(E) = 0
  BY <1>1, FS_EmptySet
<1>3. {e[4] : e \in E} = 0..0 - 1
  BY <1>1
<1> QED
  BY <1>2, <1>3 DEF Covers, E

(* An address is a number, and no step is given a negative one. *)
LEMMA AddressesNatural ==
  ASSUME NEW p, IsSize(p), NEW biasGiven, NEW plan, plan = ComputeAddresses(p, biasGiven)
  PROVE  \A t \in DOMAIN plan : plan[t].addr \in Nat
<1>1. P \in Nat /\ p.K \in Nat /\ p.N \in Nat
  BY RowsPositive DEF IsSize
<1>2. \A x, y \in Nat : x * y \in Nat /\ x + y \in Nat
  OBVIOUS
<1>3. \A x : \A t \in Tiles(x) : t \in Nat
  BY DEF Tiles
<1>4. ASSUME NEW a \in Nat, NEW r \in Nat, NEW b \in Nat
      PROVE  /\ WeightAddress(p, a, b) \in Nat /\ ActAddress(p, a, r, b) \in Nat
             /\ BiasAddress(b) \in Nat /\ StoreAddress(p, a, b) \in Nat
  <2>1. a * P \in Nat /\ b * P \in Nat
    BY <1>1, <1>2
  <2>2. a * P + r \in Nat
    BY <1>2, <2>1
  <2>3. (a * P) * p.N \in Nat /\ (a * P + r) * p.K \in Nat
    BY <1>1, <1>2, <2>1, <2>2
  <2> QED
    BY <1>2, <2>1, <2>3 DEF WeightAddress, ActAddress, BiasAddress, StoreAddress
<1>5. ASSUME NEW a \in Tiles(p.K), NEW b \in Tiles(p.N), <<"weight", a, b>> \in DOMAIN plan
      PROVE  plan[<<"weight", a, b>>].addr = WeightAddress(p, a, b)
  BY <1>5 DEF ComputeAddresses
<1>6. ASSUME NEW a \in Tiles(p.M), NEW r \in 0..P - 1, NEW b \in Tiles(p.K),
             <<"act", a, r, b>> \in DOMAIN plan
      PROVE  plan[<<"act", a, r, b>>].addr = ActAddress(p, a, r, b)
  BY <1>6 DEF ComputeAddresses
<1>7. ASSUME NEW b \in Tiles(p.N), <<"bias", b>> \in DOMAIN plan
      PROVE  plan[<<"bias", b>>].addr = BiasAddress(b)
  BY <1>7 DEF ComputeAddresses
<1>8. ASSUME NEW a \in Tiles(p.M), NEW b \in Tiles(p.N), <<"store", a, b>> \in DOMAIN plan
      PROVE  plan[<<"store", a, b>>].addr = StoreAddress(p, a, b)
  BY <1>8 DEF ComputeAddresses
<1>9. ASSUME NEW t \in DOMAIN plan PROVE plan[t].addr \in Nat
  <2>1. t[1] \in {"weight", "act", "bias", "store"}
    BY DEF ComputeAddresses
  <2>2. CASE t[1] = "weight"
    <3>1. PICK a \in Tiles(p.K), b \in Tiles(p.N) : t = <<"weight", a, b>>
      BY <2>2, Planned
    <3> QED
      BY <1>3, <1>4, <1>5, <3>1
  <2>3. CASE t[1] = "act"
    <3>1. PICK a \in Tiles(p.M), r \in 0..P - 1, b \in Tiles(p.K) : t = <<"act", a, r, b>>
      BY <2>3 DEF ComputeAddresses
    <3>2. a \in Nat /\ r \in Nat /\ b \in Nat
      BY <1>1, <1>3, <3>1
    <3>3. plan[t].addr = ActAddress(p, a, r, b)
      BY <1>6, <3>1
    <3> QED
      BY <1>4, <3>2, <3>3
  <2>4. CASE t[1] = "bias"
    <3>1. PICK b \in Tiles(p.N) : t = <<"bias", b>>
      BY <2>4, Planned
    <3> QED
      BY <1>3, <1>4, <1>7, <3>1
  <2>5. CASE t[1] = "store"
    <3>1. PICK a \in Tiles(p.M), b \in Tiles(p.N) : t = <<"store", a, b>>
      BY <2>5, Planned
    <3> QED
      BY <1>3, <1>4, <1>8, <3>1
  <2> QED
    BY <2>1, <2>2, <2>3, <2>4, <2>5
<1> QED
  BY <1>9

(* The transfers of a run have their addresses in the plan, those that load a
   bias if it has a base. *)
PlannedStep(p, biasGiven) ==
  {s \in ProgramStep :
     s.tile # NoTile =>
       /\ s.tile \in DOMAIN ComputeAddresses(p, biasGiven) <=> (s.ins.op = "LOAD_BIAS" => biasGiven)
       /\ s.tile[1] = "bias" <=> s.ins.op = "LOAD_BIAS"}

(* Every transfer that the generator appends is such a step. *)
LEMMA AppendedPlanned ==
  ASSUME NEW p, IsSize(p), NEW biasGiven, NEW j \in Tiles(p.N)
  PROVE  Appended(p, j, PlannedStep(p, biasGiven))
<1> DEFINE D == DOMAIN ComputeAddresses(p, biasGiven)
           InPlan(s) == s.tile \in D /\ s.tile[1] # "bias" /\ s.ins.op # "LOAD_BIAS"
           X == PlannedStep(p, biasGiven)
<1>0. P \in Nat \ {0} /\ BIAS_BEATS - 1 \in Int /\ j \in Int
  BY RowsPositive, IsaAssumption, SimAssumption DEF Tiles
<1>1. \A s \in ProgramStep : s.tile = NoTile \/ InPlan(s) => s \in X
  BY DEF PlannedStep
<1>1a. \A s \in ProgramStep :
         (s.tile \in D <=> biasGiven) /\ s.tile[1] = "bias" /\ s.ins.op = "LOAD_BIAS" => s \in X
  BY DEF PlannedStep
<1>1b. /\ LOAD_WGT(0, P - 1).op # "LOAD_BIAS" /\ LOAD_BIAS(0, BIAS_BEATS - 1).op = "LOAD_BIAS"
       /\ \A r, x : LOAD_ACT(0, r, x).op # "LOAD_BIAS" /\ STORE(0, r, x).op # "LOAD_BIAS"
  BY DEF LOAD_WGT, LOAD_BIAS, LOAD_ACT, STORE, Blank
<1>2. \A i, t : Do(i).tile = NoTile /\ With(i, t).tile = t /\ With(i, t).ins = i
  BY DEF Do, With
<1>3. /\ \A a \in Tiles(p.K), b \in Tiles(p.N) : <<"weight", a, b>> \in D
      /\ \A a \in Tiles(p.M), r \in 0..P - 1, b \in Tiles(p.K) : <<"act", a, r, b>> \in D
      /\ \A b \in Tiles(p.N) : <<"bias", b>> \in D <=> biasGiven
      /\ \A a \in Tiles(p.M), b \in Tiles(p.N) : <<"store", a, b>> \in D
  BY DEF ComputeAddresses
<1> HIDE DEF D, X
<1>4. Do(NOP) \in X /\ Do(SWAP_WGT) \in X /\ Do(END) \in X
  BY <1>1, <1>2, StepsTyped
<1>5. With(LOAD_BIAS(0, BIAS_BEATS - 1), <<"bias", j>>) \in X
  <2> DEFINE b == With(LOAD_BIAS(0, BIAS_BEATS - 1), <<"bias", j>>)
  <2>1. b \in ProgramStep
    BY <1>0, StepsTyped
  <2>2. b.tile = <<"bias", j>> /\ b.ins.op = "LOAD_BIAS"
    BY <1>1b, <1>2
  <2> HIDE DEF b
  <2>3. (b.tile \in D <=> biasGiven) /\ b.tile[1] = "bias"
    BY <1>3, <2>2
  <2> QED
    BY <1>1a, <2>1, <2>2, <2>3 DEF b
<1>6. ASSUME NEW kt \in Tiles(p.K) PROVE LoadWeights(kt, j) \in X
  <2>1. LoadWeights(kt, j) \in ProgramStep
    BY <1>0, StepsTyped DEF Tiles
  <2>2. InPlan(LoadWeights(kt, j))
    BY <1>1b, <1>2, <1>3 DEF LoadWeights
  <2> QED
    BY <1>1, <2>1, <2>2
<1>7. ASSUME NEW i \in Tiles(p.M)
      PROVE  /\ With(STORE(0, 0, InTile(p.M, i) - 1), <<"store", i, j>>) \in X
             /\ \A r \in 0..InTile(p.M, i) - 1 :
                  /\ Do(VECTOR(0, r)) \in X
                  /\ \A kt \in Tiles(p.K) : LoadRow(i, r, kt) \in X
                  /\ \A c \in Ctrl : Do(MATMUL(0, r, c)) \in X
  <2> DEFINE n == InTile(p.M, i) - 1
  <2>1. InTile(p.M, i) \in 1..P /\ i \in Int
    BY TileParts DEF IsSize
  <2>2. n \in Int /\ n <= P - 1
    BY <1>0, <2>1
  <2> HIDE DEF n
  <2>3. With(STORE(0, 0, n), <<"store", i, j>>) \in X
    <3>1. With(STORE(0, 0, n), <<"store", i, j>>) \in ProgramStep
      BY <1>0, <2>1, <2>2, StepsTyped
    <3>2. InPlan(With(STORE(0, 0, n), <<"store", i, j>>))
      BY <1>1b, <1>2, <1>3
    <3> QED
      BY <1>1, <3>1, <3>2
  <2>4. ASSUME NEW r \in 0..n
        PROVE  /\ Do(VECTOR(0, r)) \in X
               /\ \A kt \in Tiles(p.K) : LoadRow(i, r, kt) \in X
               /\ \A c \in Ctrl : Do(MATMUL(0, r, c)) \in X
    <3>1. r \in Int /\ r \in 0..P - 1
      BY <1>0, <2>2
    <3>2. Do(VECTOR(0, r)) \in X /\ \A c \in Ctrl : Do(MATMUL(0, r, c)) \in X
      BY <1>1, <1>2, <3>1, StepsTyped
    <3>3. ASSUME NEW kt \in Tiles(p.K) PROVE LoadRow(i, r, kt) \in X
      <4>1. LoadRow(i, r, kt) \in ProgramStep
        BY <2>1, <3>1, StepsTyped DEF Tiles
      <4>2. InPlan(LoadRow(i, r, kt))
        BY <1>1b, <1>2, <1>3, <3>1 DEF LoadRow
      <4> QED
        BY <1>1, <4>1, <4>2
    <3> QED
      BY <3>2, <3>3
  <2> QED
    BY <2>3, <2>4 DEF n
<1>8. Appended(p, j, X)
  BY <1>4, <1>5, <1>6, <1>7 DEF Appended
<1> QED
  BY <1>8 DEF X

(* and it says that the files hold the programs. *)
LEMMA FilesExact == ASSUME RowsFit, FilesInv, GemmInv PROVE FilesRun
<1> DEFINE n == CeilDiv(size.N, P)
           decoded(j) == [k \in DOMAIN dir.hex[j] |-> Decode(dir.hex[j][k])]
<1>1. SUFFICES ASSUME phase \in {"run", "done"}, ~single
      PROVE  /\ DOMAIN dir.manifest = DOMAIN runs
             /\ \A j \in DOMAIN runs :
                  /\ decoded(j) = [k \in DOMAIN runs[j] |-> runs[j][k].ins]
                  /\ DOMAIN dir.manifest[j] =
                       {k \in DOMAIN decoded(j) : decoded(j)[k].op \in LoadOp \cup {"STORE"}}
                  /\ \A k \in DOMAIN dir.manifest[j] :
                       dir.manifest[j][k].value = UNSET <=>
                         decoded(j)[k].op = "LOAD_BIAS" /\ ~biased
  BY DEF FilesRun
<1>2. /\ runs = BuildTiledGemmRuns(size) /\ dir.manifest = Manifest
      /\ \A j \in DOMAIN runs : dir.hex[j] = EncodeProgram(runs[j])
  BY <1>1 DEF FilesInv
<1>3. DOMAIN dir.manifest = DOMAIN runs
  BY <1>2 DEF Manifest
<1>4. ASSUME NEW j \in DOMAIN runs
      PROVE  /\ decoded(j) = [k \in DOMAIN runs[j] |-> runs[j][k].ins]
             /\ DOMAIN dir.manifest[j] =
                  {k \in DOMAIN decoded(j) : decoded(j)[k].op \in LoadOp \cup {"STORE"}}
             /\ \A k \in DOMAIN dir.manifest[j] :
                  dir.manifest[j][k].value = UNSET <=> decoded(j)[k].op = "LOAD_BIAS" /\ ~biased
  <2> DEFINE w == runs[j]
             e == EncodeProgram(w)
             plan == ComputeAddresses(size, biased)
  <2>1. IsSize(size) /\ n \in Nat \ {0}
    BY JobIsJob, TileBounds DEF GemmInv, IsSize
  <2>2. j \in 1..n /\ w = ColumnRun(size, j - 1)
    BY <1>2 DEF BuildTiledGemmRuns
  <2>3. j - 1 \in Nat
    BY <2>1, <2>2
  <2>4. w \in Seq(Written)
    BY <2>1, <2>2, <2>3, AppendedWritten, RunOf
  <2>4a. w \in Seq(PlannedStep(size, biased))
    <3>1. j - 1 \in Tiles(size.N)
      BY <2>1, <2>2 DEF Tiles
    <3> QED
      BY <2>1, <2>2, <3>1, AppendedPlanned, RunOf
  <2> HIDE DEF n
  <2>5. \A k \in DOMAIN w : w[k] \in Written
    BY <2>4
  <2>5a. \A k \in DOMAIN w : w[k] \in PlannedStep(size, biased)
    BY <2>4a
  <2>5b. \A t \in DOMAIN plan : plan[t].addr \in Nat
    BY <2>1, AddressesNatural
  <2>6. dir.hex[j] = e /\ dir.manifest[j] = CsrWrites(w, plan)
    BY <1>2 DEF Manifest
  <2> HIDE DEF w
  <2>7. DOMAIN e = DOMAIN w /\ \A k \in DOMAIN w : e[k] = Encode(w[k].ins)
    BY DEF EncodeProgram
  <2> HIDE DEF e
  <2>8. \A k \in DOMAIN w : Decode(e[k]) = w[k].ins
    BY <2>5, <2>7 DEF Written, Survives
  <2>9. decoded(j) = [k \in DOMAIN w |-> w[k].ins]
    BY <2>6, <2>7, <2>8
  <2> HIDE DEF decoded
  <2>10. DOMAIN dir.manifest[j] = {k \in DOMAIN w : w[k].tile # NoTile}
    BY <2>6 DEF CsrWrites
  <2>11. \A k \in DOMAIN w : w[k].tile # NoTile <=> w[k].ins.op \in LoadOp \cup {"STORE"}
    BY <2>5 DEF Written, Transfer
  <2>12. DOMAIN decoded(j) = DOMAIN w /\ \A k \in DOMAIN w : decoded(j)[k] = w[k].ins
    BY <2>9
  <2>13. ASSUME NEW k \in DOMAIN dir.manifest[j]
         PROVE  dir.manifest[j][k].value = UNSET <=> w[k].ins.op = "LOAD_BIAS" /\ ~biased
    <3>1. k \in DOMAIN w /\ w[k].tile # NoTile
      BY <2>10
    <3>2. w[k].tile \in DOMAIN plan <=> (w[k].ins.op = "LOAD_BIAS" => biased)
      BY <2>5a, <3>1 DEF PlannedStep
    <3> HIDE DEF plan
    <3>3. dir.manifest[j][k].value =
            IF w[k].tile \in DOMAIN plan THEN plan[w[k].tile].addr ELSE UNSET
      BY <2>6, <3>1 DEF CsrWrites
    <3> QED
      BY <2>5b, <3>2, <3>3 DEF UNSET
  <2> QED
    BY <2>9, <2>10, <2>11, <2>12, <2>13 DEF w
<1> QED
  BY <1>3, <1>4

(* The words in the program's files decode to the instructions that the
   simulator executes, whatever an earlier program left in the directory, and
   the manifest has an entry for exactly the transfers, with a base unless it
   loads a bias for which none was given: write_program and
   encode/decode of isa.py, for every size whose row numbers fit a field. *)

THEOREM TiledFilesRun == RowsFit => (Spec => []FilesRun)
<1> SUFFICES ASSUME RowsFit PROVE Spec => []FilesRun
  OBVIOUS
<1>1. Init => FilesInv
  BY DEF Init, FilesInv
<1>2. FilesInv /\ [Next]_vars /\ GemmInv => FilesInv'
  BY FilesInductive
<1>3. FilesInv /\ GemmInv => FilesRun
  BY FilesExact
<1> QED
  BY <1>1, <1>2, <1>3, GemmAlways, PTL DEF Spec

(* The programs are the tiled ones while they are written. *)
WriteInv == phase \in {"write", "files"} => ~single /\ runs = BuildTiledGemmRuns(size)

(* Every step preserves it, *)
LEMMA WriteInductive == ASSUME WriteInv, [Next]_vars PROVE WriteInv'
<1>1. CASE Generate
  BY <1>1 DEF WriteInv, Generate, job, Programs
<1>2. CASE WriteManifest
  BY <1>2 DEF WriteInv, WriteManifest, job
<1>3. CASE WriteFiles
  BY <1>3 DEF WriteInv, WriteFiles
<1>4. CASE ExecuteInstruction
  <2>1. phase' \in {"run", "rejected"}
    BY <1>4 DEF ExecuteInstruction
  <2> QED
    BY <2>1 DEF WriteInv
<1>5. CASE NextRun
  BY <1>5 DEF WriteInv, NextRun
<1>6. CASE Return
  BY <1>6 DEF WriteInv, Return
<1>7. CASE GenerateAnother
  BY <1>7 DEF WriteInv, GenerateAnother
<1>8. CASE UNCHANGED vars
  BY <1>8 DEF WriteInv, vars
<1> QED
  BY <1>1, <1>2, <1>3, <1>4, <1>5, <1>6, <1>7, <1>8 DEF Next, Work

(* and the plan of these programs is complete. *)
LEMMA PlanCovers == ASSUME WriteInv, GemmInv PROVE AddressesCover
<1> SUFFICES ASSUME phase = "files" PROVE AddressesCover
  BY DEF AddressesCover
<1> DEFINE plan == ComputeAddresses(size, biased)
<1>1. IsSize(size) /\ runs = BuildTiledGemmRuns(size)
  BY JobIsJob DEF GemmInv, WriteInv
<1>2. /\ Covers(size, "weight", size.K * size.N, plan) /\ Covers(size, "act", size.M * size.K, plan)
      /\ Covers(size, "store", size.M * size.N, plan)
  BY <1>1, BlocksCovered, RowsCovered
<1>2a. Covers(size, "bias", IF biased THEN size.N ELSE 0, plan)
  <2>1. \A t : t \in DOMAIN plan /\ t[1] = "bias" <=>
                 biased /\ \E b \in Tiles(size.N) : t = <<"bias", b>>
    BY Planned
  <2>2. ASSUME biased, NEW b \in Tiles(size.N)
        PROVE  plan[<<"bias", b>>] = [addr |-> b * P, stride |-> 1]
    BY <2>2 DEF ComputeAddresses, BiasAddress
  <2> HIDE DEF plan
  <2>3. CASE biased
    <3>1. Covers(size, "bias", size.N, plan)
      BY <1>1, <2>1, <2>2, <2>3, BiasCovered
    <3> QED
      BY <2>3, <3>1
  <2>4. CASE ~biased
    <3>1. Covers(size, "bias", 0, plan)
      BY <2>1, <2>4, NoBiasCovered, Zenon
    <3> QED
      BY <2>4, <3>1
  <2> QED
    BY <2>3, <2>4
<1>3. ASSUME NEW j \in DOMAIN runs, NEW k \in DOMAIN runs[j], runs[j][k].tile # NoTile,
             runs[j][k].tile[1] = "bias" => biased
      PROVE  runs[j][k].tile \in DOMAIN plan
  <2> DEFINE n == CeilDiv(size.N, P)
             w == runs[j]
  <2>1. n \in Nat \ {0} /\ Tiles(size.N) = 0..n - 1
    BY <1>1, TileBounds DEF IsSize, Tiles
  <2>2. j \in 1..n /\ w = ColumnRun(size, j - 1)
    BY <1>1 DEF BuildTiledGemmRuns
  <2> HIDE DEF n
  <2>3. j - 1 \in Tiles(size.N)
    BY <2>1, <2>2
  <2>4. w \in Seq(PlannedStep(size, biased))
    BY <1>1, <2>2, <2>3, AppendedPlanned, RunOf
  <2>5. w[k] \in PlannedStep(size, biased)
    BY <2>4
  <2> QED
    BY <1>3, <2>5 DEF PlannedStep
<1> QED
  BY <1>2, <1>2a, <1>3 DEF AddressesCover

(* compute_addresses lays each matrix out exactly, for every size: the tiles,
   walked by their strides, meet each element once, at its row-major address,
   and no transfer of build_tiled_gemm_runs lacks an address, except that of a
   bias without a base. *)

THEOREM TiledAddressesCover == Spec => []AddressesCover
<1>1. Init => WriteInv
  BY DEF Init, WriteInv
<1>2. WriteInv /\ [Next]_vars => WriteInv'
  BY WriteInductive
<1>3. WriteInv /\ GemmInv => AddressesCover
  BY PlanCovers
<1> QED
  BY <1>1, <1>2, <1>3, GemmAlways, PTL DEF Spec
==============================================================================
